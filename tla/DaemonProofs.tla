---------------------------- MODULE DaemonProofs ----------------------------
(***************************************************************************)
(* Theorems of the parts of the daemon that MCDaemon runs.                 *)
(*                                                                         *)
(* Sockets, for every number of connections that take the slot and port in *)
(* turn, with applications that exit while they open and a device that is  *)
(* unplugged where that is said: no node is used after it was freed but to *)
(* wake up the send thread, and what an application was told is open is    *)
(* open; and for connections that overlap as they like, that closing one   *)
(* socket closes that one, or one that took its reply.                     *)
(*                                                                         *)
(* The start, the log and the nodes of ioctl connections (DaemonSafe), for *)
(* every number of clients, size of the ring and bound.                    *)
(***************************************************************************)
EXTENDS MCDaemon, SequenceTheorems, FiniteSetTheorems, WellFoundedInduction, TLAPS

-----------------------------------------------------------------------------
(* The inductive invariant.                                                *)

Replies == {Open(0), Open(HasOpened), Open(Failed), Closed}
InList(s) == s \in ToSet(work_list)

\* One session after the other, and the device is there.
Tidy == setup.overlap = "never" /\ plug = "in"

\* The types, and what holds however sessions overlap: what is in the list
\* was put there by the thread of its connection.
PlacesInv ==
  /\ app \in [Sessions -> {"idle", "opening", "open", "refused", "closed"}]
  /\ rpc \in [Sessions -> Connection] /\ nod \in [Sessions -> Node]
  /\ devOpen \in BOOLEAN /\ plug \in {"in", "out", "teardown", "stopped"}
  /\ cls_head \subseteq Sessions /\ setup \in Setups
  /\ plug = "in" \/ setup.unplug

ThreadsInv ==
  /\ snd \in [pc : {"scan", "picked", "make", "free", "freed"},
              node : Sessions \cup {NoSession}, rpc : BOOLEAN]
  /\ rcv \in [pc : {"idle", "proc", "answer", "notify"}, node : Sessions \cup {NoSession}, pack : Replies]
  /\ snd.pc # "scan" => snd.node \in Sessions
  /\ rcv.pc # "idle" => rcv.node \in Sessions
  /\ rcv.pc = "answer" => rcv.pack.opt = "open"

ListInv ==
  /\ work_list \in Seq(Sessions) /\ IsInjective(work_list)
  /\ \A s \in Sessions : InList(s) => rpc[s].pc # "none"

QueuesInv == toDev \in Seq({"open", "close"}) /\ fromDev \in Seq(Replies)

KindsInv == PlacesInv /\ ThreadsInv /\ ListInv /\ QueuesInv

\* All sessions but one have gone, or have not come.
SerialInv == Tidy => \A s, t \in Sessions : s = t \/ Gone(s) \/ Gone(t)

\* An application and its connection.
AppInv(s) ==
  /\ app[s] = "idle" => rpc[s].pc = "none"
  /\ rpc[s].conn <=> app[s] \in {"opening", "open", "refused"}
  /\ rpc[s].conn => rpc[s].pc \in {"none", "start", "ready"}
  /\ app[s] = "open" => nod[s].has_opened
  /\ rpc[s].sockdev <=> rpc[s].pc \in {"start", "ready"}

\* A connection and its node.  A node leaves the list to be freed only after
\* its connection ended.
NodeInv(s) ==
  /\ nod[s].mem = "none" <=> rpc[s].pc = "none"
  /\ rpc[s].pc \in {"start", "ready", "end"} => Live(s) /\ nod[s].sockrpc
  /\ nod[s].freeflag \/ nod[s].sta \in {"need_send_close", "wait_usb_close"} => rpc[s].pc = "done"
  /\ rpc[s].pc = "done" => ~ nod[s].sockrpc
  /\ rpc[s].pc \in {"none", "start"} => nod[s].sta = "not_init" /\ ~ nod[s].has_opened
  /\ Live(s) /\ nod[s].sta \in {"need_send_cmd", "wait_usb_cmd"} => nod[s].bound
  /\ nod[s].has_opened => nod[s].sta \notin {"need_send_cmd", "wait_usb_cmd"}
  /\ InList(s) <=> Live(s) /\ ~ (snd.pc \in {"free", "freed"} /\ snd.node = s)

AppsInv == Tidy => \A s \in Sessions : AppInv(s)
NodesInv == Tidy => \A s \in Sessions : NodeInv(s)

\* The nodes the send thread and the receive thread hold.
HandsInv == Tidy =>
  /\ snd.pc # "scan" => Live(snd.node)
  /\ snd.pc \in {"free", "freed"} => nod[snd.node].freeflag
  /\ snd.pc = "picked" => ~ nod[snd.node].freeflag /\ nod[snd.node].sta # "wait_usb_close"
  /\ ~ snd.rpc
  /\ rcv.pc = "answer" =>
       rpc[rcv.node].pc \notin {"none", "start"} /\ ~ nod[rcv.node].has_opened

\* A reply in the hands of the receive thread; a close and its reply on the
\* way; a socket whose close is on the way; the last of a queue; what is at
\* most once in it.
Got(pack) == rcv.pc \in {"proc", "answer"} /\ rcv.pack = pack
ClosePiped == Got(Closed) \/ Closed \in ToSet(fromDev) \/ "close" \in ToSet(toDev)
Closing(s) ==
  Live(s) /\ nod[s].sta = "wait_usb_close" /\ nod[s].has_opened /\ ~ nod[s].freeflag
OnlyLast(q, x) == \A k \in DOMAIN q : q[k] = x => k = Len(q)
AtMostOne(q, x) == \A j, k \in DOMAIN q : q[j] = x /\ q[k] = x => j = k

\* A close is sent once, by a node that stays until its reply came, and
\* nothing follows it.
CloseInv == Tidy =>
  /\ OnlyLast(toDev, "close") /\ OnlyLast(fromDev, Closed)
  /\ Closed \in ToSet(fromDev) => toDev = <<>> /\ ~ devOpen
  /\ Got(Closed) => fromDev = <<>> /\ toDev = <<>> /\ ~ devOpen /\ Live(rcv.node)
  /\ ClosePiped => \E s \in Sessions : Closing(s)

\* The device says once that it opened, and a node that was told has the
\* device's socket until it closes.
OpenInv == Tidy =>
  /\ AtMostOne(fromDev, Open(0))
  /\ Open(0) \in ToSet(fromDev) => devOpen /\ ~ Got(Open(0))
  /\ Got(Open(0)) => devOpen
  /\ \A s \in Sessions : Live(s) /\ nod[s].has_opened =>
       /\ ~ Got(Open(0)) /\ Open(0) \notin ToSet(fromDev)
       /\ devOpen \/ (nod[s].sta = "wait_usb_close" /\ toDev = <<>>)

OpenReplies == {Open(0), Open(HasOpened), Open(Failed)}
OpenPiped ==
  \/ rcv.pc \in {"proc", "answer"} /\ rcv.pack \in OpenReplies
  \/ ToSet(fromDev) \cap OpenReplies # {}
  \/ "open" \in ToSet(toDev)

\* While sessions take turns and wait: one request or reply is on the way,
\* that to so_open while the application waits for it, and an open socket of
\* the device belongs to a node.
OneInv == InTurn =>
  /\ Len(toDev) <= 1 /\ Len(fromDev) <= 1 /\ (toDev = <<>> \/ fromDev = <<>>)
  /\ rcv.pc \in {"proc", "answer"} => toDev = <<>> /\ fromDev = <<>>

WaitInv == InTurn => \A s \in Sessions :
  /\ rpc[s].pc \in {"none", "start"} => app[s] \in {"idle", "opening"}
  /\ Live(s) /\ nod[s].sta \in {"need_send_cmd", "wait_usb_cmd"} => app[s] = "opening"

Waiting(s) == Live(s) /\ nod[s].sta = "wait_usb_cmd" /\ (rcv.pc \in {"proc", "answer"} => rcv.node = s)
Owner(s) ==
  /\ Live(s) /\ ~ nod[s].freeflag
  /\ nod[s].has_opened \/ Got(Open(0)) \/ Open(0) \in ToSet(fromDev)

AskedInv == InTurn => (OpenPiped => \E s \in Sessions : Waiting(s))
OwnedInv == InTurn => (devOpen => \E s \in Sessions : Owner(s))

IInv == /\ KindsInv /\ SerialInv /\ AppsInv /\ NodesInv /\ HandsInv /\ CloseInv /\ OpenInv
        /\ OneInv /\ WaitInv /\ AskedInv /\ OwnedInv

-----------------------------------------------------------------------------
(* Queues and lists.                                                       *)

(* The first of a queue and the rest of it.                                *)
LEMMA QueueFacts ==
  ASSUME NEW T, NEW q \in Seq(T), q # <<>>
  PROVE  /\ Head(q) \in T /\ Tail(q) \in Seq(T) /\ ToSet(q) = {Head(q)} \cup ToSet(Tail(q))
         /\ Len(Tail(q)) = Len(q) - 1 /\ Len(q) \in Nat \ {0}
<1>1. /\ Head(q) \in T /\ Head(q) = q[1] /\ 1 \in DOMAIN q
      /\ Tail(q) \in Seq(T) /\ Len(Tail(q)) = Len(q) - 1 /\ Len(q) \in Nat \ {0}
      /\ \A k \in DOMAIN Tail(q) : k + 1 \in DOMAIN q /\ Tail(q)[k] = q[k + 1]
      /\ \A k \in DOMAIN q : k = 1 \/ (k - 1 \in DOMAIN Tail(q) /\ Tail(q)[k - 1] = q[k])
  OBVIOUS
<1>2. ASSUME NEW x \in ToSet(q) PROVE x = Head(q) \/ x \in ToSet(Tail(q))
  BY <1>1 DEF ToSet
<1>3. ASSUME NEW x \in ToSet(Tail(q)) PROVE x \in ToSet(q)
  BY <1>1 DEF ToSet
<1>4. Head(q) \in ToSet(q)
  BY <1>1 DEF ToSet
<1> QED
  BY <1>1, <1>2, <1>3, <1>4

(* A queue with one packet more.                                           *)
LEMMA AppendFacts ==
  ASSUME NEW T, NEW q \in Seq(T), NEW x \in T
  PROVE  /\ Append(q, x) \in Seq(T) /\ ToSet(Append(q, x)) = ToSet(q) \cup {x}
         /\ Len(Append(q, x)) = Len(q) + 1 /\ Append(q, x) # <<>>
<1>1. /\ Append(q, x) \in Seq(T) /\ Len(Append(q, x)) = Len(q) + 1
      /\ Len(q) + 1 \in DOMAIN Append(q, x) /\ Append(q, x)[Len(q) + 1] = x
      /\ \A k \in DOMAIN q : k \in DOMAIN Append(q, x) /\ Append(q, x)[k] = q[k]
      /\ \A k \in DOMAIN Append(q, x) : k = Len(q) + 1 \/ k \in DOMAIN q
  OBVIOUS
<1>2. ASSUME NEW y \in ToSet(Append(q, x)) PROVE y = x \/ y \in ToSet(q)
  BY <1>1 DEF ToSet
<1>3. ASSUME NEW y \in ToSet(q) PROVE y \in ToSet(Append(q, x))
  BY <1>1 DEF ToSet
<1>4. x \in ToSet(Append(q, x))
  BY <1>1 DEF ToSet
<1> QED
  BY <1>1, <1>2, <1>3, <1>4

(* Nothing is in the empty queue, and something in every other.            *)
LEMMA EmptyFacts ==
  /\ \A T : <<>> \in Seq(T)
  /\ Len(<<>>) = 0 /\ ToSet(<<>>) = {} /\ IsInjective(<<>>)
  /\ \A x : OnlyLast(<<>>, x) /\ AtMostOne(<<>>, x)
<1> QED
  BY DEF ToSet, IsInjective, OnlyLast, AtMostOne

(* One packet alone.                                                       *)
LEMMA SingleFacts ==
  ASSUME NEW x
  PROVE  Len(Append(<<>>, x)) = 1 /\ ToSet(Append(<<>>, x)) = {x}
<1>1. <<>> \in Seq({x}) /\ Len(<<>>) = 0 /\ ToSet(<<>>) = {}
  BY EmptyFacts
<1>2. /\ Len(Append(<<>>, x)) = Len(<<>>) + 1
      /\ ToSet(Append(<<>>, x)) = ToSet(<<>>) \cup {x}
  BY <1>1, AppendFacts
<1> QED
  BY <1>1, <1>2

(* What is only the last of a queue.                                       *)
LEMMA OnlyLastFacts ==
  ASSUME NEW T, NEW q \in Seq(T), NEW x \in T, OnlyLast(q, x)
  PROVE  /\ q # <<>> => OnlyLast(Tail(q), x)
         /\ q # <<>> /\ Head(q) = x => Tail(q) = <<>>
         /\ \A y \in T : x \notin ToSet(q) => OnlyLast(Append(q, y), x)
<1>1. ASSUME q # <<>> PROVE OnlyLast(Tail(q), x)
  BY <1>1 DEF OnlyLast
<1>2. ASSUME q # <<>>, Head(q) = x PROVE Tail(q) = <<>>
  <2>1. 1 \in DOMAIN q /\ q[1] = x
    BY <1>2
  <2>2. Len(q) = 1
    BY <2>1 DEF OnlyLast
  <2>3. Tail(q) \in Seq(T) /\ Len(Tail(q)) = 0
    BY <1>2, <2>2
  <2> QED
    BY <2>3, EmptySeq
<1>3. ASSUME NEW y \in T, x \notin ToSet(q) PROVE OnlyLast(Append(q, y), x)
  <2>1. \A k \in DOMAIN q : q[k] # x
    BY <1>3 DEF ToSet
  <2> QED
    BY <2>1 DEF OnlyLast
<1> QED
  BY <1>1, <1>2, <1>3

(* What is at most once in a queue.                                        *)
LEMMA AtMostOneFacts ==
  ASSUME NEW T, NEW q \in Seq(T), NEW x \in T, AtMostOne(q, x)
  PROVE  /\ q # <<>> => AtMostOne(Tail(q), x)
         /\ q # <<>> /\ Head(q) = x => x \notin ToSet(Tail(q))
         /\ \A y \in T : x \notin ToSet(q) \/ y # x => AtMostOne(Append(q, y), x)
<1>1. ASSUME q # <<>> PROVE AtMostOne(Tail(q), x)
  <2> SUFFICES ASSUME NEW j \in DOMAIN Tail(q), NEW k \in DOMAIN Tail(q),
                      Tail(q)[j] = x, Tail(q)[k] = x
               PROVE  j = k
    BY DEF AtMostOne
  <2>1. /\ j + 1 \in DOMAIN q /\ k + 1 \in DOMAIN q /\ q[j + 1] = x /\ q[k + 1] = x
        /\ j \in Int /\ k \in Int
    BY <1>1
  <2>2. j + 1 = k + 1
    BY <2>1 DEF AtMostOne
  <2> QED
    BY <2>1, <2>2
<1>2. ASSUME q # <<>>, Head(q) = x, x \in ToSet(Tail(q)) PROVE FALSE
  <2>1. PICK k \in DOMAIN Tail(q) : Tail(q)[k] = x
    BY <1>2 DEF ToSet
  <2>2. k + 1 \in DOMAIN q /\ q[k + 1] = x /\ 1 \in DOMAIN q /\ q[1] = x /\ k \in Nat \ {0}
    BY <1>2, <2>1
  <2>3. k + 1 = 1
    BY <2>2 DEF AtMostOne
  <2> QED
    BY <2>2, <2>3
<1>3. ASSUME NEW y \in T, x \notin ToSet(q) \/ y # x PROVE AtMostOne(Append(q, y), x)
  <2> SUFFICES ASSUME NEW j \in DOMAIN Append(q, y), NEW k \in DOMAIN Append(q, y),
                      Append(q, y)[j] = x, Append(q, y)[k] = x
               PROVE  j = k
    BY DEF AtMostOne
  <2>1. ASSUME NEW i \in DOMAIN Append(q, y), Append(q, y)[i] = x
        PROVE  (i = Len(q) + 1 /\ y = x) \/ (i \in DOMAIN q /\ q[i] = x)
    BY <2>1
  <2>2. \A i \in DOMAIN q : q[i] = x => x \in ToSet(q)
    BY DEF ToSet
  <2> QED
    BY <1>3, <2>1, <2>2 DEF AtMostOne
<1> QED
  BY <1>1, <1>2, <1>3

(* A list without one of its nodes.                                        *)
LEMMA RemoveFacts ==
  ASSUME NEW T, NEW q \in Seq(T), IsInjective(q), NEW i \in DOMAIN q
  PROVE  /\ RemoveAt(q, i) \in Seq(T) /\ IsInjective(RemoveAt(q, i))
         /\ ToSet(RemoveAt(q, i)) = ToSet(q) \ {q[i]}
<1> DEFINE a == SubSeq(q, 1, i - 1)
           b == SubSeq(q, i + 1, Len(q))
           c == a \o b
<1>1. /\ i \in 1 .. Len(q) /\ Len(q) \in Nat /\ DOMAIN q = 1 .. Len(q)
  OBVIOUS
<1>2. /\ a \in Seq(T) /\ Len(a) = i - 1 /\ \A k \in 1 .. i - 1 : a[k] = q[k]
  BY <1>1
<1>3. /\ b \in Seq(T) /\ Len(b) = Len(q) - i /\ \A k \in 1 .. Len(q) - i : b[k] = q[k + i]
  BY <1>1
<1> HIDE DEF a, b
<1>4. /\ c \in Seq(T) /\ Len(c) = Len(q) - 1 /\ DOMAIN c = 1 .. Len(q) - 1
      /\ \A k \in 1 .. Len(q) - 1 : c[k] = IF k < i THEN q[k] ELSE q[k + 1]
  <2>1. /\ c \in Seq(T) /\ Len(c) = Len(a) + Len(b)
        /\ \A k \in 1 .. Len(a) + Len(b) : c[k] = IF k <= Len(a) THEN a[k] ELSE b[k - Len(a)]
    BY <1>2, <1>3, ConcatProperties
  <2>2. Len(c) = Len(q) - 1
    BY <1>1, <1>2, <1>3, <2>1
  <2>3. ASSUME NEW k \in 1 .. Len(q) - 1 PROVE c[k] = IF k < i THEN q[k] ELSE q[k + 1]
    <3>1. CASE k < i
      <4>1. k \in 1 .. i - 1 /\ k <= Len(a) /\ k \in 1 .. Len(a) + Len(b)
        BY <1>1, <1>2, <1>3, <3>1
      <4>2. c[k] = a[k]
        BY <2>1, <4>1
      <4> QED
        BY <1>2, <3>1, <4>1, <4>2
    <3>2. CASE ~ k < i
      <4>1. /\ ~ k <= Len(a) /\ k \in 1 .. Len(a) + Len(b) /\ k - (i - 1) \in 1 .. Len(q) - i
            /\ k - (i - 1) + i = k + 1
        BY <1>1, <1>2, <1>3, <3>2
      <4>2. c[k] = b[k - (i - 1)]
        BY <1>2, <2>1, <4>1
      <4>3. b[k - (i - 1)] = q[k - (i - 1) + i]
        BY <1>3, <4>1
      <4> QED
        BY <3>2, <4>1, <4>2, <4>3
    <3> QED
      BY <3>1, <3>2
  <2> QED
    BY <2>1, <2>2, <2>3
<1>5. RemoveAt(q, i) = c
  BY DEF RemoveAt, a, b
<1> HIDE DEF c
<1>6. ASSUME NEW j \in 1 .. Len(q) - 1, NEW k \in 1 .. Len(q) - 1, c[j] = c[k] PROVE j = k
  <2>1. PICK u \in DOMAIN q : c[j] = q[u] /\ u = IF j < i THEN j ELSE j + 1
    BY <1>1, <1>4
  <2>2. PICK v \in DOMAIN q : c[k] = q[v] /\ v = IF k < i THEN k ELSE k + 1
    BY <1>1, <1>4
  <2>3. u = v
    BY <1>6, <2>1, <2>2 DEF IsInjective
  <2> QED
    BY <1>1, <2>1, <2>2, <2>3
<1>7. ASSUME NEW x \in ToSet(c) PROVE x \in ToSet(q) /\ x # q[i]
  <2>1. PICK k \in 1 .. Len(q) - 1 : c[k] = x
    BY <1>4 DEF ToSet
  <2> QED
    BY <1>1, <1>4, <2>1 DEF ToSet, IsInjective
<1>8. ASSUME NEW x \in ToSet(q), x # q[i] PROVE x \in ToSet(c)
  <2>1. PICK k \in 1 .. Len(q) : q[k] = x /\ k # i
    BY <1>1, <1>8 DEF ToSet
  <2>2. CASE k < i
    BY <1>1, <1>4, <2>1, <2>2 DEF ToSet
  <2>3. CASE k > i
    <3>1. k - 1 \in 1 .. Len(q) - 1 /\ c[k - 1] = x
      BY <1>1, <1>4, <2>1, <2>3
    <3> QED
      BY <1>4, <3>1 DEF ToSet
  <2> QED
    BY <1>1, <2>1, <2>2, <2>3
<1> QED
  BY <1>4, <1>5, <1>6, <1>7, <1>8 DEF IsInjective

(* A list with one more node at its head.                                  *)
LEMMA ConsFacts ==
  ASSUME NEW T, NEW q \in Seq(T), IsInjective(q), NEW x \in T, x \notin ToSet(q)
  PROVE  /\ <<x>> \o q \in Seq(T) /\ IsInjective(<<x>> \o q)
         /\ ToSet(<<x>> \o q) = ToSet(q) \cup {x}
<1> DEFINE c == <<x>> \o q
<1>1. /\ c \in Seq(T) /\ Len(q) \in Nat /\ DOMAIN q = 1 .. Len(q) /\ DOMAIN c = 1 .. Len(q) + 1
      /\ c[1] = x /\ \A k \in 1 .. Len(q) : c[k + 1] = q[k]
      /\ \A k \in 1 .. Len(q) + 1 : k = 1 \/ (k - 1 \in 1 .. Len(q) /\ c[k] = q[k - 1])
  OBVIOUS
<1>2. \A k \in 1 .. Len(q) : q[k] # x
  BY <1>1 DEF ToSet
<1> HIDE DEF c
<1>3. ASSUME NEW j \in 1 .. Len(q) + 1, NEW k \in 1 .. Len(q) + 1, c[j] = c[k] PROVE j = k
  <2>1. ASSUME NEW l \in 1 .. Len(q) + 1, l # 1
        PROVE  l - 1 \in 1 .. Len(q) /\ c[l] = q[l - 1] /\ c[l] # x
    BY <1>1, <1>2, <2>1
  <2>2. j = 1 <=> k = 1
    BY <1>1, <1>3, <2>1
  <2>3. CASE j # 1 /\ k # 1
    <3>1. /\ j - 1 \in DOMAIN q /\ k - 1 \in DOMAIN q /\ q[j - 1] = q[k - 1]
          /\ j \in Int /\ k \in Int
      BY <1>1, <1>3, <2>1, <2>3
    <3>2. j - 1 = k - 1
      BY <3>1 DEF IsInjective
    <3> QED
      BY <3>1, <3>2
  <2> QED
    BY <2>2, <2>3
<1>4. ASSUME NEW y \in ToSet(c) PROVE y = x \/ y \in ToSet(q)
  BY <1>1 DEF ToSet
<1>5. ASSUME NEW y \in ToSet(q) PROVE y \in ToSet(c)
  <2>1. PICK k \in 1 .. Len(q) : q[k] = y
    BY <1>1 DEF ToSet
  <2>2. k + 1 \in DOMAIN c /\ c[k + 1] = y
    BY <1>1, <2>1
  <2> QED
    BY <2>2 DEF ToSet
<1>6. x \in ToSet(c)
  BY <1>1 DEF ToSet
<1> QED
  BY <1>1, <1>3, <1>4, <1>5, <1>6 DEF c, IsInjective

(* The elements of a sequence.                                             *)
LEMMA Elements ==
  ASSUME NEW T, NEW q \in Seq(T)
  PROVE  /\ ToSet(q) \subseteq T
         /\ \A i \in DOMAIN q : q[i] \in T /\ q[i] \in ToSet(q)
<1> QED
  BY DEF ToSet

(* What the device says.                                                   *)
LEMMA ReplyFacts ==
  /\ Closed \notin OpenReplies /\ Replies = OpenReplies \cup {Closed}
  /\ Closed.opt = "close" /\ \A x \in OpenReplies : x.opt = "open" /\ (x.sta = 0 <=> x = Open(0))
  /\ Open(0) # Open(HasOpened) /\ Open(0) # Open(Failed) /\ Closed # Open(0)
<1> QED
  BY DEF OpenReplies, Replies, Closed, Open, HasOpened, Failed

-----------------------------------------------------------------------------
(* Sessions and steps.                                                     *)

(* The changes of a node, and of one of all the nodes.                     *)
LEMMA NodeUpdates ==
  ASSUME NEW n \in Node, NEW b \in BOOLEAN
  PROVE  /\ [n EXCEPT !.mem = "live", !.sockrpc = TRUE, !.bound = b] \in Node
         /\ [n EXCEPT !.bound = TRUE, !.sta = "need_send_cmd"] \in Node
         /\ [n EXCEPT !.sta = "need_send_close", !.sockrpc = FALSE] \in Node
         /\ [n EXCEPT !.sta = IF b THEN "can_send_data" ELSE "not_init",
                      !.has_opened = n.has_opened \/ b] \in Node
<1>1. [n EXCEPT !.mem = "live", !.sockrpc = TRUE, !.bound = b] \in Node
  BY DEF Node
<1>2. [n EXCEPT !.bound = TRUE, !.sta = "need_send_cmd"] \in Node
  BY DEF Node
<1>3. [n EXCEPT !.sta = "need_send_close", !.sockrpc = FALSE] \in Node
  BY DEF Node
<1>4. [n EXCEPT !.sta = IF b THEN "can_send_data" ELSE "not_init",
               !.has_opened = n.has_opened \/ b] \in Node
  <2>1. (n.has_opened \/ b) \in BOOLEAN
    OBVIOUS
  <2> QED
    BY <2>1 DEF Node
<1> QED
  BY <1>1, <1>2, <1>3, <1>4

(* One node replaced among the nodes of all connections.                   *)
LEMMA OneNode ==
  ASSUME NEW f \in [Sessions -> Node], NEW s \in Sessions, NEW n \in Node
  PROVE  [f EXCEPT ![s] = n] \in [Sessions -> Node]
<1> QED
  OBVIOUS

(* The types the model states.                                             *)
LEMMA KindsTypeOK == KindsInv => TypeOK
<1> SUFFICES ASSUME KindsInv PROVE TypeOK
  OBVIOUS
<1>1. ToSet(work_list) \subseteq Sessions
  BY Elements DEF KindsInv, ListInv
<1>2. ToSet(toDev) \subseteq {"open", "close"}
  BY Elements DEF KindsInv, QueuesInv
<1>3. ToSet(fromDev) \subseteq Replies
  BY Elements DEF KindsInv, QueuesInv
<1> QED
  BY <1>1, <1>2, <1>3 DEF KindsInv, PlacesInv, ThreadsInv, ListInv, TypeOK, Replies

(* One node at a time is alive, and it is of the session that is not gone. *)
LEMMA OneAlive ==
  ASSUME IInv, Tidy
  PROVE  /\ \A s \in Sessions : Live(s) => ~ Gone(s)
         /\ \A s, t \in Sessions : Live(s) /\ Live(t) => s = t
<1>1. \A s \in Sessions : Live(s) => ~ Gone(s)
  BY DEF IInv, AppsInv, NodesInv, AppInv, NodeInv, Live, Gone
<1> QED
  BY <1>1 DEF IInv, SerialInv

(* The reply to so_close is in the hands of the node that waits for it.    *)
LEMMA ClosedIsOwn == ASSUME IInv, Tidy, Got(Closed) PROVE Closing(rcv.node)
<1>1. PICK s \in Sessions : Closing(s)
  BY DEF IInv, CloseInv, ClosePiped
<1>2. Live(rcv.node) /\ rcv.node \in Sessions
  BY DEF IInv, CloseInv, Got, KindsInv, ThreadsInv
<1> QED
  BY <1>1, <1>2, OneAlive DEF Closing

\* The scan changes nothing but marks.
OnlyMarked ==
  /\ nod' \in [Sessions -> Node]
  /\ \A s \in Sessions :
       /\ nod'[s].mem = nod[s].mem /\ nod'[s].bound = nod[s].bound
       /\ nod'[s].has_opened = nod[s].has_opened /\ nod'[s].sockrpc = nod[s].sockrpc
       /\ nod'[s].sta = nod[s].sta
       /\ nod[s].freeflag => nod'[s].freeflag
       /\ nod'[s].freeflag => nod[s].freeflag \/ ToFree(s)

(* What a scan does to the nodes it passes.                                *)
LEMMA MarkedOnly ==
  ASSUME PlacesInv, NEW passed, nod' = Marked(passed)
  PROVE  OnlyMarked
<1> QED
  BY DEF PlacesInv, Node, Marked, OnlyMarked

(* What a scan may find.                                                   *)
LEMMA ScanFacts ==
  ASSUME KindsInv, Scan
  PROVE  /\ OnlyMarked /\ UNCHANGED <<app, rpc, rcv, devVars, plugVars>> /\ snd.pc = "scan"
         /\ \/ snd' = snd /\ work_list' = work_list
            \/ \E s \in Sessions :
                 /\ InList(s) /\ ~ nod[s].freeflag /\ ~ nod'[s].freeflag
                 /\ nod[s].sta # "wait_usb_close"
                 /\ snd' = [snd EXCEPT !.pc = "picked", !.node = s] /\ work_list' = work_list
            \/ \E s \in Sessions :
                 /\ InList(s) /\ nod[s].freeflag
                 /\ snd' = [snd EXCEPT !.pc = "free", !.node = s]
                 /\ work_list' \in Seq(Sessions) /\ IsInjective(work_list')
                 /\ ToSet(work_list') = ToSet(work_list) \ {s}
<1>1. CASE \E i \in DOMAIN work_list :
             LET s == work_list[i] IN
             /\ ToWork(s) /\ \A j \in 1 .. i - 1 : ~ ToWork(work_list[j])
             /\ nod' = Marked({work_list[j] : j \in 1 .. i - 1})
             /\ snd' = [snd EXCEPT !.pc = IF nod[s].freeflag THEN "free" ELSE "picked",
                                   !.node = s]
             /\ work_list' = IF nod[s].freeflag THEN RemoveAt(work_list, i) ELSE work_list
  <2>1. PICK i \in DOMAIN work_list :
             /\ ToWork(work_list[i])
             /\ nod' = Marked({work_list[j] : j \in 1 .. i - 1})
             /\ snd' = [snd EXCEPT !.pc = IF nod[work_list[i]].freeflag THEN "free" ELSE "picked",
                                   !.node = work_list[i]]
             /\ work_list' = IF nod[work_list[i]].freeflag THEN RemoveAt(work_list, i)
                            ELSE work_list
    BY <1>1
  <2>2. OnlyMarked
    BY <2>1, MarkedOnly DEF KindsInv
  <2>3. work_list[i] \in Sessions /\ InList(work_list[i])
    BY Elements DEF KindsInv, ListInv, InList
  <2>4. CASE nod[work_list[i]].freeflag
    <3>1. /\ work_list' \in Seq(Sessions) /\ IsInjective(work_list')
          /\ ToSet(work_list') = ToSet(work_list) \ {work_list[i]}
      BY <2>1, <2>4, RemoveFacts DEF KindsInv, ListInv
    <3>2. snd' = [snd EXCEPT !.pc = "free", !.node = work_list[i]]
      BY <2>1, <2>4
    <3> QED
      BY <2>2, <2>3, <2>4, <3>1, <3>2 DEF Scan
  <2>5. CASE ~ nod[work_list[i]].freeflag
    <3>1. snd' = [snd EXCEPT !.pc = "picked", !.node = work_list[i]] /\ work_list' = work_list
      BY <2>1, <2>5
    <3>2. ~ nod'[work_list[i]].freeflag /\ nod[work_list[i]].sta # "wait_usb_close"
      BY <2>1, <2>2, <2>3, <2>5 DEF OnlyMarked, ToWork, ToFree
    <3> QED
      BY <2>2, <2>3, <2>5, <3>1, <3>2 DEF Scan
  <2> QED
    BY <2>4, <2>5
<1>2. CASE nod' = Marked(ToSet(work_list)) /\ UNCHANGED <<snd, work_list>>
  <2>1. OnlyMarked
    BY <1>2, MarkedOnly DEF KindsInv
  <2> QED
    BY <1>2, <2>1 DEF Scan
<1> QED
  BY <1>1, <1>2 DEF Scan

(* What is made of the node the send thread picked.                        *)
LEMMA PackFacts ==
  ASSUME KindsInv, PackMake
  PROVE  /\ snd.pc = "make" /\ snd.node \in Sessions
         /\ UNCHANGED <<app, rpc, work_list, rcv, fromDev, devOpen, plugVars>>
         /\ \/ /\ ~ nod[snd.node].freeflag /\ nod[snd.node].sta = "need_send_cmd"
               /\ nod' = [nod EXCEPT ![snd.node].sta = "wait_usb_cmd"]
               /\ snd' = snd /\ (plug = "in" => toDev' = Append(toDev, "open"))
            \/ /\ ~ nod[snd.node].freeflag /\ nod[snd.node].sta = "need_send_close"
               /\ nod[snd.node].has_opened
               /\ nod' = [nod EXCEPT ![snd.node].sta = "wait_usb_close"]
               /\ snd' = snd /\ (plug = "in" => toDev' = Append(toDev, "close"))
            \/ OnlyMarked /\ snd' = [snd EXCEPT !.pc = "scan"] /\ toDev' = toDev
<1>1. nod' = Marked({snd.node}) => OnlyMarked
  BY MarkedOnly DEF KindsInv
<1> QED
  BY <1>1 DEF PackMake, Send, KindsInv, ThreadsInv

(* What the receive thread does with a reply.                              *)
LEMMA FindFacts ==
  ASSUME KindsInv, RecvFind
  PROVE  /\ rcv.pc = "idle" /\ fromDev # <<>> /\ fromDev' = Tail(fromDev)
         /\ UNCHANGED <<app, rpc, nodeVars, snd, toDev, devOpen, plugVars>>
         /\ Head(fromDev) \in Replies
         /\ \/ \E n \in Sessions :
                 /\ InList(n) /\ Takes(n, Head(fromDev))
                 /\ rcv' = [pc |-> "proc", node |-> n, pack |-> Head(fromDev)]
            \/ /\ rcv' = rcv
               /\ \A n \in Sessions : InList(n) => ~ Takes(n, Head(fromDev))
<1>1. Head(fromDev) \in Replies
  BY QueueFacts DEF RecvFind, KindsInv, QueuesInv
<1>2. CASE \E i \in DOMAIN work_list :
             /\ Takes(work_list[i], Head(fromDev))
             /\ rcv' = [pc |-> "proc", node |-> work_list[i], pack |-> Head(fromDev)]
  <2>1. PICK i \in DOMAIN work_list :
             /\ Takes(work_list[i], Head(fromDev))
             /\ rcv' = [pc |-> "proc", node |-> work_list[i], pack |-> Head(fromDev)]
    BY <1>2
  <2>2. work_list[i] \in Sessions /\ InList(work_list[i])
    BY Elements DEF KindsInv, ListInv, InList
  <2> QED
    BY <1>1, <2>1, <2>2 DEF RecvFind
<1>3. CASE rcv' = rcv /\ \A s \in ToSet(work_list) : ~ Takes(s, Head(fromDev))
  BY <1>1, <1>3 DEF RecvFind, InList
<1> QED
  BY <1>2, <1>3 DEF RecvFind

(* What the receive thread does with a reply to so_open.                   *)
LEMMA OpenedFacts ==
  ASSUME KindsInv, RecvOpened
  PROVE  /\ rcv.pc = "proc" /\ rcv.node \in Sessions /\ rcv.pack \in OpenReplies
         /\ UNCHANGED <<app, rpc, work_list, snd, devVars, plugVars>>
         /\ \/ /\ nod[rcv.node].sta = "wait_usb_cmd" /\ nod[rcv.node].sockrpc
               /\ rcv' = [rcv EXCEPT !.pc = "answer"] /\ nod' = nod
            \/ /\ nod[rcv.node].sta = "wait_usb_cmd" /\ ~ nod[rcv.node].sockrpc
               /\ nod' = [nod EXCEPT ![rcv.node].sta = "need_send_close"] /\ rcv'.pc = "idle"
            \/ nod[rcv.node].sta # "wait_usb_cmd" /\ nod' = nod /\ rcv'.pc = "idle"
<1>1. rcv.pc = "proc" /\ rcv.node \in Sessions /\ rcv.pack \in Replies /\ rcv.pack # Closed
  BY ReplyFacts DEF RecvOpened, KindsInv, ThreadsInv
<1> QED
  BY <1>1, ReplyFacts DEF RecvOpened, RecvDone

(* What answering so_open leaves alone, and what it tells.                 *)
LEMMA AnswerFacts ==
  ASSUME KindsInv, RecvAnswer
  PROVE  /\ rcv.pc = "answer" /\ rcv.node \in Sessions /\ rcv.pack \in OpenReplies
         /\ rcv'.pc = "idle"
         /\ UNCHANGED <<rpc, work_list, snd, devVars, plugVars>>
         /\ Told(rcv.node, IF rcv.pack = Open(0) THEN "open" ELSE "refused")
         /\ \A s \in Sessions :
              /\ nod'[s].mem = nod[s].mem /\ nod'[s].freeflag = nod[s].freeflag
              /\ nod'[s].bound = nod[s].bound /\ nod'[s].sockrpc = nod[s].sockrpc
              /\ s # rcv.node => nod'[s] = nod[s]
         /\ nod'[rcv.node].sta = IF rcv.pack = Open(0) THEN "can_send_data" ELSE "not_init"
         /\ nod'[rcv.node].has_opened <=> nod[rcv.node].has_opened \/ rcv.pack = Open(0)
<1> DEFINE opened == rcv.pack.sta = 0
<1>1. /\ rcv.pc = "answer" /\ rcv.node \in Sessions /\ rcv.pack \in OpenReplies
      /\ opened <=> rcv.pack = Open(0)
  BY ReplyFacts DEF RecvAnswer, KindsInv, ThreadsInv
<1>2. /\ nod \in [Sessions -> Node]
      /\ nod' = [nod EXCEPT ![rcv.node].sta = IF opened THEN "can_send_data" ELSE "not_init",
                            ![rcv.node].has_opened = nod[rcv.node].has_opened \/ opened]
      /\ Told(rcv.node, IF opened THEN "open" ELSE "refused")
      /\ rcv'.pc = "idle" /\ UNCHANGED <<rpc, work_list, snd, devVars, plugVars>>
  BY DEF RecvAnswer, RecvDone, KindsInv, PlacesInv
<1> HIDE DEF opened
<1>3. \A s \in Sessions :
              /\ nod'[s].mem = nod[s].mem /\ nod'[s].freeflag = nod[s].freeflag
              /\ nod'[s].bound = nod[s].bound /\ nod'[s].sockrpc = nod[s].sockrpc
              /\ s # rcv.node => nod'[s] = nod[s]
  BY <1>1, <1>2
<1>4. /\ nod'[rcv.node].sta = IF opened THEN "can_send_data" ELSE "not_init"
      /\ nod'[rcv.node].has_opened = (nod[rcv.node].has_opened \/ opened)
  BY <1>1, <1>2
<1> QED
  BY <1>1, <1>2, <1>3, <1>4

(* What the device does with a request.                                    *)
LEMMA DeviceFacts ==
  ASSUME KindsInv, DevOpen
  PROVE  /\ toDev # <<>> /\ Head(toDev) = "open" /\ toDev' = Tail(toDev)
         /\ UNCHANGED <<app, rpc, nodeVars, snd, rcv, plugVars>>
         /\ \E x \in OpenReplies :
              /\ fromDev' = Append(fromDev, x) /\ (x = Open(0) => ~ devOpen)
              /\ devOpen' <=> devOpen \/ x = Open(0)
<1> QED
  BY ReplyFacts DEF DevOpen, OpenReplies

(* While sessions take turns the device is there, and one that waits for   *)
(* the answer to so_open has its application and its node in the list.     *)
LEMMA TurnTidy == ASSUME IInv, InTurn PROVE Tidy
<1> QED
  BY DEF IInv, KindsInv, PlacesInv, InTurn, Tidy

(* In turn after a step is in turn before it: the setup stays, and no      *)
(* device comes back.                                                      *)
LEMMA TurnKept == ASSUME IInv, setup' = setup, InTurn' PROVE InTurn /\ Tidy
<1> QED
  BY TurnTidy DEF InTurn

(* A node that waits for the reply to so_open while sessions take turns.   *)
LEMMA WaitingFacts ==
  ASSUME IInv, InTurn, NEW s \in Sessions, Live(s), nod[s].sta = "wait_usb_cmd"
  PROVE  /\ app[s] = "opening" /\ rpc[s].pc = "ready" /\ ~ nod[s].freeflag /\ nod[s].sockrpc
         /\ InList(s) /\ nod[s].bound /\ ~ nod[s].has_opened
<1>1. Tidy
  BY TurnTidy
<1>2. app[s] = "opening" /\ rpc[s].conn
  BY <1>1 DEF IInv, WaitInv, AppsInv, AppInv
<1>3. rpc[s].pc = "ready" /\ ~ nod[s].freeflag /\ nod[s].sockrpc
  BY <1>1, <1>2 DEF IInv, AppsInv, AppInv, NodesInv, NodeInv
<1>4. InList(s) /\ nod[s].bound /\ ~ nod[s].has_opened
  BY <1>1, <1>3 DEF IInv, NodesInv, NodeInv, HandsInv
<1> QED
  BY <1>2, <1>3, <1>4

(* When a node is about to send a request, nothing is on the way.          *)
LEMMA NothingPiped ==
  ASSUME IInv, InTurn, NEW s \in Sessions, Live(s),
         nod[s].sta \in {"need_send_cmd", "need_send_close"}
  PROVE  toDev = <<>> /\ fromDev = <<>> /\ rcv.pc \notin {"proc", "answer"}
<1>1. Tidy
  BY TurnTidy
<1>2. ~ ClosePiped
  BY <1>1, OneAlive DEF IInv, CloseInv, Closing
<1>3. ~ OpenPiped
  BY <1>1, OneAlive DEF IInv, AskedInv, Waiting
<1>4. rcv.pc \notin {"proc", "answer"}
  BY <1>2, <1>3, ReplyFacts DEF ClosePiped, OpenPiped, Got, IInv, KindsInv, ThreadsInv
<1>5. toDev = <<>>
  <2>1. ASSUME toDev # <<>> PROVE FALSE
    <3>1. Head(toDev) \in {"open", "close"} /\ Head(toDev) \in ToSet(toDev)
      BY <2>1, QueueFacts DEF IInv, KindsInv, QueuesInv
    <3> QED
      BY <1>2, <1>3, <3>1 DEF ClosePiped, OpenPiped
  <2> QED
    BY <2>1
<1>6. fromDev = <<>>
  <2>1. ASSUME fromDev # <<>> PROVE FALSE
    <3>1. Head(fromDev) \in Replies /\ Head(fromDev) \in ToSet(fromDev)
      BY <2>1, QueueFacts DEF IInv, KindsInv, QueuesInv
    <3> QED
      BY <1>2, <1>3, <3>1, ReplyFacts DEF ClosePiped, OpenPiped
  <2> QED
    BY <2>1
<1> QED
  BY <1>4, <1>5, <1>6

(* A queue of at most one packet.                                          *)
LEMMA ShortQueue ==
  ASSUME NEW T, NEW q \in Seq(T), Len(q) <= 1
  PROVE  /\ q # <<>> => Tail(q) = <<>>
         /\ \A x \in T : q = <<>> => Len(Append(q, x)) <= 1
<1>1. ASSUME q # <<>> PROVE Tail(q) = <<>>
  <2>1. Tail(q) \in Seq(T) /\ Len(Tail(q)) = Len(q) - 1 /\ Len(q) \in Nat \ {0}
    BY <1>1, QueueFacts
  <2>2. Len(Tail(q)) = 0
    BY <2>1
  <2> QED
    BY <2>1, <2>2, EmptySeq
<1> QED
  BY <1>1

(* A socket of the device that belongs to a node still does when the send  *)
(* thread marks nodes.                                                     *)
LEMMA OwnerKept ==
  ASSUME IInv, InTurn, OnlyMarked, NEW s \in Sessions, Owner(s)
  PROVE  ~ nod'[s].freeflag
<1> SUFFICES ASSUME nod'[s].freeflag PROVE FALSE
  OBVIOUS
<1>1. ToFree(s)
  BY DEF OnlyMarked, Owner
<1>2. OpenPiped
  BY <1>1 DEF ToFree, Owner, Got, OpenPiped, OpenReplies
<1>3. PICK t \in Sessions : Waiting(t)
  BY <1>2 DEF IInv, AskedInv
<1>4. s = t
  BY <1>3, TurnTidy, OneAlive DEF Owner, Waiting
<1> QED
  BY <1>1, <1>3, <1>4 DEF ToFree, Waiting

(* Every step keeps the types of places and nodes.                         *)
LEMMA NextPlaces ==
  ASSUME IInv, [Next]_vars
  PROVE  PlacesInv'
<1>1. ASSUME NEW s \in Sessions, Connect(s) PROVE PlacesInv'
  <2>0. PlacesInv /\ ThreadsInv
    BY DEF IInv, KindsInv
  <2>1. app' \in [Sessions -> {"idle", "opening", "open", "refused", "closed"}]
    BY <1>1, <2>0 DEF Connect, PlacesInv
  <2>2. rpc' \in [Sessions -> Connection]
    BY <1>1, <2>0 DEF Connect, PlacesInv, Connection
  <2> QED
    BY <1>1, <2>0, <2>1, <2>2 DEF Connect, PlacesInv, nodeVars, devVars, plugVars
<1>2. ASSUME NEW s \in Sessions, Close(s) PROVE PlacesInv'
  <2>0. PlacesInv /\ ThreadsInv
    BY DEF IInv, KindsInv
  <2>1. app' \in [Sessions -> {"idle", "opening", "open", "refused", "closed"}]
    BY <1>2, <2>0 DEF Close, PlacesInv
  <2>2. rpc' \in [Sessions -> Connection]
    BY <1>2, <2>0 DEF Close, PlacesInv, Connection
  <2> QED
    BY <1>2, <2>0, <2>1, <2>2 DEF Close, PlacesInv, nodeVars, devVars, plugVars
<1>3. ASSUME NEW s \in Sessions, RpcStart(s) PROVE PlacesInv'
  <2>0. PlacesInv /\ ThreadsInv
    BY DEF IInv, KindsInv
  <2>1. rpc' \in [Sessions -> Connection]
    <3>1. /\ s \in Sessions /\ rpc \in [Sessions -> Connection]
          /\ rpc' = [rpc EXCEPT ![s].pc = "start", ![s].sockdev = TRUE]
      BY <1>3, <2>0 DEF RpcStart, PlacesInv
    <3> QED
      BY ONLY <3>1 DEF Connection
  <2>2. nod' \in [Sessions -> Node]
    <3> DEFINE n(b) == [nod[s] EXCEPT !.mem = "live", !.sockrpc = TRUE, !.bound = b]
    <3>1. /\ s \in Sessions /\ nod \in [Sessions -> Node]
          /\ \E b \in BOOLEAN :
               nod' = [nod EXCEPT ![s].mem = "live", ![s].sockrpc = TRUE, ![s].bound = b]
      BY <1>3, <2>0 DEF RpcStart, PlacesInv
    <3>2. nod[s] \in Node
      BY <3>1
    <3>3. \A b \in BOOLEAN : n(b) \in Node
      BY <3>2, NodeUpdates
    <3>4. \E b \in BOOLEAN : nod' = nod \/ nod' = [nod EXCEPT ![s] = n(b)]
      BY <3>1
    <3> HIDE DEF n
    <3> QED
      BY <3>1, <3>3, <3>4, OneNode
  <2> QED
    BY <1>3, <2>0, <2>1, <2>2 DEF RpcStart, PlacesInv, devVars, plugVars
<1>4. ASSUME NEW s \in Sessions, RpcOpen(s) PROVE PlacesInv'
  <2>0. PlacesInv /\ ThreadsInv
    BY DEF IInv, KindsInv
  <2>1. app' \in [Sessions -> {"idle", "opening", "open", "refused", "closed"}]
    BY <1>4, <2>0 DEF RpcOpen, PlacesInv, Told
  <2>2. rpc' \in [Sessions -> Connection]
    BY <1>4, <2>0 DEF RpcOpen, PlacesInv, Connection
  <2>3. nod' \in [Sessions -> Node]
    <3> DEFINE n(b) == [nod[s] EXCEPT !.bound = TRUE, !.sta = "need_send_cmd"]
    <3>1. /\ s \in Sessions /\ nod \in [Sessions -> Node]
          /\ \E b \in BOOLEAN :
               \/ nod' = nod
               \/ nod' = [nod EXCEPT ![s].bound = TRUE, ![s].sta = "need_send_cmd"]
      BY <1>4, <2>0 DEF RpcOpen, PlacesInv
    <3>2. nod[s] \in Node
      BY <3>1
    <3>3. \A b \in BOOLEAN : n(b) \in Node
      BY <3>2, NodeUpdates
    <3>4. \E b \in BOOLEAN : nod' = nod \/ nod' = [nod EXCEPT ![s] = n(b)]
      BY <3>1
    <3> HIDE DEF n
    <3> QED
      BY <3>1, <3>3, <3>4, OneNode
  <2> QED
    BY <1>4, <2>0, <2>1, <2>2, <2>3 DEF RpcOpen, PlacesInv, devVars, plugVars
<1>5. ASSUME NEW s \in Sessions, RpcEnd(s) PROVE PlacesInv'
  BY <1>5, SetupsAssumption
  DEF RpcEnd, nodeVars, devVars, plugVars, IInv, KindsInv, PlacesInv, Connection
<1>6. ASSUME NEW s \in Sessions, RpcEndNode(s) PROVE PlacesInv'
  <2>0. PlacesInv /\ ThreadsInv
    BY DEF IInv, KindsInv
  <2>1. rpc' \in [Sessions -> Connection]
    BY <1>6, <2>0 DEF RpcEndNode, PlacesInv, Connection
  <2>2. nod' \in [Sessions -> Node]
    <3> DEFINE n(b) == [nod[s] EXCEPT !.sta = "need_send_close", !.sockrpc = FALSE]
    <3>1. /\ s \in Sessions /\ nod \in [Sessions -> Node]
          /\ \E b \in BOOLEAN :
               nod' = [nod EXCEPT ![s].sta = "need_send_close", ![s].sockrpc = FALSE]
      BY <1>6, <2>0 DEF RpcEndNode, PlacesInv
    <3>2. nod[s] \in Node
      BY <3>1
    <3>3. \A b \in BOOLEAN : n(b) \in Node
      BY <3>2, NodeUpdates
    <3>4. \E b \in BOOLEAN : nod' = nod \/ nod' = [nod EXCEPT ![s] = n(b)]
      BY <3>1
    <3> HIDE DEF n
    <3> QED
      BY <3>1, <3>3, <3>4, OneNode
  <2> QED
    BY <1>6, <2>0, <2>1, <2>2 DEF RpcEndNode, PlacesInv, devVars, plugVars
<1>7. CASE Scan
  <2>1. KindsInv
    BY DEF IInv
  <2>2. OnlyMarked /\ UNCHANGED <<app, rpc, rcv, devVars, plugVars>> /\ snd.pc = "scan"
    BY <1>7, <2>1, ScanFacts
  <2>3. CASE snd' = snd /\ work_list' = work_list
    BY <1>7, SetupsAssumption, <2>2, <2>3
      DEF OnlyMarked, ToFree, devVars, plugVars, IInv, KindsInv, PlacesInv
  <2>4. ASSUME NEW s \in Sessions, InList(s), ~ nod[s].freeflag, ~ nod'[s].freeflag,
               nod[s].sta # "wait_usb_close",
               snd' = [snd EXCEPT !.pc = "picked", !.node = s], work_list' = work_list
        PROVE  PlacesInv'
    BY <1>7, SetupsAssumption, <2>2, <2>4
      DEF OnlyMarked, ToFree, devVars, plugVars, IInv, KindsInv, PlacesInv
  <2>5. ASSUME NEW s \in Sessions, InList(s), nod[s].freeflag,
               snd' = [snd EXCEPT !.pc = "free", !.node = s],
               work_list' \in Seq(Sessions), IsInjective(work_list'),
               ToSet(work_list') = ToSet(work_list) \ {s}
        PROVE  PlacesInv'
    BY <1>7, SetupsAssumption, <2>2, <2>5
      DEF OnlyMarked, ToFree, devVars, plugVars, IInv, KindsInv, PlacesInv
  <2> QED
    BY <1>7, <2>1, <2>3, <2>4, <2>5, ScanFacts
<1>8. CASE Recheck
  BY <1>8, SetupsAssumption
  DEF Recheck, nodeVars, devVars, plugVars, IInv, KindsInv, PlacesInv
<1>9. CASE PackMake
  <2>1. KindsInv
    BY DEF IInv
  <2>2. /\ snd.pc = "make" /\ snd.node \in Sessions
        /\ UNCHANGED <<app, rpc, work_list, rcv, fromDev, devOpen, plugVars>>
    BY <1>9, <2>1, PackFacts
  <2>3. CASE /\ ~ nod[snd.node].freeflag /\ nod[snd.node].sta = "need_send_cmd"
             /\ nod' = [nod EXCEPT ![snd.node].sta = "wait_usb_cmd"]
             /\ snd' = snd /\ (plug = "in" => toDev' = Append(toDev, "open"))
    <3>1. /\ snd.node \in Sessions /\ nod \in [Sessions -> Node]
          /\ nod' = [nod EXCEPT ![snd.node].sta = "wait_usb_cmd"]
      BY <2>2, <2>3 DEF IInv, KindsInv, PlacesInv
    <3>2. nod' \in [Sessions -> Node]
      BY ONLY <3>1 DEF Node
    <3> QED
      BY <2>2, <3>2 DEF plugVars, IInv, KindsInv, PlacesInv
  <2>4. CASE /\ ~ nod[snd.node].freeflag /\ nod[snd.node].sta = "need_send_close"
             /\ nod[snd.node].has_opened
             /\ nod' = [nod EXCEPT ![snd.node].sta = "wait_usb_close"]
             /\ snd' = snd /\ (plug = "in" => toDev' = Append(toDev, "close"))
    <3>1. /\ snd.node \in Sessions /\ nod \in [Sessions -> Node]
          /\ nod' = [nod EXCEPT ![snd.node].sta = "wait_usb_close"]
      BY <2>2, <2>4 DEF IInv, KindsInv, PlacesInv
    <3>2. nod' \in [Sessions -> Node]
      BY ONLY <3>1 DEF Node
    <3> QED
      BY <2>2, <3>2 DEF plugVars, IInv, KindsInv, PlacesInv
  <2>5. CASE OnlyMarked /\ snd' = [snd EXCEPT !.pc = "scan"] /\ toDev' = toDev
    BY <1>9, SetupsAssumption, <2>2, <2>5
      DEF OnlyMarked, ToFree, devVars, plugVars, IInv, KindsInv, PlacesInv
  <2> QED
    BY <1>9, <2>1, <2>3, <2>4, <2>5, PackFacts
<1>10. CASE Deinit
  <2>0. PlacesInv /\ ThreadsInv
    BY DEF IInv, KindsInv
  <2>1. nod' \in [Sessions -> Node]
    <3>1. /\ snd.node \in Sessions /\ nod \in [Sessions -> Node]
          /\ nod' = [nod EXCEPT ![snd.node].sockrpc = FALSE]
      BY <1>10, <2>0 DEF Deinit, PlacesInv, ThreadsInv
    <3> QED
      BY ONLY <3>1 DEF Node
  <2> QED
    BY <1>10, <2>0, <2>1 DEF Deinit, PlacesInv, devVars, plugVars
<1>11. CASE DeinitRpc
  <2>0. PlacesInv /\ ThreadsInv
    BY DEF IInv, KindsInv
  <2>1. rpc' \in [Sessions -> Connection]
    <3>1. /\ snd.node \in Sessions /\ rpc \in [Sessions -> Connection]
          /\ rpc' = rpc \/ rpc' = [rpc EXCEPT ![snd.node].sockdev = FALSE, ![snd.node].conn = FALSE]
      BY <1>11, <2>0 DEF DeinitRpc, PlacesInv, ThreadsInv
    <3> DEFINE c == [rpc[snd.node] EXCEPT !.sockdev = FALSE, !.conn = FALSE]
    <3>2. c \in Connection
      <4>1. rpc[snd.node] \in Connection
        BY <3>1
      <4> QED
        BY <4>1 DEF Connection
    <3>3. rpc' = rpc \/ rpc' = [rpc EXCEPT ![snd.node] = c]
      BY <3>1
    <3> HIDE DEF c
    <3> QED
      BY ONLY <3>1, <3>2, <3>3
  <2>2. nod' \in [Sessions -> Node]
    <3>1. /\ snd.node \in Sessions /\ nod \in [Sessions -> Node]
          /\ nod' = [nod EXCEPT ![snd.node].mem = "freed"]
      BY <1>11, <2>0 DEF DeinitRpc, PlacesInv, ThreadsInv
    <3> QED
      BY ONLY <3>1 DEF Node
  <2> QED
    BY <1>11, <2>0, <2>1, <2>2 DEF DeinitRpc, PlacesInv, devVars
<1>12. CASE RecvFind
  BY <1>12, SetupsAssumption
  DEF RecvFind, nodeVars, devVars, plugVars, IInv, KindsInv, PlacesInv
<1>13. CASE RecvClosed
  <2>0. PlacesInv /\ ThreadsInv
    BY DEF IInv, KindsInv
  <2>1. nod' \in [Sessions -> Node]
    <3>1. /\ rcv.node \in Sessions /\ nod \in [Sessions -> Node]
          /\ nod' = [nod EXCEPT ![rcv.node].freeflag = TRUE]
      BY <1>13, <2>0 DEF RecvClosed, PlacesInv, ThreadsInv
    <3> QED
      BY ONLY <3>1 DEF Node
  <2> QED
    BY <1>13, <2>0, <2>1 DEF RecvClosed, PlacesInv, devVars, plugVars
<1>14. CASE RecvOpened
  <2>0. PlacesInv /\ ThreadsInv
    BY DEF IInv, KindsInv
  <2>1. nod' \in [Sessions -> Node]
    <3>1. /\ rcv.node \in Sessions /\ nod \in [Sessions -> Node]
          /\ nod' = nod \/ nod' = [nod EXCEPT ![rcv.node].sta = "need_send_close"]
      BY <1>14, <2>0 DEF RecvOpened, PlacesInv, ThreadsInv
    <3> QED
      BY ONLY <3>1 DEF Node
  <2> QED
    BY <1>14, <2>0, <2>1 DEF RecvOpened, PlacesInv, ThreadsInv, devVars, plugVars
<1>15. CASE RecvAnswer
  <2>0. PlacesInv /\ ThreadsInv
    BY DEF IInv, KindsInv
  <2>1. app' \in [Sessions -> {"idle", "opening", "open", "refused", "closed"}]
    BY <1>15, <2>0 DEF RecvAnswer, PlacesInv, Told
  <2>2. nod' \in [Sessions -> Node]
    <3> DEFINE n(b) ==
          [nod[rcv.node] EXCEPT !.sta = IF b THEN "can_send_data" ELSE "not_init",
                                !.has_opened = nod[rcv.node].has_opened \/ b]
    <3>1. /\ rcv.node \in Sessions /\ nod \in [Sessions -> Node]
          /\ \E b \in BOOLEAN :
               nod' = [nod EXCEPT
                 ![rcv.node].sta = IF b THEN "can_send_data" ELSE "not_init",
                 ![rcv.node].has_opened = nod[rcv.node].has_opened \/ b]
      BY <1>15, <2>0 DEF RecvAnswer, PlacesInv, ThreadsInv
    <3>2. nod[rcv.node] \in Node
      BY <3>1
    <3>3. \A b \in BOOLEAN : n(b) \in Node
      BY <3>2, NodeUpdates
    <3>4. \E b \in BOOLEAN : nod' = nod \/ nod' = [nod EXCEPT ![rcv.node] = n(b)]
      BY <3>1
    <3> HIDE DEF n
    <3> QED
      BY <3>1, <3>3, <3>4, OneNode
  <2> QED
    BY <1>15, <2>0, <2>1, <2>2 DEF RecvAnswer, PlacesInv, devVars, plugVars
<1>16. CASE DevOpen
  BY <1>16, SetupsAssumption
  DEF DevOpen, nodeVars, devVars, plugVars, IInv, KindsInv, PlacesInv
<1>17. CASE DevClose
  BY <1>17, SetupsAssumption
  DEF DevClose, nodeVars, devVars, plugVars, IInv, KindsInv, PlacesInv
<1>18. CASE Unplug
  BY <1>18, SetupsAssumption
  DEF Unplug, nodeVars, devVars, plugVars, IInv, KindsInv, PlacesInv
<1>19. CASE TearDown
  <2>0. PlacesInv /\ ThreadsInv
    BY DEF IInv, KindsInv
  <2>1. rpc' \in [Sessions -> Connection]
    BY <1>19, <2>0 DEF TearDown, PlacesInv, Connection
  <2> DEFINE asked == {s \in ToSet(work_list) : nod[s].sockrpc}
             n(s) == [nod[s] EXCEPT !.freeflag = nod[s].freeflag \/ s \in asked]
  <2>2. nod' = [s \in Sessions |-> n(s)]
    BY <1>19 DEF TearDown
  <2>3. ASSUME NEW s \in Sessions PROVE n(s) \in Node
    <3>1. nod[s] \in Node /\ (nod[s].freeflag \/ s \in asked) \in BOOLEAN
      BY <2>0 DEF PlacesInv
    <3> HIDE DEF asked
    <3> QED
      BY <3>1 DEF Node
  <2>4. nod' \in [Sessions -> Node]
    BY ONLY <2>2, <2>3
  <2>5. ToSet(work_list) \subseteq Sessions
    BY Elements DEF IInv, KindsInv, ListInv
  <2> QED
    BY <1>19, <2>0, <2>1, <2>4, <2>5 DEF TearDown, PlacesInv, devVars
<1>20. CASE TearDownDone
  BY <1>20, SetupsAssumption
  DEF TearDownDone, nodeVars, devVars, plugVars, IInv, KindsInv, PlacesInv
<1>22. CASE RecvNotify
  BY <1>22, SetupsAssumption
  DEF RecvNotify, RecvDone, nodeVars, devVars, plugVars, IInv, KindsInv, PlacesInv
<1>21. CASE UNCHANGED vars
  BY <1>21, SetupsAssumption
  DEF vars, nodeVars, devVars, plugVars, IInv, KindsInv, PlacesInv
<1> QED
  BY <1>1, <1>2, <1>3, <1>4, <1>5, <1>6, <1>7, <1>8, <1>9, <1>10, <1>11, <1>12, <1>13, <1>14,
      <1>15, <1>16, <1>17, <1>18, <1>19, <1>20, <1>21, <1>22
  DEF Next, Rpc, SendThread, RecvThread, Device, Poll

(* Every step keeps what the two threads hold typed.                       *)
LEMMA NextThreads ==
  ASSUME IInv, [Next]_vars
  PROVE  ThreadsInv'
<1>1. ASSUME NEW s \in Sessions, Connect(s) PROVE ThreadsInv'
  BY <1>1, SessionsAssumption
  DEF Connect, nodeVars, devVars, plugVars, IInv, KindsInv, PlacesInv, ThreadsInv
<1>2. ASSUME NEW s \in Sessions, Close(s) PROVE ThreadsInv'
  BY <1>2, SessionsAssumption
  DEF Close, nodeVars, devVars, plugVars, IInv, KindsInv, PlacesInv, ThreadsInv
<1>3. ASSUME NEW s \in Sessions, RpcStart(s) PROVE ThreadsInv'
  BY <1>3, SessionsAssumption
  DEF RpcStart, nodeVars, devVars, plugVars, IInv, KindsInv, PlacesInv, ThreadsInv
<1>4. ASSUME NEW s \in Sessions, RpcOpen(s) PROVE ThreadsInv'
  BY <1>4, SessionsAssumption
  DEF RpcOpen, nodeVars, devVars, plugVars, IInv, KindsInv, PlacesInv, ThreadsInv, Replies
<1>5. ASSUME NEW s \in Sessions, RpcEnd(s) PROVE ThreadsInv'
  BY <1>5, SessionsAssumption
  DEF RpcEnd, nodeVars, devVars, plugVars, IInv, KindsInv, PlacesInv, ThreadsInv
<1>6. ASSUME NEW s \in Sessions, RpcEndNode(s) PROVE ThreadsInv'
  BY <1>6, SessionsAssumption
  DEF RpcEndNode, nodeVars, devVars, plugVars, IInv, KindsInv, PlacesInv, ThreadsInv
<1>7. CASE Scan
  <2>1. KindsInv
    BY DEF IInv
  <2>2. OnlyMarked /\ UNCHANGED <<app, rpc, rcv, devVars, plugVars>> /\ snd.pc = "scan"
    BY <1>7, <2>1, ScanFacts
  <2>3. CASE snd' = snd /\ work_list' = work_list
    BY <1>7, SessionsAssumption, <2>2, <2>3
      DEF OnlyMarked, ToFree, devVars, plugVars, IInv, KindsInv, PlacesInv, ThreadsInv
  <2>4. ASSUME NEW s \in Sessions, InList(s), ~ nod[s].freeflag, ~ nod'[s].freeflag,
               nod[s].sta # "wait_usb_close",
               snd' = [snd EXCEPT !.pc = "picked", !.node = s], work_list' = work_list
        PROVE  ThreadsInv'
    BY <1>7, SessionsAssumption, <2>2, <2>4
      DEF OnlyMarked, ToFree, devVars, plugVars, IInv, KindsInv, PlacesInv, ThreadsInv
  <2>5. ASSUME NEW s \in Sessions, InList(s), nod[s].freeflag,
               snd' = [snd EXCEPT !.pc = "free", !.node = s],
               work_list' \in Seq(Sessions), IsInjective(work_list'),
               ToSet(work_list') = ToSet(work_list) \ {s}
        PROVE  ThreadsInv'
    BY <1>7, SessionsAssumption, <2>2, <2>5
      DEF OnlyMarked, ToFree, devVars, plugVars, IInv, KindsInv, PlacesInv, ThreadsInv
  <2> QED
    BY <1>7, <2>1, <2>3, <2>4, <2>5, ScanFacts
<1>8. CASE Recheck
  BY <1>8, SessionsAssumption
  DEF Recheck, nodeVars, devVars, plugVars, IInv, KindsInv, PlacesInv, ThreadsInv
<1>9. CASE PackMake
  <2>1. KindsInv
    BY DEF IInv
  <2>2. /\ snd.pc = "make" /\ snd.node \in Sessions
        /\ UNCHANGED <<app, rpc, work_list, rcv, fromDev, devOpen, plugVars>>
    BY <1>9, <2>1, PackFacts
  <2>3. CASE /\ ~ nod[snd.node].freeflag /\ nod[snd.node].sta = "need_send_cmd"
             /\ nod' = [nod EXCEPT ![snd.node].sta = "wait_usb_cmd"]
             /\ snd' = snd /\ (plug = "in" => toDev' = Append(toDev, "open"))
    BY <1>9, SessionsAssumption, <2>2, <2>3
      DEF devVars, plugVars, IInv, KindsInv, PlacesInv, ThreadsInv
  <2>4. CASE /\ ~ nod[snd.node].freeflag /\ nod[snd.node].sta = "need_send_close"
             /\ nod[snd.node].has_opened
             /\ nod' = [nod EXCEPT ![snd.node].sta = "wait_usb_close"]
             /\ snd' = snd /\ (plug = "in" => toDev' = Append(toDev, "close"))
    BY <1>9, SessionsAssumption, <2>2, <2>4
      DEF devVars, plugVars, IInv, KindsInv, PlacesInv, ThreadsInv
  <2>5. CASE OnlyMarked /\ snd' = [snd EXCEPT !.pc = "scan"] /\ toDev' = toDev
    BY <1>9, SessionsAssumption, <2>2, <2>5
      DEF OnlyMarked, ToFree, devVars, plugVars, IInv, KindsInv, PlacesInv, ThreadsInv
  <2> QED
    BY <1>9, <2>1, <2>3, <2>4, <2>5, PackFacts
<1>10. CASE Deinit
  <2>1. snd.node \in Sessions /\ snd.pc = "free" /\ nod[snd.node].sockrpc \in BOOLEAN
    BY <1>10 DEF Deinit, IInv, KindsInv, PlacesInv, ThreadsInv, Node
  <2> QED
    BY <1>10, <2>1 DEF Deinit, IInv, KindsInv, ThreadsInv
<1>11. CASE DeinitRpc
  BY <1>11, SessionsAssumption
  DEF DeinitRpc, nodeVars, devVars, plugVars, IInv, KindsInv, PlacesInv, ThreadsInv
<1>12. CASE RecvFind
  <2>1. Head(fromDev) \in Replies /\ Closed \in Replies
    BY <1>12, QueueFacts DEF RecvFind, IInv, KindsInv, QueuesInv, Replies
  <2>2. CASE \E i \in DOMAIN work_list :
               rcv' = [pc |-> "proc", node |-> work_list[i], pack |-> Head(fromDev)]
    <3>1. PICK i \in DOMAIN work_list :
            rcv' = [pc |-> "proc", node |-> work_list[i], pack |-> Head(fromDev)]
      BY <2>2
    <3>2. work_list[i] \in Sessions
      BY Elements DEF IInv, KindsInv, ListInv
    <3> QED
      BY <1>12, <2>1, <3>1, <3>2 DEF RecvFind, IInv, KindsInv, ThreadsInv
  <2>3. CASE rcv' = rcv
    BY <1>12, <2>3 DEF RecvFind, IInv, KindsInv, ThreadsInv
  <2> QED
    BY <1>12, <2>2, <2>3 DEF RecvFind
<1>13. CASE RecvClosed
  BY <1>13, SessionsAssumption
  DEF RecvClosed, nodeVars, devVars, plugVars, IInv, KindsInv, PlacesInv, ThreadsInv, Replies,
      RecvDone
<1>14. CASE RecvOpened
  BY <1>14, SessionsAssumption
  DEF RecvOpened, nodeVars, devVars, plugVars, IInv, KindsInv, PlacesInv, ThreadsInv, Replies,
      RecvDone
<1>15. CASE RecvAnswer
  BY <1>15, SessionsAssumption
  DEF RecvAnswer, nodeVars, devVars, plugVars, IInv, KindsInv, PlacesInv, ThreadsInv, Replies,
      RecvDone
<1>16. CASE DevOpen
  BY <1>16, SessionsAssumption
  DEF DevOpen, nodeVars, devVars, plugVars, IInv, KindsInv, PlacesInv, ThreadsInv
<1>17. CASE DevClose
  BY <1>17, SessionsAssumption
  DEF DevClose, nodeVars, devVars, plugVars, IInv, KindsInv, PlacesInv, ThreadsInv
<1>18. CASE Unplug
  BY <1>18, SessionsAssumption
  DEF Unplug, nodeVars, devVars, plugVars, IInv, KindsInv, PlacesInv, ThreadsInv
<1>19. CASE TearDown
  BY <1>19, SessionsAssumption
  DEF TearDown, nodeVars, devVars, plugVars, IInv, KindsInv, PlacesInv, ThreadsInv
<1>20. CASE TearDownDone
  BY <1>20, SessionsAssumption
  DEF TearDownDone, nodeVars, devVars, plugVars, IInv, KindsInv, PlacesInv, ThreadsInv
<1>22. CASE RecvNotify
  BY <1>22, SessionsAssumption
  DEF RecvNotify, RecvDone, nodeVars, devVars, plugVars, IInv, KindsInv, PlacesInv, ThreadsInv,
      Replies
<1>21. CASE UNCHANGED vars
  BY <1>21, SessionsAssumption
  DEF vars, nodeVars, devVars, plugVars, IInv, KindsInv, PlacesInv, ThreadsInv
<1> QED
  BY <1>1, <1>2, <1>3, <1>4, <1>5, <1>6, <1>7, <1>8, <1>9, <1>10, <1>11, <1>12, <1>13, <1>14,
      <1>15, <1>16, <1>17, <1>18, <1>19, <1>20, <1>21, <1>22
  DEF Next, Rpc, SendThread, RecvThread, Device, Poll

(* Every step keeps the list without repetition, of nodes that were made.  *)
LEMMA NextList ==
  ASSUME IInv, [Next]_vars
  PROVE  ListInv'
<1>1. ASSUME NEW s \in Sessions, Connect(s) PROVE ListInv'
  BY <1>1
  DEF Connect, nodeVars, devVars, plugVars, IInv, KindsInv, PlacesInv, ListInv, InList
<1>2. ASSUME NEW s \in Sessions, Close(s) PROVE ListInv'
  BY <1>2
  DEF Close, nodeVars, devVars, plugVars, IInv, KindsInv, PlacesInv, ListInv, InList
<1>3. ASSUME NEW s \in Sessions, RpcStart(s) PROVE ListInv'
  <2>1. s \notin ToSet(work_list)
    BY <1>3 DEF RpcStart, IInv, KindsInv, ListInv, InList
  <2>2. /\ work_list' \in Seq(Sessions) /\ IsInjective(work_list')
        /\ ToSet(work_list') = ToSet(work_list) \cup {s}
    BY <1>3, <2>1, ConsFacts DEF RpcStart, IInv, KindsInv, ListInv
  <2>3. \A t \in Sessions : rpc'[t].pc = IF t = s THEN "start" ELSE rpc[t].pc
    BY <1>3 DEF RpcStart, IInv, KindsInv, PlacesInv
  <2> QED
    BY <2>2, <2>3 DEF IInv, KindsInv, ListInv, InList
<1>4. ASSUME NEW s \in Sessions, RpcOpen(s) PROVE ListInv'
  BY <1>4
  DEF RpcOpen, nodeVars, devVars, plugVars, IInv, KindsInv, PlacesInv, ThreadsInv, ListInv, InList
<1>5. ASSUME NEW s \in Sessions, RpcEnd(s) PROVE ListInv'
  BY <1>5
  DEF RpcEnd, nodeVars, devVars, plugVars, IInv, KindsInv, PlacesInv, ListInv, InList
<1>6. ASSUME NEW s \in Sessions, RpcEndNode(s) PROVE ListInv'
  BY <1>6
  DEF RpcEndNode, nodeVars, devVars, plugVars, IInv, KindsInv, PlacesInv, ListInv, InList
<1>7. CASE Scan
  <2>1. KindsInv
    BY DEF IInv
  <2>2. OnlyMarked /\ UNCHANGED <<app, rpc, rcv, devVars, plugVars>> /\ snd.pc = "scan"
    BY <1>7, <2>1, ScanFacts
  <2>3. CASE snd' = snd /\ work_list' = work_list
    BY <1>7, <2>2, <2>3
      DEF OnlyMarked, ToFree, devVars, plugVars, IInv, KindsInv, PlacesInv, ListInv, InList
  <2>4. ASSUME NEW s \in Sessions, InList(s), ~ nod[s].freeflag, ~ nod'[s].freeflag,
               nod[s].sta # "wait_usb_close",
               snd' = [snd EXCEPT !.pc = "picked", !.node = s], work_list' = work_list
        PROVE  ListInv'
    BY <1>7, <2>2, <2>4
      DEF OnlyMarked, ToFree, devVars, plugVars, IInv, KindsInv, PlacesInv, ListInv, InList
  <2>5. ASSUME NEW s \in Sessions, InList(s), nod[s].freeflag,
               snd' = [snd EXCEPT !.pc = "free", !.node = s],
               work_list' \in Seq(Sessions), IsInjective(work_list'),
               ToSet(work_list') = ToSet(work_list) \ {s}
        PROVE  ListInv'
    BY <1>7, <2>2, <2>5
      DEF OnlyMarked, ToFree, devVars, plugVars, IInv, KindsInv, PlacesInv, ListInv, InList
  <2> QED
    BY <1>7, <2>1, <2>3, <2>4, <2>5, ScanFacts
<1>8. CASE Recheck
  BY <1>8
  DEF Recheck, nodeVars, devVars, plugVars, IInv, KindsInv, PlacesInv, ListInv, InList
<1>9. CASE PackMake
  <2>1. KindsInv
    BY DEF IInv
  <2>2. /\ snd.pc = "make" /\ snd.node \in Sessions
        /\ UNCHANGED <<app, rpc, work_list, rcv, fromDev, devOpen, plugVars>>
    BY <1>9, <2>1, PackFacts
  <2>3. CASE /\ ~ nod[snd.node].freeflag /\ nod[snd.node].sta = "need_send_cmd"
             /\ nod' = [nod EXCEPT ![snd.node].sta = "wait_usb_cmd"]
             /\ snd' = snd /\ (plug = "in" => toDev' = Append(toDev, "open"))
    BY <1>9, <2>2, <2>3 DEF devVars, plugVars, IInv, KindsInv, PlacesInv, ListInv, InList
  <2>4. CASE /\ ~ nod[snd.node].freeflag /\ nod[snd.node].sta = "need_send_close"
             /\ nod[snd.node].has_opened
             /\ nod' = [nod EXCEPT ![snd.node].sta = "wait_usb_close"]
             /\ snd' = snd /\ (plug = "in" => toDev' = Append(toDev, "close"))
    BY <1>9, <2>2, <2>4 DEF devVars, plugVars, IInv, KindsInv, PlacesInv, ListInv, InList
  <2>5. CASE OnlyMarked /\ snd' = [snd EXCEPT !.pc = "scan"] /\ toDev' = toDev
    BY <1>9, <2>2, <2>5
      DEF OnlyMarked, ToFree, devVars, plugVars, IInv, KindsInv, PlacesInv, ListInv, InList
  <2> QED
    BY <1>9, <2>1, <2>3, <2>4, <2>5, PackFacts
<1>10. CASE Deinit
  BY <1>10
  DEF Deinit, nodeVars, devVars, plugVars, IInv, KindsInv, PlacesInv, ListInv, InList
<1>11. CASE DeinitRpc
  BY <1>11
  DEF DeinitRpc, nodeVars, devVars, plugVars, IInv, KindsInv, PlacesInv, ListInv, InList
<1>12. CASE RecvFind
  BY <1>12
  DEF RecvFind, nodeVars, devVars, plugVars, IInv, KindsInv, PlacesInv, ListInv, InList
<1>13. CASE RecvClosed
  BY <1>13
  DEF RecvClosed, nodeVars, devVars, plugVars, IInv, KindsInv, PlacesInv, ListInv, InList
<1>14. CASE RecvOpened
  BY <1>14
  DEF RecvOpened, nodeVars, devVars, plugVars, IInv, KindsInv, PlacesInv, ListInv, InList
<1>15. CASE RecvAnswer
  BY <1>15
  DEF RecvAnswer, nodeVars, devVars, plugVars, IInv, KindsInv, PlacesInv, ThreadsInv, ListInv,
      InList
<1>16. CASE DevOpen
  BY <1>16
  DEF DevOpen, nodeVars, devVars, plugVars, IInv, KindsInv, PlacesInv, ListInv, InList
<1>17. CASE DevClose
  BY <1>17
  DEF DevClose, nodeVars, devVars, plugVars, IInv, KindsInv, PlacesInv, ListInv, InList
<1>18. CASE Unplug
  BY <1>18
  DEF Unplug, nodeVars, devVars, plugVars, IInv, KindsInv, PlacesInv, ListInv, InList
<1>19. CASE TearDown
  BY <1>19
  DEF TearDown, nodeVars, devVars, plugVars, IInv, KindsInv, PlacesInv, ListInv, InList, Connection
<1>20. CASE TearDownDone
  BY <1>20
  DEF TearDownDone, nodeVars, devVars, plugVars, IInv, KindsInv, PlacesInv, ListInv, InList
<1>22. CASE RecvNotify
  BY <1>22
  DEF RecvNotify, RecvDone, nodeVars, devVars, plugVars, IInv, KindsInv, PlacesInv, ListInv, InList
<1>21. CASE UNCHANGED vars
  BY <1>21
  DEF vars, nodeVars, devVars, plugVars, IInv, KindsInv, PlacesInv, ListInv, InList
<1> QED
  BY <1>1, <1>2, <1>3, <1>4, <1>5, <1>6, <1>7, <1>8, <1>9, <1>10, <1>11, <1>12, <1>13, <1>14,
      <1>15, <1>16, <1>17, <1>18, <1>19, <1>20, <1>21, <1>22
  DEF Next, Rpc, SendThread, RecvThread, Device, Poll

(* Every step keeps the queues to and from the device typed.               *)
LEMMA NextQueues ==
  ASSUME IInv, [Next]_vars
  PROVE  QueuesInv'
<1>1. ASSUME NEW s \in Sessions, Connect(s) PROVE QueuesInv'
  BY <1>1, EmptyFacts, AppendFacts, QueueFacts
  DEF Connect, nodeVars, devVars, plugVars, IInv, KindsInv, QueuesInv
<1>2. ASSUME NEW s \in Sessions, Close(s) PROVE QueuesInv'
  BY <1>2, EmptyFacts, AppendFacts, QueueFacts
  DEF Close, nodeVars, devVars, plugVars, IInv, KindsInv, QueuesInv
<1>3. ASSUME NEW s \in Sessions, RpcStart(s) PROVE QueuesInv'
  BY <1>3, EmptyFacts, AppendFacts, QueueFacts
  DEF RpcStart, nodeVars, devVars, plugVars, IInv, KindsInv, QueuesInv
<1>4. ASSUME NEW s \in Sessions, RpcOpen(s) PROVE QueuesInv'
  BY <1>4, EmptyFacts, AppendFacts, QueueFacts
  DEF RpcOpen, nodeVars, devVars, plugVars, IInv, KindsInv, QueuesInv
<1>5. ASSUME NEW s \in Sessions, RpcEnd(s) PROVE QueuesInv'
  BY <1>5, EmptyFacts, AppendFacts, QueueFacts
  DEF RpcEnd, nodeVars, devVars, plugVars, IInv, KindsInv, QueuesInv
<1>6. ASSUME NEW s \in Sessions, RpcEndNode(s) PROVE QueuesInv'
  BY <1>6, EmptyFacts, AppendFacts, QueueFacts
  DEF RpcEndNode, nodeVars, devVars, plugVars, IInv, KindsInv, QueuesInv
<1>7. CASE Scan
  BY <1>7 DEF Scan, devVars, IInv, KindsInv, QueuesInv
<1>8. CASE Recheck
  BY <1>8, EmptyFacts, AppendFacts, QueueFacts
  DEF Recheck, nodeVars, devVars, plugVars, IInv, KindsInv, QueuesInv
<1>9. CASE PackMake
  BY <1>9, AppendFacts DEF PackMake, Send, IInv, KindsInv, QueuesInv
<1>10. CASE Deinit
  BY <1>10, EmptyFacts, AppendFacts, QueueFacts
  DEF Deinit, nodeVars, devVars, plugVars, IInv, KindsInv, QueuesInv
<1>11. CASE DeinitRpc
  BY <1>11, EmptyFacts, AppendFacts, QueueFacts
  DEF DeinitRpc, nodeVars, devVars, plugVars, IInv, KindsInv, QueuesInv
<1>12. CASE RecvFind
  BY <1>12, EmptyFacts, AppendFacts, QueueFacts
  DEF RecvFind, nodeVars, devVars, plugVars, IInv, KindsInv, QueuesInv
<1>13. CASE RecvClosed
  BY <1>13, EmptyFacts, AppendFacts, QueueFacts
  DEF RecvClosed, nodeVars, devVars, plugVars, IInv, KindsInv, QueuesInv
<1>14. CASE RecvOpened
  BY <1>14, EmptyFacts, AppendFacts, QueueFacts
  DEF RecvOpened, nodeVars, devVars, plugVars, IInv, KindsInv, QueuesInv
<1>15. CASE RecvAnswer
  BY <1>15, EmptyFacts, AppendFacts, QueueFacts
  DEF RecvAnswer, nodeVars, devVars, plugVars, IInv, KindsInv, QueuesInv
<1>16. CASE DevOpen
  <2>1. Tail(toDev) \in Seq({"open", "close"})
    BY <1>16, QueueFacts DEF DevOpen, IInv, KindsInv, QueuesInv
  <2>2. \A x \in Replies : Append(fromDev, x) \in Seq(Replies)
    BY AppendFacts DEF IInv, KindsInv, QueuesInv
  <2>3. Open(0) \in Replies /\ Open(HasOpened) \in Replies /\ Open(Failed) \in Replies
    BY DEF Replies
  <2> QED
    BY <1>16, <2>1, <2>2, <2>3 DEF DevOpen, QueuesInv
<1>17. CASE DevClose
  BY <1>17, EmptyFacts, AppendFacts, QueueFacts
  DEF DevClose, nodeVars, devVars, plugVars, IInv, KindsInv, QueuesInv, Replies
<1>18. CASE Unplug
  BY <1>18, EmptyFacts, AppendFacts, QueueFacts
  DEF Unplug, nodeVars, devVars, plugVars, QueuesInv
<1>19. CASE TearDown
  BY <1>19, EmptyFacts, AppendFacts, QueueFacts
  DEF TearDown, nodeVars, devVars, plugVars, IInv, KindsInv, QueuesInv
<1>20. CASE TearDownDone
  BY <1>20, EmptyFacts, AppendFacts, QueueFacts
  DEF TearDownDone, nodeVars, devVars, plugVars, IInv, KindsInv, QueuesInv
<1>22. CASE RecvNotify
  BY <1>22, EmptyFacts, AppendFacts, QueueFacts
  DEF RecvNotify, RecvDone, nodeVars, devVars, plugVars, IInv, KindsInv, QueuesInv
<1>21. CASE UNCHANGED vars
  BY <1>21, EmptyFacts, AppendFacts, QueueFacts
  DEF vars, nodeVars, devVars, plugVars, IInv, KindsInv, QueuesInv
<1> QED
  BY <1>1, <1>2, <1>3, <1>4, <1>5, <1>6, <1>7, <1>8, <1>9, <1>10, <1>11, <1>12, <1>13, <1>14,
      <1>15, <1>16, <1>17, <1>18, <1>19, <1>20, <1>21, <1>22
  DEF Next, Rpc, SendThread, RecvThread, Device, Poll

(* Every step keeps one session at a time.                                 *)
LEMMA NextSerial ==
  ASSUME IInv, [Next]_vars
  PROVE  SerialInv'
<1>1. ASSUME NEW s \in Sessions, Connect(s) PROVE SerialInv'
  BY <1>1
  DEF Connect, nodeVars, devVars, plugVars, Tidy, IInv, KindsInv, PlacesInv, ThreadsInv, SerialInv,
      Gone, AppsInv, NodesInv
<1>2. ASSUME NEW s \in Sessions, Close(s) PROVE SerialInv'
  BY <1>2
  DEF Close, nodeVars, devVars, plugVars, Tidy, IInv, KindsInv, PlacesInv, ThreadsInv, SerialInv,
      Gone, AppsInv, NodesInv
<1>3. ASSUME NEW s \in Sessions, RpcStart(s) PROVE SerialInv'
  BY <1>3
  DEF RpcStart, nodeVars, devVars, plugVars, Tidy, IInv, KindsInv, PlacesInv, ThreadsInv,
      SerialInv, Gone, AppsInv, NodesInv
<1>4. ASSUME NEW s \in Sessions, RpcOpen(s) PROVE SerialInv'
  BY <1>4
  DEF RpcOpen, nodeVars, devVars, plugVars, Tidy, IInv, KindsInv, PlacesInv, ThreadsInv, SerialInv,
      Gone, AppsInv, NodesInv, AppInv, Told
<1>5. ASSUME NEW s \in Sessions, RpcEnd(s) PROVE SerialInv'
  BY <1>5
  DEF RpcEnd, nodeVars, devVars, plugVars, Tidy, IInv, KindsInv, PlacesInv, ThreadsInv, SerialInv,
      Gone, AppsInv, NodesInv
<1>6. ASSUME NEW s \in Sessions, RpcEndNode(s) PROVE SerialInv'
  BY <1>6
  DEF RpcEndNode, nodeVars, devVars, plugVars, Tidy, IInv, KindsInv, PlacesInv, ThreadsInv,
      SerialInv, Gone, AppsInv, NodesInv
<1>7. CASE Scan
  <2>1. KindsInv
    BY DEF IInv
  <2>2. OnlyMarked /\ UNCHANGED <<app, rpc, rcv, devVars, plugVars>> /\ snd.pc = "scan"
    BY <1>7, <2>1, ScanFacts
  <2>3. CASE snd' = snd /\ work_list' = work_list
    BY <1>7, <2>2, <2>3 DEF OnlyMarked, ToFree, devVars, plugVars, Tidy, IInv, KindsInv, PlacesInv,
        ThreadsInv, SerialInv, Gone, AppsInv, NodesInv
  <2>4. ASSUME NEW s \in Sessions, InList(s), ~ nod[s].freeflag, ~ nod'[s].freeflag,
               nod[s].sta # "wait_usb_close",
               snd' = [snd EXCEPT !.pc = "picked", !.node = s], work_list' = work_list
        PROVE  SerialInv'
    BY <1>7, <2>2, <2>4 DEF OnlyMarked, ToFree, devVars, plugVars, Tidy, IInv, KindsInv, PlacesInv,
        ThreadsInv, SerialInv, Gone, AppsInv, NodesInv, Node
  <2>5. ASSUME NEW s \in Sessions, InList(s), nod[s].freeflag,
               snd' = [snd EXCEPT !.pc = "free", !.node = s],
               work_list' \in Seq(Sessions), IsInjective(work_list'),
               ToSet(work_list') = ToSet(work_list) \ {s}
        PROVE  SerialInv'
    BY <1>7, <2>2, <2>5 DEF OnlyMarked, ToFree, devVars, plugVars, Tidy, IInv, KindsInv, PlacesInv,
        ThreadsInv, SerialInv, Gone, AppsInv, NodesInv, AppInv
  <2> QED
    BY <1>7, <2>1, <2>3, <2>4, <2>5, ScanFacts
<1>8. CASE Recheck
  BY <1>8
  DEF Recheck, nodeVars, devVars, plugVars, Tidy, IInv, KindsInv, PlacesInv, ThreadsInv, SerialInv,
      Gone, AppsInv, NodesInv
<1>9. CASE PackMake
  <2>1. KindsInv
    BY DEF IInv
  <2>2. /\ snd.pc = "make" /\ snd.node \in Sessions
        /\ UNCHANGED <<app, rpc, work_list, rcv, fromDev, devOpen, plugVars>>
    BY <1>9, <2>1, PackFacts
  <2>3. CASE /\ ~ nod[snd.node].freeflag /\ nod[snd.node].sta = "need_send_cmd"
             /\ nod' = [nod EXCEPT ![snd.node].sta = "wait_usb_cmd"]
             /\ snd' = snd /\ (plug = "in" => toDev' = Append(toDev, "open"))
    BY <1>9, <2>2, <2>3 DEF devVars, plugVars, Tidy, IInv, KindsInv, PlacesInv, ThreadsInv,
        SerialInv, Gone, AppsInv, NodesInv
  <2>4. CASE /\ ~ nod[snd.node].freeflag /\ nod[snd.node].sta = "need_send_close"
             /\ nod[snd.node].has_opened
             /\ nod' = [nod EXCEPT ![snd.node].sta = "wait_usb_close"]
             /\ snd' = snd /\ (plug = "in" => toDev' = Append(toDev, "close"))
    BY <1>9, <2>2, <2>4 DEF devVars, plugVars, Tidy, IInv, KindsInv, PlacesInv, ThreadsInv,
        SerialInv, Gone, AppsInv, NodesInv
  <2>5. CASE OnlyMarked /\ snd' = [snd EXCEPT !.pc = "scan"] /\ toDev' = toDev
    BY <1>9, <2>2, <2>5 DEF OnlyMarked, ToFree, devVars, plugVars, Tidy, IInv, KindsInv, PlacesInv,
        ThreadsInv, SerialInv, Gone, AppsInv, NodesInv
  <2> QED
    BY <1>9, <2>1, <2>3, <2>4, <2>5, PackFacts
<1>10. CASE Deinit
  BY <1>10
  DEF Deinit, nodeVars, devVars, plugVars, Tidy, IInv, KindsInv, PlacesInv, ThreadsInv, SerialInv,
      Gone, AppsInv, NodesInv
<1>11. CASE DeinitRpc
  BY <1>11
  DEF DeinitRpc, nodeVars, devVars, plugVars, Tidy, IInv, KindsInv, PlacesInv, ThreadsInv,
      SerialInv, Gone, AppsInv, NodesInv
<1>12. CASE RecvFind
  BY <1>12
  DEF RecvFind, nodeVars, devVars, plugVars, Tidy, IInv, KindsInv, PlacesInv, ThreadsInv,
      SerialInv, Gone, AppsInv, NodesInv
<1>13. CASE RecvClosed
  BY <1>13
  DEF RecvClosed, nodeVars, devVars, plugVars, Tidy, IInv, KindsInv, PlacesInv, ThreadsInv,
      SerialInv, Gone, AppsInv, NodesInv
<1>14. CASE RecvOpened
  <2>1. /\ \A s \in Sessions : nod'[s].mem = nod[s].mem
        /\ UNCHANGED <<app, rpc>> /\ (Tidy' => Tidy)
    BY <1>14 DEF RecvOpened, plugVars, Tidy, IInv, KindsInv, PlacesInv, Node
  <2> QED
    BY <2>1 DEF IInv, SerialInv, Gone
<1>15. CASE RecvAnswer
  BY <1>15
  DEF RecvAnswer, nodeVars, devVars, plugVars, Tidy, IInv, KindsInv, PlacesInv, ThreadsInv,
      SerialInv, Gone, AppsInv, NodesInv, AppInv, Told
<1>16. CASE DevOpen
  BY <1>16
  DEF DevOpen, nodeVars, devVars, plugVars, Tidy, IInv, KindsInv, PlacesInv, ThreadsInv, SerialInv,
      Gone, AppsInv, NodesInv
<1>17. CASE DevClose
  BY <1>17
  DEF DevClose, nodeVars, devVars, plugVars, Tidy, IInv, KindsInv, PlacesInv, ThreadsInv,
      SerialInv, Gone, AppsInv, NodesInv
<1>18. CASE Unplug
  BY <1>18
  DEF Unplug, nodeVars, devVars, plugVars, Tidy, IInv, KindsInv, PlacesInv, ThreadsInv, SerialInv,
      Gone, AppsInv, NodesInv
<1>19. CASE TearDown
  BY <1>19
  DEF TearDown, nodeVars, devVars, plugVars, Tidy, IInv, KindsInv, PlacesInv, ThreadsInv,
      SerialInv, Gone, AppsInv, NodesInv
<1>20. CASE TearDownDone
  BY <1>20
  DEF TearDownDone, nodeVars, devVars, plugVars, Tidy, IInv, KindsInv, PlacesInv, ThreadsInv,
      SerialInv, Gone, AppsInv, NodesInv
<1>22. CASE RecvNotify
  BY <1>22
  DEF RecvNotify, RecvDone, nodeVars, devVars, plugVars, Tidy, IInv, KindsInv, PlacesInv, ThreadsInv,
      SerialInv, Gone, AppsInv, NodesInv
<1>21. CASE UNCHANGED vars
  BY <1>21
  DEF vars, nodeVars, devVars, plugVars, Tidy, IInv, KindsInv, PlacesInv, ThreadsInv, SerialInv,
      Gone, AppsInv, NodesInv
<1> QED
  BY <1>1, <1>2, <1>3, <1>4, <1>5, <1>6, <1>7, <1>8, <1>9, <1>10, <1>11, <1>12, <1>13, <1>14,
      <1>15, <1>16, <1>17, <1>18, <1>19, <1>20, <1>21, <1>22
  DEF Next, Rpc, SendThread, RecvThread, Device, Poll

(* Every step keeps applications and their connections in agreement.       *)
LEMMA NextApps ==
  ASSUME IInv, [Next]_vars
  PROVE  AppsInv'
<1>1. ASSUME NEW s \in Sessions, Connect(s) PROVE AppsInv'
  BY <1>1
  DEF Connect, nodeVars, devVars, plugVars, Tidy, IInv, KindsInv, PlacesInv, ThreadsInv, AppsInv,
      NodesInv, AppInv, NodeInv
<1>2. ASSUME NEW s \in Sessions, Close(s) PROVE AppsInv'
  BY <1>2
  DEF Close, nodeVars, devVars, plugVars, Tidy, IInv, KindsInv, PlacesInv, ThreadsInv, AppsInv,
      NodesInv, AppInv, NodeInv
<1>3. ASSUME NEW s \in Sessions, RpcStart(s) PROVE AppsInv'
  BY <1>3
  DEF RpcStart, nodeVars, devVars, plugVars, Tidy, IInv, KindsInv, PlacesInv, ThreadsInv, AppsInv,
      NodesInv, AppInv, NodeInv
<1>4. ASSUME NEW s \in Sessions, RpcOpen(s) PROVE AppsInv'
  BY <1>4
  DEF RpcOpen, nodeVars, devVars, plugVars, Tidy, IInv, KindsInv, PlacesInv, ThreadsInv, AppsInv,
      NodesInv, AppInv, NodeInv, InList, Told
<1>5. ASSUME NEW s \in Sessions, RpcEnd(s) PROVE AppsInv'
  BY <1>5
  DEF RpcEnd, nodeVars, devVars, plugVars, Tidy, IInv, KindsInv, PlacesInv, ThreadsInv, AppsInv,
      NodesInv, AppInv, NodeInv
<1>6. ASSUME NEW s \in Sessions, RpcEndNode(s) PROVE AppsInv'
  BY <1>6
  DEF RpcEndNode, nodeVars, devVars, plugVars, Tidy, IInv, KindsInv, PlacesInv, ThreadsInv,
      AppsInv, NodesInv, AppInv, NodeInv
<1>7. CASE Scan
  <2>1. KindsInv
    BY DEF IInv
  <2>2. OnlyMarked /\ UNCHANGED <<app, rpc, rcv, devVars, plugVars>> /\ snd.pc = "scan"
    BY <1>7, <2>1, ScanFacts
  <2>3. CASE snd' = snd /\ work_list' = work_list
    BY <1>7, <2>2, <2>3 DEF OnlyMarked, ToFree, devVars, plugVars, Tidy, IInv, KindsInv, PlacesInv,
        ThreadsInv, AppsInv, NodesInv, AppInv, NodeInv
  <2>4. ASSUME NEW s \in Sessions, InList(s), ~ nod[s].freeflag, ~ nod'[s].freeflag,
               nod[s].sta # "wait_usb_close",
               snd' = [snd EXCEPT !.pc = "picked", !.node = s], work_list' = work_list
        PROVE  AppsInv'
    BY <1>7, <2>2, <2>4 DEF OnlyMarked, ToFree, devVars, plugVars, Tidy, IInv, KindsInv, PlacesInv,
        ThreadsInv, AppsInv, NodesInv, AppInv, NodeInv
  <2>5. ASSUME NEW s \in Sessions, InList(s), nod[s].freeflag,
               snd' = [snd EXCEPT !.pc = "free", !.node = s],
               work_list' \in Seq(Sessions), IsInjective(work_list'),
               ToSet(work_list') = ToSet(work_list) \ {s}
        PROVE  AppsInv'
    BY <1>7, <2>2, <2>5 DEF OnlyMarked, ToFree, devVars, plugVars, Tidy, IInv, KindsInv, PlacesInv,
        ThreadsInv, AppsInv, NodesInv, AppInv, NodeInv
  <2> QED
    BY <1>7, <2>1, <2>3, <2>4, <2>5, ScanFacts
<1>8. CASE Recheck
  BY <1>8
  DEF Recheck, nodeVars, devVars, plugVars, Tidy, IInv, KindsInv, PlacesInv, ThreadsInv, AppsInv,
      NodesInv, AppInv, NodeInv
<1>9. CASE PackMake
  <2>1. KindsInv
    BY DEF IInv
  <2>2. /\ snd.pc = "make" /\ snd.node \in Sessions
        /\ UNCHANGED <<app, rpc, work_list, rcv, fromDev, devOpen, plugVars>>
    BY <1>9, <2>1, PackFacts
  <2>3. CASE /\ ~ nod[snd.node].freeflag /\ nod[snd.node].sta = "need_send_cmd"
             /\ nod' = [nod EXCEPT ![snd.node].sta = "wait_usb_cmd"]
             /\ snd' = snd /\ (plug = "in" => toDev' = Append(toDev, "open"))
    BY <1>9, <2>2, <2>3 DEF devVars, plugVars, Tidy, IInv, KindsInv, PlacesInv, ThreadsInv,
        AppsInv, NodesInv, AppInv, NodeInv
  <2>4. CASE /\ ~ nod[snd.node].freeflag /\ nod[snd.node].sta = "need_send_close"
             /\ nod[snd.node].has_opened
             /\ nod' = [nod EXCEPT ![snd.node].sta = "wait_usb_close"]
             /\ snd' = snd /\ (plug = "in" => toDev' = Append(toDev, "close"))
    BY <1>9, <2>2, <2>4 DEF devVars, plugVars, Tidy, IInv, KindsInv, PlacesInv, ThreadsInv,
        AppsInv, NodesInv, AppInv, NodeInv
  <2>5. CASE OnlyMarked /\ snd' = [snd EXCEPT !.pc = "scan"] /\ toDev' = toDev
    BY <1>9, <2>2, <2>5 DEF OnlyMarked, ToFree, devVars, plugVars, Tidy, IInv, KindsInv, PlacesInv,
        ThreadsInv, AppsInv, NodesInv, AppInv, NodeInv
  <2> QED
    BY <1>9, <2>1, <2>3, <2>4, <2>5, PackFacts
<1>10. CASE Deinit
  BY <1>10
  DEF Deinit, nodeVars, devVars, plugVars, Tidy, IInv, KindsInv, PlacesInv, ThreadsInv, AppsInv,
      NodesInv, AppInv, NodeInv
<1>11. CASE DeinitRpc
  <2>1. Tidy' => Tidy /\ ~ snd.rpc
    BY <1>11 DEF DeinitRpc, Tidy, IInv, HandsInv
  <2>2. Tidy' => UNCHANGED <<app, rpc>>
    BY <1>11, <2>1 DEF DeinitRpc
  <2>3. ASSUME NEW s \in Sessions PROVE nod'[s].has_opened = nod[s].has_opened
    BY <1>11 DEF DeinitRpc, IInv
  <2> QED
    BY <2>1, <2>2, <2>3 DEF IInv, AppsInv, AppInv
<1>12. CASE RecvFind
  BY <1>12
  DEF RecvFind, nodeVars, devVars, plugVars, Tidy, IInv, KindsInv, PlacesInv, ThreadsInv, AppsInv,
      NodesInv, AppInv, NodeInv
<1>13. CASE RecvClosed
  BY <1>13
  DEF RecvClosed, nodeVars, devVars, plugVars, Tidy, IInv, KindsInv, PlacesInv, ThreadsInv,
      AppsInv, NodesInv, AppInv, NodeInv
<1>14. CASE RecvOpened
  <2>1. /\ UNCHANGED <<app, rpc>> /\ (Tidy' => Tidy)
        /\ \A s \in Sessions : nod'[s].has_opened = nod[s].has_opened
    BY <1>14, OpenedFacts DEF plugVars, Tidy, IInv, KindsInv, PlacesInv, Node
  <2> QED
    BY <2>1 DEF IInv, AppsInv, AppInv
<1>15. CASE RecvAnswer
  BY <1>15
  DEF RecvAnswer, nodeVars, devVars, plugVars, Tidy, IInv, KindsInv, PlacesInv, ThreadsInv,
      AppsInv, NodesInv, AppInv, NodeInv, InList, Connection, Told
<1>16. CASE DevOpen
  BY <1>16
  DEF DevOpen, nodeVars, devVars, plugVars, Tidy, IInv, KindsInv, PlacesInv, ThreadsInv, AppsInv,
      NodesInv, AppInv, NodeInv
<1>17. CASE DevClose
  BY <1>17
  DEF DevClose, nodeVars, devVars, plugVars, Tidy, IInv, KindsInv, PlacesInv, ThreadsInv, AppsInv,
      NodesInv, AppInv, NodeInv
<1>18. CASE Unplug
  BY <1>18
  DEF Unplug, nodeVars, devVars, plugVars, Tidy, IInv, KindsInv, PlacesInv, ThreadsInv, AppsInv,
      NodesInv, AppInv, NodeInv
<1>19. CASE TearDown
  BY <1>19
  DEF TearDown, nodeVars, devVars, plugVars, Tidy, IInv, KindsInv, PlacesInv, ThreadsInv, AppsInv,
      NodesInv, AppInv, NodeInv
<1>20. CASE TearDownDone
  BY <1>20
  DEF TearDownDone, nodeVars, devVars, plugVars, Tidy, IInv, KindsInv, PlacesInv, ThreadsInv,
      AppsInv, NodesInv, AppInv, NodeInv
<1>22. CASE RecvNotify
  BY <1>22
  DEF RecvNotify, RecvDone, nodeVars, devVars, plugVars, Tidy, IInv, KindsInv, PlacesInv, ThreadsInv,
      AppsInv, NodesInv, AppInv, NodeInv
<1>21. CASE UNCHANGED vars
  BY <1>21
  DEF vars, nodeVars, devVars, plugVars, Tidy, IInv, KindsInv, PlacesInv, ThreadsInv, AppsInv,
      NodesInv, AppInv, NodeInv
<1> QED
  BY <1>1, <1>2, <1>3, <1>4, <1>5, <1>6, <1>7, <1>8, <1>9, <1>10, <1>11, <1>12, <1>13, <1>14,
      <1>15, <1>16, <1>17, <1>18, <1>19, <1>20, <1>21, <1>22
  DEF Next, Rpc, SendThread, RecvThread, Device, Poll

(* Every step keeps connections and their nodes in agreement.              *)
LEMMA NextNodes ==
  ASSUME IInv, [Next]_vars
  PROVE  NodesInv'
<1>1. ASSUME NEW s \in Sessions, Connect(s) PROVE NodesInv'
  BY <1>1
  DEF Connect, nodeVars, devVars, plugVars, Tidy, IInv, KindsInv, PlacesInv, ThreadsInv, AppsInv,
      NodesInv, AppInv, NodeInv, InList, Live
<1>2. ASSUME NEW s \in Sessions, Close(s) PROVE NodesInv'
  BY <1>2
  DEF Close, nodeVars, devVars, plugVars, Tidy, IInv, KindsInv, PlacesInv, ThreadsInv, AppsInv,
      NodesInv, AppInv, NodeInv, InList, Live
<1>3. ASSUME NEW s \in Sessions, RpcStart(s) PROVE NodesInv'
  <2>1. s \notin ToSet(work_list)
    BY <1>3 DEF RpcStart, IInv, KindsInv, ListInv, InList
  <2>2. ToSet(work_list') = ToSet(work_list) \cup {s}
    BY <1>3, <2>1, ConsFacts DEF RpcStart, IInv, KindsInv, ListInv
  <2>3. PICK same \in BOOLEAN :
          nod' = [nod EXCEPT ![s].mem = "live", ![s].sockrpc = TRUE, ![s].bound = same]
    BY <1>3 DEF RpcStart
  <2>4. Tidy' => Tidy /\ snd' = snd /\ ~ (snd.pc \in {"free", "freed"} /\ snd.node = s)
    BY <1>3 DEF RpcStart, plugVars, Tidy, IInv, HandsInv, NodesInv, NodeInv
  <2>5. ASSUME Tidy', NEW t \in Sessions, t # s PROVE NodeInv(t)'
    <3>1. /\ nod'[t] = nod[t] /\ rpc'[t] = rpc[t] /\ NodeInv(t) /\ (InList(t)' <=> InList(t))
      BY <1>3, <2>2, <2>3, <2>4, <2>5 DEF RpcStart, IInv, KindsInv, PlacesInv, NodesInv, InList
    <3> QED
      BY <2>4, <2>5, <3>1 DEF NodeInv, Live
  <2>6. ASSUME Tidy' PROVE NodeInv(s)'
    <3>1. NodeInv(s) /\ rpc[s].pc = "none"
      BY <1>3, <2>4, <2>6 DEF RpcStart, IInv, NodesInv
    <3>2. /\ rpc'[s].pc = "start" /\ nod'[s].mem = "live" /\ nod'[s].sockrpc
          /\ UNCHANGED <<nod[s].has_opened, nod[s].freeflag, nod[s].sta>>
      BY <1>3, <2>3 DEF RpcStart, IInv, KindsInv, PlacesInv
    <3>3. InList(s)'
      BY <2>2 DEF InList
    <3> QED
      BY <2>4, <2>6, <3>1, <3>2, <3>3 DEF NodeInv, Live
  <2> QED
    BY <2>5, <2>6 DEF NodesInv
<1>4. ASSUME NEW s \in Sessions, RpcOpen(s) PROVE NodesInv'
  BY <1>4
  DEF RpcOpen, nodeVars, devVars, plugVars, Tidy, IInv, KindsInv, PlacesInv, ThreadsInv, AppsInv,
      NodesInv, AppInv, NodeInv, InList, Live, Node
<1>5. ASSUME NEW s \in Sessions, RpcEnd(s) PROVE NodesInv'
  BY <1>5
  DEF RpcEnd, nodeVars, devVars, plugVars, Tidy, IInv, KindsInv, PlacesInv, ThreadsInv, AppsInv,
      NodesInv, AppInv, NodeInv, InList, Live
<1>6. ASSUME NEW s \in Sessions, RpcEndNode(s) PROVE NodesInv'
  BY <1>6
  DEF RpcEndNode, nodeVars, devVars, plugVars, Tidy, IInv, KindsInv, PlacesInv, ThreadsInv,
      AppsInv, NodesInv, AppInv, NodeInv, InList, Live
<1>7. CASE Scan
  <2>1. KindsInv
    BY DEF IInv
  <2>2. OnlyMarked /\ UNCHANGED <<app, rpc, rcv, devVars, plugVars>> /\ snd.pc = "scan"
    BY <1>7, <2>1, ScanFacts
  <2>3. CASE snd' = snd /\ work_list' = work_list
    BY <1>7, <2>2, <2>3 DEF OnlyMarked, ToFree, devVars, plugVars, Tidy, IInv, KindsInv, PlacesInv,
        ThreadsInv, AppsInv, NodesInv, AppInv, NodeInv, InList, Live
  <2>4. ASSUME NEW s \in Sessions, InList(s), ~ nod[s].freeflag, ~ nod'[s].freeflag,
               nod[s].sta # "wait_usb_close",
               snd' = [snd EXCEPT !.pc = "picked", !.node = s], work_list' = work_list
        PROVE  NodesInv'
    BY <1>7, <2>2, <2>4 DEF OnlyMarked, ToFree, devVars, plugVars, Tidy, IInv, KindsInv, PlacesInv,
        ThreadsInv, AppsInv, NodesInv, AppInv, NodeInv, InList, Live
  <2>5. ASSUME NEW s \in Sessions, InList(s), nod[s].freeflag,
               snd' = [snd EXCEPT !.pc = "free", !.node = s],
               work_list' \in Seq(Sessions), IsInjective(work_list'),
               ToSet(work_list') = ToSet(work_list) \ {s}
        PROVE  NodesInv'
    BY <1>7, <2>2, <2>5 DEF OnlyMarked, ToFree, devVars, plugVars, Tidy, IInv, KindsInv, PlacesInv,
        ThreadsInv, AppsInv, NodesInv, AppInv, NodeInv, InList, Live, Node
  <2> QED
    BY <1>7, <2>1, <2>3, <2>4, <2>5, ScanFacts
<1>8. CASE Recheck
  BY <1>8
  DEF Recheck, nodeVars, devVars, plugVars, Tidy, IInv, KindsInv, PlacesInv, ThreadsInv, AppsInv,
      NodesInv, AppInv, NodeInv, InList, Live, HandsInv
<1>9. CASE PackMake
  <2>1. KindsInv
    BY DEF IInv
  <2>2. /\ snd.pc = "make" /\ snd.node \in Sessions
        /\ UNCHANGED <<app, rpc, work_list, rcv, fromDev, devOpen, plugVars>>
    BY <1>9, <2>1, PackFacts
  <2>3. CASE /\ ~ nod[snd.node].freeflag /\ nod[snd.node].sta = "need_send_cmd"
             /\ nod' = [nod EXCEPT ![snd.node].sta = "wait_usb_cmd"]
             /\ snd' = snd /\ (plug = "in" => toDev' = Append(toDev, "open"))
    BY <1>9, <2>2, <2>3 DEF devVars, plugVars, Tidy, IInv, KindsInv, PlacesInv, ThreadsInv,
        AppsInv, NodesInv, AppInv, NodeInv, InList, Live
  <2>4. CASE /\ ~ nod[snd.node].freeflag /\ nod[snd.node].sta = "need_send_close"
             /\ nod[snd.node].has_opened
             /\ nod' = [nod EXCEPT ![snd.node].sta = "wait_usb_close"]
             /\ snd' = snd /\ (plug = "in" => toDev' = Append(toDev, "close"))
    BY <1>9, <2>2, <2>4 DEF devVars, plugVars, Tidy, IInv, KindsInv, PlacesInv, ThreadsInv,
        AppsInv, NodesInv, AppInv, NodeInv, InList, Live
  <2>5. CASE OnlyMarked /\ snd' = [snd EXCEPT !.pc = "scan"] /\ toDev' = toDev
    BY <1>9, <2>2, <2>5 DEF OnlyMarked, ToFree, devVars, plugVars, Tidy, IInv, KindsInv, PlacesInv,
        ThreadsInv, AppsInv, NodesInv, AppInv, NodeInv, InList, Live
  <2> QED
    BY <1>9, <2>1, <2>3, <2>4, <2>5, PackFacts
<1>10. CASE Deinit
  BY <1>10
  DEF Deinit, nodeVars, devVars, plugVars, Tidy, IInv, KindsInv, PlacesInv, ThreadsInv, AppsInv,
      NodesInv, AppInv, NodeInv, InList, Live, HandsInv
<1>11. CASE DeinitRpc
  BY <1>11
  DEF DeinitRpc, nodeVars, devVars, plugVars, Tidy, IInv, KindsInv, PlacesInv, ThreadsInv, AppsInv,
      NodesInv, AppInv, NodeInv, InList, Live, HandsInv
<1>12. CASE RecvFind
  BY <1>12
  DEF RecvFind, nodeVars, devVars, plugVars, Tidy, IInv, KindsInv, PlacesInv, ThreadsInv, AppsInv,
      NodesInv, AppInv, NodeInv, InList, Live
<1>13. CASE RecvClosed
  <2>1. /\ rcv.node \in Sessions /\ rcv.pc # "idle" /\ UNCHANGED <<rpc, work_list, snd>>
        /\ (Tidy' => Tidy)
    BY <1>13 DEF RecvClosed, plugVars, Tidy, IInv, KindsInv, ThreadsInv
  <2>2. nod' = [nod EXCEPT ![rcv.node].freeflag = TRUE]
    BY <1>13 DEF RecvClosed
  <2>3. Got(Closed)
    BY <1>13, ReplyFacts DEF RecvClosed, Got, IInv, KindsInv, ThreadsInv
  <2>4. Tidy => Closing(rcv.node)
    BY <2>3, ClosedIsOwn
  <2>5. Tidy => rpc[rcv.node].pc = "done"
    BY <2>1, <2>4 DEF Closing, IInv, NodesInv, NodeInv
  <2> QED
    BY <2>1, <2>2, <2>5 DEF IInv, KindsInv, PlacesInv, NodesInv, NodeInv, InList, Live
<1>14. CASE RecvOpened
  <2>1. /\ rcv.node \in Sessions /\ rcv.pc # "idle" /\ UNCHANGED <<rpc, work_list, snd>>
        /\ (Tidy' => Tidy)
    BY <1>14 DEF RecvOpened, plugVars, Tidy, IInv, KindsInv, ThreadsInv
  <2>2. CASE nod' = nod
    BY <2>1, <2>2 DEF IInv, NodesInv, NodeInv, InList, Live
  <2>3. CASE /\ nod[rcv.node].sta = "wait_usb_cmd" /\ ~ nod[rcv.node].sockrpc
             /\ nod' = [nod EXCEPT ![rcv.node].sta = "need_send_close"]
    <3>1. Tidy => rpc[rcv.node].pc = "done"
      BY <2>1, <2>3 DEF IInv, KindsInv, PlacesInv, NodesInv, NodeInv, Connection
    <3> QED
      BY <2>1, <2>3, <3>1 DEF IInv, KindsInv, PlacesInv, NodesInv, NodeInv, InList, Live
  <2> QED
    BY <1>14, <2>2, <2>3 DEF RecvOpened
<1>15. CASE RecvAnswer
  <2>1. /\ rcv.node \in Sessions /\ rcv.pc # "idle" /\ UNCHANGED <<rpc, work_list, snd>>
        /\ (Tidy' => Tidy)
    BY <1>15 DEF RecvAnswer, plugVars, Tidy, IInv, KindsInv, ThreadsInv
  <2>2. nod' = [nod EXCEPT
          ![rcv.node].sta = IF rcv.pack.sta = 0 THEN "can_send_data" ELSE "not_init",
          ![rcv.node].has_opened = nod[rcv.node].has_opened \/ rcv.pack.sta = 0]
    BY <1>15 DEF RecvAnswer
  <2>3. Tidy => rpc[rcv.node].pc \notin {"none", "start"}
    BY <1>15 DEF RecvAnswer, IInv, HandsInv
  <2> QED
    BY <2>1, <2>2, <2>3 DEF IInv, KindsInv, PlacesInv, NodesInv, NodeInv, InList, Live
<1>16. CASE DevOpen
  BY <1>16
  DEF DevOpen, nodeVars, devVars, plugVars, Tidy, IInv, KindsInv, PlacesInv, ThreadsInv, AppsInv,
      NodesInv, AppInv, NodeInv, InList, Live
<1>17. CASE DevClose
  BY <1>17
  DEF DevClose, nodeVars, devVars, plugVars, Tidy, IInv, KindsInv, PlacesInv, ThreadsInv, AppsInv,
      NodesInv, AppInv, NodeInv, InList, Live
<1>18. CASE Unplug
  BY <1>18
  DEF Unplug, nodeVars, devVars, plugVars, Tidy, IInv, KindsInv, PlacesInv, ThreadsInv, AppsInv,
      NodesInv, AppInv, NodeInv, InList
<1>19. CASE TearDown
  BY <1>19
  DEF TearDown, nodeVars, devVars, plugVars, Tidy, IInv, KindsInv, PlacesInv, ThreadsInv, AppsInv,
      NodesInv, AppInv, NodeInv, InList
<1>20. CASE TearDownDone
  BY <1>20
  DEF TearDownDone, nodeVars, devVars, plugVars, Tidy, IInv, KindsInv, PlacesInv, ThreadsInv,
      AppsInv, NodesInv, AppInv, NodeInv, InList
<1>22. CASE RecvNotify
  BY <1>22
  DEF RecvNotify, RecvDone, nodeVars, devVars, plugVars, Tidy, IInv, KindsInv, PlacesInv, ThreadsInv,
      AppsInv, NodesInv, AppInv, NodeInv, InList, Live
<1>21. CASE UNCHANGED vars
  BY <1>21
  DEF vars, nodeVars, devVars, plugVars, Tidy, IInv, KindsInv, PlacesInv, ThreadsInv, AppsInv,
      NodesInv, AppInv, NodeInv, InList, Live
<1> QED
  BY <1>1, <1>2, <1>3, <1>4, <1>5, <1>6, <1>7, <1>8, <1>9, <1>10, <1>11, <1>12, <1>13, <1>14,
      <1>15, <1>16, <1>17, <1>18, <1>19, <1>20, <1>21, <1>22
  DEF Next, Rpc, SendThread, RecvThread, Device, Poll

(* Every step keeps the nodes the threads hold from being freed.           *)
LEMMA NextHands ==
  ASSUME IInv, [Next]_vars
  PROVE  HandsInv'
<1>1. ASSUME NEW s \in Sessions, Connect(s) PROVE HandsInv'
  BY <1>1
  DEF Connect, nodeVars, devVars, plugVars, Tidy, IInv, KindsInv, PlacesInv, ThreadsInv, AppsInv,
      NodesInv, AppInv, NodeInv, InList, Live, HandsInv
<1>2. ASSUME NEW s \in Sessions, Close(s) PROVE HandsInv'
  BY <1>2
  DEF Close, nodeVars, devVars, plugVars, Tidy, IInv, KindsInv, PlacesInv, ThreadsInv, AppsInv,
      NodesInv, AppInv, NodeInv, InList, Live, HandsInv
<1>3. ASSUME NEW s \in Sessions, RpcStart(s) PROVE HandsInv'
  BY <1>3
  DEF RpcStart, nodeVars, devVars, plugVars, Tidy, IInv, KindsInv, PlacesInv, ThreadsInv, AppsInv,
      NodesInv, AppInv, NodeInv, InList, Live, HandsInv
<1>4. ASSUME NEW s \in Sessions, RpcOpen(s) PROVE HandsInv'
  BY <1>4
  DEF RpcOpen, nodeVars, devVars, plugVars, Tidy, IInv, KindsInv, PlacesInv, ThreadsInv, AppsInv,
      NodesInv, AppInv, NodeInv, InList, Live, HandsInv, Node
<1>5. ASSUME NEW s \in Sessions, RpcEnd(s) PROVE HandsInv'
  BY <1>5
  DEF RpcEnd, nodeVars, devVars, plugVars, Tidy, IInv, KindsInv, PlacesInv, ThreadsInv, AppsInv,
      NodesInv, AppInv, NodeInv, InList, Live, HandsInv
<1>6. ASSUME NEW s \in Sessions, RpcEndNode(s) PROVE HandsInv'
  BY <1>6
  DEF RpcEndNode, nodeVars, devVars, plugVars, Tidy, IInv, KindsInv, PlacesInv, ThreadsInv,
      AppsInv, NodesInv, AppInv, NodeInv, InList, Live, HandsInv
<1>7. CASE Scan
  <2>1. KindsInv
    BY DEF IInv
  <2>2. OnlyMarked /\ UNCHANGED <<app, rpc, rcv, devVars, plugVars>> /\ snd.pc = "scan"
    BY <1>7, <2>1, ScanFacts
  <2>3. CASE snd' = snd /\ work_list' = work_list
    BY <1>7, <2>2, <2>3 DEF OnlyMarked, ToFree, devVars, plugVars, Tidy, IInv, KindsInv, PlacesInv,
        ThreadsInv, AppsInv, NodesInv, AppInv, NodeInv, InList, HandsInv
  <2>4. ASSUME NEW s \in Sessions, InList(s), ~ nod[s].freeflag, ~ nod'[s].freeflag,
               nod[s].sta # "wait_usb_close",
               snd' = [snd EXCEPT !.pc = "picked", !.node = s], work_list' = work_list
        PROVE  HandsInv'
    BY <1>7, <2>2, <2>4 DEF OnlyMarked, ToFree, devVars, plugVars, Tidy, IInv, KindsInv, PlacesInv,
        ThreadsInv, AppsInv, NodesInv, AppInv, NodeInv, InList, Live, HandsInv
  <2>5. ASSUME NEW s \in Sessions, InList(s), nod[s].freeflag,
               snd' = [snd EXCEPT !.pc = "free", !.node = s],
               work_list' \in Seq(Sessions), IsInjective(work_list'),
               ToSet(work_list') = ToSet(work_list) \ {s}
        PROVE  HandsInv'
    BY <1>7, <2>2, <2>5 DEF OnlyMarked, ToFree, devVars, plugVars, Tidy, IInv, KindsInv, PlacesInv,
        ThreadsInv, AppsInv, NodesInv, AppInv, NodeInv, InList, Live, HandsInv, Connection
  <2> QED
    BY <1>7, <2>1, <2>3, <2>4, <2>5, ScanFacts
<1>8. CASE Recheck
  BY <1>8
  DEF Recheck, nodeVars, devVars, plugVars, Tidy, IInv, KindsInv, PlacesInv, ThreadsInv, AppsInv,
      NodesInv, AppInv, NodeInv, InList, Live, HandsInv
<1>9. CASE PackMake
  <2>1. KindsInv
    BY DEF IInv
  <2>2. /\ snd.pc = "make" /\ snd.node \in Sessions
        /\ UNCHANGED <<app, rpc, work_list, rcv, fromDev, devOpen, plugVars>>
    BY <1>9, <2>1, PackFacts
  <2>3. CASE /\ ~ nod[snd.node].freeflag /\ nod[snd.node].sta = "need_send_cmd"
             /\ nod' = [nod EXCEPT ![snd.node].sta = "wait_usb_cmd"]
             /\ snd' = snd /\ (plug = "in" => toDev' = Append(toDev, "open"))
    BY <1>9, <2>2, <2>3 DEF devVars, plugVars, Tidy, IInv, KindsInv, PlacesInv, ThreadsInv,
        AppsInv, NodesInv, AppInv, NodeInv, InList, Live, HandsInv
  <2>4. CASE /\ ~ nod[snd.node].freeflag /\ nod[snd.node].sta = "need_send_close"
             /\ nod[snd.node].has_opened
             /\ nod' = [nod EXCEPT ![snd.node].sta = "wait_usb_close"]
             /\ snd' = snd /\ (plug = "in" => toDev' = Append(toDev, "close"))
    BY <1>9, <2>2, <2>4 DEF devVars, plugVars, Tidy, IInv, KindsInv, PlacesInv, ThreadsInv,
        AppsInv, NodesInv, AppInv, NodeInv, InList, Live, HandsInv
  <2>5. CASE OnlyMarked /\ snd' = [snd EXCEPT !.pc = "scan"] /\ toDev' = toDev
    BY <1>9, <2>2, <2>5 DEF OnlyMarked, ToFree, devVars, plugVars, Tidy, IInv, KindsInv, PlacesInv,
        ThreadsInv, AppsInv, NodesInv, AppInv, NodeInv, InList, HandsInv
  <2> QED
    BY <1>9, <2>1, <2>3, <2>4, <2>5, PackFacts
<1>10. CASE Deinit
  BY <1>10
  DEF Deinit, nodeVars, devVars, plugVars, Tidy, IInv, KindsInv, PlacesInv, ThreadsInv, AppsInv,
      NodesInv, AppInv, NodeInv, InList, Live, HandsInv
<1>11. CASE DeinitRpc
  BY <1>11
  DEF DeinitRpc, nodeVars, devVars, plugVars, Tidy, IInv, KindsInv, PlacesInv, ThreadsInv, AppsInv,
      NodesInv, AppInv, NodeInv, InList, HandsInv
<1>12. CASE RecvFind
  BY <1>12
  DEF RecvFind, nodeVars, devVars, plugVars, Tidy, IInv, KindsInv, PlacesInv, ThreadsInv, AppsInv,
      NodesInv, AppInv, NodeInv, InList, Live, HandsInv
<1>13. CASE RecvClosed
  <2>1. /\ rcv.node \in Sessions /\ rcv.pc # "idle" /\ UNCHANGED <<rpc, work_list, snd>>
        /\ (Tidy' => Tidy)
    BY <1>13 DEF RecvClosed, plugVars, Tidy, IInv, KindsInv, ThreadsInv
  <2>2. nod' = [nod EXCEPT ![rcv.node].freeflag = TRUE]
    BY <1>13 DEF RecvClosed
  <2>3. Got(Closed)
    BY <1>13, ReplyFacts DEF RecvClosed, Got, IInv, KindsInv, ThreadsInv
  <2>4. Tidy => nod[rcv.node].sta = "wait_usb_close"
    BY <2>3, ClosedIsOwn DEF Closing
  <2> QED
    BY <1>13, <2>1, <2>2, <2>4 DEF RecvClosed, RecvDone, IInv, KindsInv, PlacesInv, HandsInv, Live
<1>14. CASE RecvOpened
  <2>1. /\ rcv.node \in Sessions /\ rcv.pc # "idle" /\ UNCHANGED <<rpc, work_list, snd>>
        /\ (Tidy' => Tidy)
    BY <1>14 DEF RecvOpened, plugVars, Tidy, IInv, KindsInv, ThreadsInv
  <2>2. CASE nod' = nod
    BY <1>14, <2>1, <2>2 DEF RecvOpened, RecvDone, IInv, KindsInv, PlacesInv, ThreadsInv, NodesInv,
        NodeInv, HandsInv, Live
  <2>3. CASE /\ nod[rcv.node].sta = "wait_usb_cmd" /\ ~ nod[rcv.node].sockrpc
             /\ nod' = [nod EXCEPT ![rcv.node].sta = "need_send_close"]
    BY <1>14, <2>1, <2>3 DEF RecvOpened, RecvDone, IInv, KindsInv, PlacesInv, HandsInv, Live
  <2> QED
    BY <1>14, <2>2, <2>3 DEF RecvOpened
<1>15. CASE RecvAnswer
  <2>1. /\ rcv.node \in Sessions /\ rcv.pc # "idle" /\ UNCHANGED <<rpc, work_list, snd>>
        /\ (Tidy' => Tidy)
    BY <1>15 DEF RecvAnswer, plugVars, Tidy, IInv, KindsInv, ThreadsInv
  <2>2. rcv'.pc = "idle"
    BY <1>15 DEF RecvAnswer, RecvDone
  <2>3. ASSUME NEW s \in Sessions
        PROVE  /\ nod'[s].mem = nod[s].mem /\ nod'[s].freeflag = nod[s].freeflag
               /\ nod'[s].sta = nod[s].sta \/ nod'[s].sta \in {"can_send_data", "not_init"}
    BY <1>15, <2>1 DEF RecvAnswer, IInv, KindsInv, PlacesInv
  <2> QED
    BY <2>1, <2>2, <2>3 DEF IInv, KindsInv, ThreadsInv, HandsInv, Live
<1>16. CASE DevOpen
  BY <1>16
  DEF DevOpen, nodeVars, devVars, plugVars, Tidy, IInv, KindsInv, PlacesInv, ThreadsInv, AppsInv,
      NodesInv, AppInv, NodeInv, InList, Live, HandsInv
<1>17. CASE DevClose
  BY <1>17
  DEF DevClose, nodeVars, devVars, plugVars, Tidy, IInv, KindsInv, PlacesInv, ThreadsInv, AppsInv,
      NodesInv, AppInv, NodeInv, InList, Live, HandsInv
<1>18. CASE Unplug
  BY <1>18
  DEF Unplug, nodeVars, devVars, plugVars, Tidy, IInv, KindsInv, PlacesInv, ThreadsInv, AppsInv,
      NodesInv, AppInv, NodeInv, InList, HandsInv
<1>19. CASE TearDown
  BY <1>19
  DEF TearDown, nodeVars, devVars, plugVars, Tidy, IInv, KindsInv, PlacesInv, ThreadsInv, AppsInv,
      NodesInv, AppInv, NodeInv, InList, HandsInv
<1>20. CASE TearDownDone
  BY <1>20
  DEF TearDownDone, nodeVars, devVars, plugVars, Tidy, IInv, KindsInv, PlacesInv, ThreadsInv,
      AppsInv, NodesInv, AppInv, NodeInv, InList, HandsInv
<1>22. CASE RecvNotify
  BY <1>22
  DEF RecvNotify, RecvDone, nodeVars, devVars, plugVars, Tidy, IInv, KindsInv, PlacesInv, ThreadsInv,
      AppsInv, NodesInv, AppInv, NodeInv, InList, Live, HandsInv
<1>21. CASE UNCHANGED vars
  BY <1>21
  DEF vars, nodeVars, devVars, plugVars, Tidy, IInv, KindsInv, PlacesInv, ThreadsInv, AppsInv,
      NodesInv, AppInv, NodeInv, InList, Live, HandsInv
<1> QED
  BY <1>1, <1>2, <1>3, <1>4, <1>5, <1>6, <1>7, <1>8, <1>9, <1>10, <1>11, <1>12, <1>13, <1>14,
      <1>15, <1>16, <1>17, <1>18, <1>19, <1>20, <1>21, <1>22
  DEF Next, Rpc, SendThread, RecvThread, Device, Poll

(* Every step keeps the close last, and its node in place.                 *)
LEMMA NextClose ==
  ASSUME IInv, [Next]_vars
  PROVE  CloseInv'
<1>1. ASSUME NEW s \in Sessions, Connect(s) PROVE CloseInv'
  BY <1>1
  DEF Connect, nodeVars, devVars, plugVars, Tidy, IInv, KindsInv, PlacesInv, ThreadsInv, CloseInv,
      ClosePiped, Got, Closing, Live
<1>2. ASSUME NEW s \in Sessions, Close(s) PROVE CloseInv'
  BY <1>2
  DEF Close, nodeVars, devVars, plugVars, Tidy, IInv, KindsInv, PlacesInv, ThreadsInv, CloseInv,
      ClosePiped, Got, Closing, Live
<1>3. ASSUME NEW s \in Sessions, RpcStart(s) PROVE CloseInv'
  <2>1. Tidy' => Tidy /\ ~ Live(s)
    BY <1>3 DEF RpcStart, plugVars, Tidy, IInv, NodesInv, NodeInv, Live
  <2>2. ASSUME NEW t \in Sessions, Live(t), t # s PROVE nod'[t] = nod[t]
    BY <1>3, <2>2 DEF RpcStart, IInv, KindsInv, PlacesInv
  <2>3. UNCHANGED <<snd, rcv, toDev, fromDev, devOpen>>
    BY <1>3 DEF RpcStart, devVars
  <2>4. Tidy' /\ Got(Closed) => Live(rcv.node)' /\ rcv.node \in Sessions
    BY <2>1, <2>2, <2>3 DEF IInv, CloseInv, Live, KindsInv, ThreadsInv, Got
  <2>5. ASSUME NEW t \in Sessions, Tidy', Closing(t) PROVE Closing(t)'
    BY <2>1, <2>2, <2>3, <2>5 DEF Closing, Live
  <2> QED
    BY <2>1, <2>3, <2>4, <2>5 DEF IInv, CloseInv, ClosePiped, Got
<1>4. ASSUME NEW s \in Sessions, RpcOpen(s) PROVE CloseInv'
  <2>1. /\ UNCHANGED <<snd, rcv, toDev, fromDev, devOpen>> /\ (Tidy' => Tidy)
        /\ rpc[s].pc = "start"
    BY <1>4 DEF RpcOpen, devVars, plugVars, Tidy
  <2>2. Tidy => ~ Closing(s)
    BY <2>1 DEF Closing, IInv, NodesInv, NodeInv
  <2>3. ASSUME NEW t \in Sessions PROVE Live(t)' = Live(t) /\ (t # s => nod'[t] = nod[t])
    BY <1>4 DEF RpcOpen, IInv, KindsInv, PlacesInv, Live, Node
  <2>4. ASSUME NEW t \in Sessions, t # s PROVE Closing(t)' = Closing(t)
    BY <2>3, <2>4 DEF Closing
  <2>5. ClosePiped' = ClosePiped /\ Got(Closed)' = Got(Closed)
    BY <2>1 DEF ClosePiped, Got
  <2>6. Tidy' /\ ClosePiped' => \E t \in Sessions : Closing(t)'
    BY <2>1, <2>2, <2>4, <2>5 DEF IInv, CloseInv
  <2>7. Tidy' /\ Got(Closed)' => Live(rcv.node)'
    BY <2>1, <2>3, <2>5 DEF IInv, CloseInv, KindsInv, ThreadsInv, Got
  <2> QED
    BY <2>1, <2>5, <2>6, <2>7 DEF IInv, CloseInv
<1>5. ASSUME NEW s \in Sessions, RpcEnd(s) PROVE CloseInv'
  BY <1>5
  DEF RpcEnd, nodeVars, devVars, plugVars, Tidy, IInv, KindsInv, PlacesInv, ThreadsInv, CloseInv,
      ClosePiped, Got, Closing, Live
<1>6. ASSUME NEW s \in Sessions, RpcEndNode(s) PROVE CloseInv'
  BY <1>6
  DEF RpcEndNode, nodeVars, devVars, plugVars, Tidy, IInv, KindsInv, PlacesInv, ThreadsInv,
      CloseInv, ClosePiped, Got, Closing, Live, NodesInv, NodeInv
<1>7. CASE Scan
  <2>1. KindsInv
    BY DEF IInv
  <2>2. OnlyMarked /\ UNCHANGED <<app, rpc, rcv, devVars, plugVars>> /\ snd.pc = "scan"
    BY <1>7, <2>1, ScanFacts
  <2>3. CASE snd' = snd /\ work_list' = work_list
    BY <1>7, <2>2, <2>3 DEF OnlyMarked, ToFree, devVars, plugVars, Tidy, IInv, KindsInv, PlacesInv,
        ThreadsInv, CloseInv, ClosePiped, Got, Closing, Live
  <2>4. ASSUME NEW s \in Sessions, InList(s), ~ nod[s].freeflag, ~ nod'[s].freeflag,
               nod[s].sta # "wait_usb_close",
               snd' = [snd EXCEPT !.pc = "picked", !.node = s], work_list' = work_list
        PROVE  CloseInv'
    BY <1>7, <2>2, <2>4 DEF OnlyMarked, ToFree, devVars, plugVars, Tidy, IInv, KindsInv, PlacesInv,
        ThreadsInv, CloseInv, ClosePiped, Got, Closing, Live
  <2>5. ASSUME NEW s \in Sessions, InList(s), nod[s].freeflag,
               snd' = [snd EXCEPT !.pc = "free", !.node = s],
               work_list' \in Seq(Sessions), IsInjective(work_list'),
               ToSet(work_list') = ToSet(work_list) \ {s}
        PROVE  CloseInv'
    BY <1>7, <2>2, <2>5 DEF OnlyMarked, ToFree, devVars, plugVars, Tidy, IInv, KindsInv, PlacesInv,
        ThreadsInv, CloseInv, ClosePiped, Got, Closing, Live
  <2> QED
    BY <1>7, <2>1, <2>3, <2>4, <2>5, ScanFacts
<1>8. CASE Recheck
  BY <1>8
  DEF Recheck, nodeVars, devVars, plugVars, Tidy, IInv, KindsInv, PlacesInv, ThreadsInv, CloseInv,
      ClosePiped, Got, Closing, Live
<1>9. CASE PackMake
  <2>0. /\ KindsInv /\ toDev \in Seq({"open", "close"})
        /\ fromDev \in Seq(Replies) /\ Closed \in Replies
    BY DEF IInv, KindsInv, QueuesInv, Replies
  <2>1. KindsInv
    BY DEF IInv
  <2>2. /\ snd.pc = "make" /\ snd.node \in Sessions
        /\ UNCHANGED <<app, rpc, work_list, rcv, fromDev, devOpen, plugVars>>
    BY <1>9, <2>1, PackFacts
  <2>3. CASE /\ ~ nod[snd.node].freeflag /\ nod[snd.node].sta = "need_send_cmd"
             /\ nod' = [nod EXCEPT ![snd.node].sta = "wait_usb_cmd"]
             /\ snd' = snd /\ (plug = "in" => toDev' = Append(toDev, "open"))
    <3>1. Tidy => Live(snd.node)
      BY <2>2 DEF IInv, HandsInv
    <3>2. Tidy => ~ ClosePiped
      BY <2>3, <2>2, <3>1, OneAlive DEF IInv, CloseInv, Closing
    <3>3. Tidy' => Tidy /\ toDev' = Append(toDev, "open") /\ UNCHANGED <<rcv, fromDev, devOpen>>
      BY <2>2, <2>3 DEF plugVars, Tidy
    <3>4. Tidy' => ~ ClosePiped'
      <4>1. ToSet(Append(toDev, "open")) = ToSet(toDev) \cup {"open"}
        BY <2>0, AppendFacts
      <4>2. Tidy' => (Got(Closed)' <=> Got(Closed))
        BY <3>3 DEF Got
      <4>3. Tidy' => Closed \notin ToSet(fromDev') /\ "close" \notin ToSet(toDev')
        <5>1. "close" \notin ToSet(toDev) => "close" \notin ToSet(Append(toDev, "open"))
          BY ONLY <4>1
        <5>2. Tidy => Closed \notin ToSet(fromDev) /\ "close" \notin ToSet(toDev)
          BY <3>2 DEF ClosePiped
        <5>3. Tidy' => Tidy /\ ToSet(toDev') = ToSet(Append(toDev, "open"))
                         /\ ToSet(fromDev') = ToSet(fromDev)
          BY <3>3
        <5> QED
          BY ONLY <5>1, <5>2, <5>3
      <4> QED
        BY <3>2, <3>3, <4>2, <4>3 DEF ClosePiped
    <3>5. Tidy' => OnlyLast(toDev', "close")
      <4>1. "close" \notin ToSet(toDev) /\ OnlyLast(toDev, "close")
              => OnlyLast(Append(toDev, "open"), "close")
        BY <2>0, OnlyLastFacts
      <4> QED
        BY <3>2, <3>3, <4>1 DEF IInv, CloseInv, ClosePiped
    <3> QED
      BY <3>2, <3>3, <3>4, <3>5 DEF IInv, CloseInv, ClosePiped
  <2>4. CASE /\ ~ nod[snd.node].freeflag /\ nod[snd.node].sta = "need_send_close"
             /\ nod[snd.node].has_opened
             /\ nod' = [nod EXCEPT ![snd.node].sta = "wait_usb_close"]
             /\ snd' = snd /\ (plug = "in" => toDev' = Append(toDev, "close"))
    <3>1. Tidy => Live(snd.node)
      BY <2>2 DEF IInv, HandsInv
    <3>2. Tidy => ~ ClosePiped
      BY <2>4, <2>2, <3>1, OneAlive DEF IInv, CloseInv, Closing
    <3>3. Tidy' => Tidy /\ toDev' = Append(toDev, "close") /\ UNCHANGED <<rcv, fromDev, devOpen>>
      BY <2>2, <2>4 DEF plugVars, Tidy
    <3>4. Tidy' => Closing(snd.node)'
      BY <2>2, <2>4, <3>1, <3>3 DEF Closing, Live, IInv, KindsInv, PlacesInv
    <3>5. Tidy' => OnlyLast(toDev', "close")
      <4>1. "close" \notin ToSet(toDev) /\ OnlyLast(toDev, "close")
              => OnlyLast(Append(toDev, "close"), "close")
        BY <2>0, OnlyLastFacts
      <4> QED
        BY <3>2, <3>3, <4>1 DEF IInv, CloseInv, ClosePiped
    <3>6. Tidy => ~ Got(Closed) /\ Closed \notin ToSet(fromDev) /\ OnlyLast(fromDev, Closed)
      BY <3>2 DEF ClosePiped, IInv, CloseInv
    <3>7. (Got(Closed)' <=> Got(Closed)) \/ ~ Tidy'
      BY <3>3 DEF Got
    <3>8. Tidy' => \E s \in Sessions : Closing(s)'
      BY <2>2, <2>4, <3>4
    <3> QED
      BY <3>3, <3>5, <3>6, <3>7, <3>8 DEF CloseInv
  <2>5. CASE OnlyMarked /\ snd' = [snd EXCEPT !.pc = "scan"] /\ toDev' = toDev
    BY <1>9, <2>2, <2>5 DEF OnlyMarked, ToFree, devVars, plugVars, Tidy, IInv, KindsInv, PlacesInv,
        ThreadsInv, CloseInv, ClosePiped, Got, Closing, Live
  <2> QED
    BY <1>9, <2>1, <2>3, <2>4, <2>5, PackFacts
<1>10. CASE Deinit
  BY <1>10
  DEF Deinit, nodeVars, devVars, plugVars, Tidy, IInv, KindsInv, PlacesInv, ThreadsInv, CloseInv,
      ClosePiped, Got, Closing, Live
<1>11. CASE DeinitRpc
  <2>1. snd.node \in Sessions /\ UNCHANGED <<rcv, toDev, fromDev, devOpen>> /\ (Tidy' => Tidy)
        /\ \A t \in Sessions : t # snd.node => nod'[t] = nod[t]
    BY <1>11 DEF DeinitRpc, devVars, Tidy, IInv, KindsInv, ThreadsInv
  <2>2. ASSUME NEW t \in Sessions, Tidy', Closing(t) PROVE Closing(t)'
    BY <1>11, <2>1, <2>2 DEF DeinitRpc, IInv, HandsInv, Closing, Live
  <2>3. Tidy' /\ Got(Closed) => Live(rcv.node)'
    BY <2>1, <2>2, ClosedIsOwn DEF Closing, Live, Got, IInv, KindsInv, ThreadsInv
  <2> QED
    BY <2>1, <2>2, <2>3 DEF IInv, CloseInv, ClosePiped, Got
<1>12. CASE RecvFind
  <2>0. /\ KindsInv /\ toDev \in Seq({"open", "close"})
        /\ fromDev \in Seq(Replies) /\ Closed \in Replies
    BY DEF IInv, KindsInv, QueuesInv, Replies
  <2>1. /\ rcv.pc = "idle" /\ fromDev # <<>> /\ fromDev' = Tail(fromDev)
        /\ UNCHANGED <<nod, toDev, devOpen>> /\ (Tidy' => Tidy)
        /\ rcv' = rcv \/ (\E n \in Sessions :
               InList(n) /\ rcv' = [pc |-> "proc", node |-> n, pack |-> Head(fromDev)])
    BY <1>12, <2>0, FindFacts DEF nodeVars, plugVars, Tidy
  <2>2. ToSet(fromDev) = {Head(fromDev)} \cup ToSet(Tail(fromDev)) /\ <<>> \in Seq(Replies)
    BY <2>0, <2>1, QueueFacts
  <2>3. Tidy' => OnlyLast(Tail(fromDev), Closed) /\ (Head(fromDev) = Closed => Tail(fromDev) = <<>>)
    BY <2>0, <2>1, OnlyLastFacts DEF IInv, CloseInv
  <2>4. \A s \in Sessions : (Closing(s)' <=> Closing(s)) /\ (Live(s)' <=> Live(s))
    BY <2>1 DEF Closing, Live
  <2>5. Got(Closed)' => Head(fromDev) = Closed /\ \E n \in Sessions : InList(n) /\ rcv'.node = n
    BY <2>1 DEF Got
  <2>6. ASSUME Tidy', Got(Closed)'
        PROVE  fromDev' = <<>> /\ toDev' = <<>> /\ ~ devOpen' /\ Live(rcv.node)'
    BY <2>1, <2>2, <2>3, <2>4, <2>5, <2>6 DEF IInv, CloseInv, NodesInv, NodeInv
  <2>7. ClosePiped' => ClosePiped
    BY <2>1, <2>2, <2>5 DEF ClosePiped
  <2> QED
    BY <2>1, <2>2, <2>3, <2>4, <2>6, <2>7 DEF IInv, CloseInv
<1>13. CASE RecvClosed
  <2>1. Got(Closed)
    BY <1>13, ReplyFacts DEF RecvClosed, Got, IInv, KindsInv, ThreadsInv
  <2>2. rcv'.pc = "notify" /\ UNCHANGED <<toDev, fromDev, devOpen>> /\ (Tidy' => Tidy)
    BY <1>13 DEF RecvClosed, RecvDone, devVars, plugVars, Tidy
  <2>3. Tidy' => ~ ClosePiped'
    BY <2>1, <2>2, EmptyFacts DEF IInv, CloseInv, ClosePiped, Got
  <2> QED
    BY <2>1, <2>2, <2>3 DEF IInv, CloseInv, ClosePiped
<1>14. CASE RecvOpened
  <2>0. /\ KindsInv /\ toDev \in Seq({"open", "close"})
        /\ fromDev \in Seq(Replies) /\ Closed \in Replies
    BY DEF IInv, KindsInv, QueuesInv, Replies
  <2>1. /\ rcv.pack # Closed /\ (rcv'.pc = "idle" \/ rcv'.pack = rcv.pack)
        /\ UNCHANGED <<toDev, fromDev, devOpen>> /\ (Tidy' => Tidy)
    BY <1>14, <2>0, OpenedFacts, ReplyFacts DEF devVars, plugVars, Tidy, KindsInv, ThreadsInv
  <2>2. ~ Got(Closed) /\ ~ Got(Closed)'
    BY <2>1 DEF Got
  <2>3. ASSUME NEW s \in Sessions, Closing(s) PROVE Closing(s)'
    BY <1>14, <2>0, <2>3, OpenedFacts DEF Closing, Live, KindsInv, PlacesInv
  <2> QED
    BY <2>1, <2>2, <2>3 DEF IInv, CloseInv, ClosePiped
<1>15. CASE RecvAnswer
  <2>0. /\ KindsInv /\ toDev \in Seq({"open", "close"})
        /\ fromDev \in Seq(Replies) /\ Closed \in Replies
    BY DEF IInv, KindsInv, QueuesInv, Replies
  <2>1. /\ rcv.pack # Closed /\ rcv'.pc = "idle" /\ rcv.pc = "answer"
        /\ UNCHANGED <<toDev, fromDev, devOpen>> /\ (Tidy' => Tidy)
    BY <1>15, <2>0, AnswerFacts, ReplyFacts DEF devVars, plugVars, Tidy
  <2>2. ~ Got(Closed) /\ ~ Got(Closed)'
    BY <2>1 DEF Got
  <2>3. ASSUME NEW s \in Sessions, Tidy, Closing(s) PROVE Closing(s)'
    BY <1>15, <2>0, <2>1, <2>3, AnswerFacts DEF Closing, Live, IInv, HandsInv
  <2> QED
    BY <2>1, <2>2, <2>3 DEF IInv, CloseInv, ClosePiped
<1>16. CASE DevOpen
  <2>0. /\ KindsInv /\ toDev \in Seq({"open", "close"})
        /\ fromDev \in Seq(Replies) /\ Closed \in Replies
    BY DEF IInv, KindsInv, QueuesInv, Replies
  <2>1. /\ toDev # <<>> /\ Head(toDev) = "open" /\ toDev' = Tail(toDev)
        /\ UNCHANGED <<nod, rcv>> /\ (Tidy' => Tidy)
    BY <1>16, <2>0, DeviceFacts DEF nodeVars, plugVars, Tidy
  <2>2. PICK x \in OpenReplies : fromDev' = Append(fromDev, x)
    BY <1>16, <2>0, DeviceFacts
  <2>3. x # Closed /\ x \in Replies
    BY ReplyFacts
  <2>4. Tidy => ~ Got(Closed) /\ Closed \notin ToSet(fromDev)
    BY <2>1 DEF IInv, CloseInv
  <2>5. /\ ToSet(toDev) = {Head(toDev)} \cup ToSet(Tail(toDev))
        /\ ToSet(fromDev') = ToSet(fromDev) \cup {x}
    BY <2>0, <2>1, <2>2, <2>3, QueueFacts, AppendFacts
  <2>6. Tidy => OnlyLast(toDev', "close") /\ OnlyLast(fromDev', Closed)
    BY <2>0, <2>1, <2>2, <2>3, <2>4, OnlyLastFacts DEF IInv, CloseInv
  <2>7. \A s \in Sessions : (Closing(s)' <=> Closing(s))
    BY <2>1 DEF Closing, Live
  <2>8. Got(Closed)' <=> Got(Closed)
    BY <2>1 DEF Got
  <2> QED
    BY <2>1, <2>3, <2>4, <2>5, <2>6, <2>7, <2>8 DEF IInv, CloseInv, ClosePiped
<1>17. CASE DevClose
  <2>0. /\ KindsInv /\ toDev \in Seq({"open", "close"})
        /\ fromDev \in Seq(Replies) /\ Closed \in Replies
    BY DEF IInv, KindsInv, QueuesInv, Replies
  <2>1. /\ toDev # <<>> /\ Head(toDev) = "close" /\ toDev' = Tail(toDev) /\ devOpen' = FALSE
        /\ fromDev' = Append(fromDev, Closed) /\ UNCHANGED <<nod, rcv>> /\ (Tidy' => Tidy)
    BY <1>17 DEF DevClose, nodeVars, plugVars, Tidy
  <2>2. Tidy => ~ Got(Closed) /\ Closed \notin ToSet(fromDev)
    BY <2>1 DEF IInv, CloseInv
  <2>3. Tidy => toDev' = <<>>
    BY <2>0, <2>1, OnlyLastFacts DEF IInv, CloseInv
  <2>4. Tidy => OnlyLast(fromDev', Closed)
    BY <2>0, <2>1, <2>2, OnlyLastFacts DEF IInv, CloseInv
  <2>5. "close" \in ToSet(toDev)
    BY <2>0, <2>1, QueueFacts
  <2>6. Tidy => \E s \in Sessions : Closing(s)'
    BY <2>1, <2>5 DEF IInv, CloseInv, ClosePiped, Closing, Live
  <2>7. Got(Closed)' <=> Got(Closed)
    BY <2>1 DEF Got
  <2> QED
    BY <2>1, <2>2, <2>3, <2>4, <2>6, <2>7, EmptyFacts DEF CloseInv
<1>18. CASE Unplug
  BY <1>18
  DEF Unplug, nodeVars, devVars, plugVars, Tidy, IInv, KindsInv, PlacesInv, ThreadsInv, CloseInv,
      ClosePiped, Got, Closing, Live
<1>19. CASE TearDown
  BY <1>19
  DEF TearDown, nodeVars, devVars, plugVars, Tidy, IInv, KindsInv, PlacesInv, ThreadsInv, CloseInv,
      ClosePiped, Got, Closing, Live
<1>20. CASE TearDownDone
  BY <1>20
  DEF TearDownDone, nodeVars, devVars, plugVars, Tidy, IInv, KindsInv, PlacesInv, ThreadsInv,
      CloseInv, ClosePiped, Got, Closing, Live
<1>22. CASE RecvNotify
  BY <1>22
  DEF RecvNotify, RecvDone, nodeVars, devVars, plugVars, Tidy, IInv, KindsInv, PlacesInv, ThreadsInv,
      CloseInv, ClosePiped, Got, Closing, Live
<1>21. CASE UNCHANGED vars
  BY <1>21
  DEF vars, nodeVars, devVars, plugVars, Tidy, IInv, KindsInv, PlacesInv, ThreadsInv, CloseInv,
      ClosePiped, Got, Closing, Live
<1> QED
  BY <1>1, <1>2, <1>3, <1>4, <1>5, <1>6, <1>7, <1>8, <1>9, <1>10, <1>11, <1>12, <1>13, <1>14,
      <1>15, <1>16, <1>17, <1>18, <1>19, <1>20, <1>21, <1>22
  DEF Next, Rpc, SendThread, RecvThread, Device, Poll

(* Every step keeps one "it opened" on its way, and none after it is told. *)
LEMMA NextOpen ==
  ASSUME IInv, [Next]_vars
  PROVE  OpenInv'
<1>1. ASSUME NEW s \in Sessions, Connect(s) PROVE OpenInv'
  BY <1>1
  DEF Connect, nodeVars, devVars, plugVars, Tidy, IInv, KindsInv, PlacesInv, ThreadsInv, OpenInv,
      Got, Live
<1>2. ASSUME NEW s \in Sessions, Close(s) PROVE OpenInv'
  BY <1>2
  DEF Close, nodeVars, devVars, plugVars, Tidy, IInv, KindsInv, PlacesInv, ThreadsInv, OpenInv,
      Got, Live
<1>3. ASSUME NEW s \in Sessions, RpcStart(s) PROVE OpenInv'
  BY <1>3
  DEF RpcStart, nodeVars, devVars, plugVars, Tidy, IInv, KindsInv, PlacesInv, ThreadsInv, OpenInv,
      Got, Live, NodesInv, NodeInv
<1>4. ASSUME NEW s \in Sessions, RpcOpen(s) PROVE OpenInv'
  BY <1>4
  DEF RpcOpen, nodeVars, devVars, plugVars, Tidy, IInv, KindsInv, PlacesInv, ThreadsInv, OpenInv,
      Got, Live, NodesInv, Node
<1>5. ASSUME NEW s \in Sessions, RpcEnd(s) PROVE OpenInv'
  BY <1>5
  DEF RpcEnd, nodeVars, devVars, plugVars, Tidy, IInv, KindsInv, PlacesInv, ThreadsInv, OpenInv,
      Got, Live
<1>6. ASSUME NEW s \in Sessions, RpcEndNode(s) PROVE OpenInv'
  BY <1>6
  DEF RpcEndNode, nodeVars, devVars, plugVars, Tidy, IInv, KindsInv, PlacesInv, ThreadsInv,
      OpenInv, Got, Live, NodesInv, NodeInv
<1>7. CASE Scan
  <2>1. KindsInv
    BY DEF IInv
  <2>2. OnlyMarked /\ UNCHANGED <<app, rpc, rcv, devVars, plugVars>> /\ snd.pc = "scan"
    BY <1>7, <2>1, ScanFacts
  <2>3. CASE snd' = snd /\ work_list' = work_list
    BY <1>7, <2>2, <2>3 DEF OnlyMarked, ToFree, devVars, plugVars, Tidy, IInv, KindsInv, PlacesInv,
        ThreadsInv, OpenInv, Got, Live
  <2>4. ASSUME NEW s \in Sessions, InList(s), ~ nod[s].freeflag, ~ nod'[s].freeflag,
               nod[s].sta # "wait_usb_close",
               snd' = [snd EXCEPT !.pc = "picked", !.node = s], work_list' = work_list
        PROVE  OpenInv'
    BY <1>7, <2>2, <2>4 DEF OnlyMarked, ToFree, devVars, plugVars, Tidy, IInv, KindsInv, PlacesInv,
        ThreadsInv, OpenInv, Got, Live
  <2>5. ASSUME NEW s \in Sessions, InList(s), nod[s].freeflag,
               snd' = [snd EXCEPT !.pc = "free", !.node = s],
               work_list' \in Seq(Sessions), IsInjective(work_list'),
               ToSet(work_list') = ToSet(work_list) \ {s}
        PROVE  OpenInv'
    BY <1>7, <2>2, <2>5 DEF OnlyMarked, ToFree, devVars, plugVars, Tidy, IInv, KindsInv, PlacesInv,
        ThreadsInv, OpenInv, Got, Live
  <2> QED
    BY <1>7, <2>1, <2>3, <2>4, <2>5, ScanFacts
<1>8. CASE Recheck
  BY <1>8
  DEF Recheck, nodeVars, devVars, plugVars, Tidy, IInv, KindsInv, PlacesInv, ThreadsInv, OpenInv,
      Got, Live
<1>9. CASE PackMake
  <2>1. KindsInv
    BY DEF IInv
  <2>2. /\ snd.pc = "make" /\ snd.node \in Sessions
        /\ UNCHANGED <<app, rpc, work_list, rcv, fromDev, devOpen, plugVars>>
    BY <1>9, <2>1, PackFacts
  <2>3. CASE /\ ~ nod[snd.node].freeflag /\ nod[snd.node].sta = "need_send_cmd"
             /\ nod' = [nod EXCEPT ![snd.node].sta = "wait_usb_cmd"]
             /\ snd' = snd /\ (plug = "in" => toDev' = Append(toDev, "open"))
    <3>1. Tidy => Live(snd.node)
      BY <2>2 DEF IInv, HandsInv
    <3>2. ASSUME Tidy, NEW s \in Sessions, Live(s) PROVE ~ nod[s].has_opened
      BY <2>2, <2>3, <3>1, <3>2, OneAlive DEF IInv, NodesInv, NodeInv
    <3>3. \A s \in Sessions : (Live(s)' <=> Live(s)) /\ nod'[s].has_opened = nod[s].has_opened
      BY <2>2, <2>3 DEF Live
    <3> QED
      BY <2>2, <3>2, <3>3 DEF plugVars, Tidy, IInv, OpenInv, Got
  <2>4. CASE /\ ~ nod[snd.node].freeflag /\ nod[snd.node].sta = "need_send_close"
             /\ nod[snd.node].has_opened
             /\ nod' = [nod EXCEPT ![snd.node].sta = "wait_usb_close"]
             /\ snd' = snd /\ (plug = "in" => toDev' = Append(toDev, "close"))
    <3>1. Tidy => Live(snd.node)
      BY <2>2 DEF IInv, HandsInv
    <3>2. Tidy => devOpen
      BY <2>2, <2>4, <3>1 DEF IInv, OpenInv
    <3>3. \A s \in Sessions : (Live(s)' <=> Live(s)) /\ nod'[s].has_opened = nod[s].has_opened
      BY <2>2, <2>4 DEF Live
    <3> QED
      BY <2>2, <3>2, <3>3 DEF plugVars, Tidy, IInv, OpenInv, Got
  <2>5. CASE OnlyMarked /\ snd' = [snd EXCEPT !.pc = "scan"] /\ toDev' = toDev
    BY <1>9, <2>2, <2>5 DEF OnlyMarked, ToFree, devVars, plugVars, Tidy, IInv, KindsInv, PlacesInv,
        ThreadsInv, OpenInv, Got, Live
  <2> QED
    BY <1>9, <2>1, <2>3, <2>4, <2>5, PackFacts
<1>10. CASE Deinit
  BY <1>10
  DEF Deinit, nodeVars, devVars, plugVars, Tidy, IInv, KindsInv, PlacesInv, ThreadsInv, OpenInv,
      Got, Live
<1>11. CASE DeinitRpc
  BY <1>11
  DEF DeinitRpc, nodeVars, devVars, plugVars, Tidy, IInv, KindsInv, PlacesInv, ThreadsInv, OpenInv,
      Got, Live
<1>12. CASE RecvFind
  <2>0. /\ KindsInv /\ toDev \in Seq({"open", "close"})
        /\ fromDev \in Seq(Replies) /\ Open(0) \in Replies
    BY DEF IInv, KindsInv, QueuesInv, Replies
  <2>1. /\ rcv.pc = "idle" /\ fromDev # <<>> /\ fromDev' = Tail(fromDev)
        /\ UNCHANGED <<nod, toDev, devOpen>> /\ (Tidy' => Tidy)
        /\ rcv' = rcv \/ (\E n \in Sessions :
               InList(n) /\ rcv' = [pc |-> "proc", node |-> n, pack |-> Head(fromDev)])
    BY <1>12, <2>0, FindFacts DEF nodeVars, plugVars, Tidy
  <2>2. ToSet(fromDev) = {Head(fromDev)} \cup ToSet(Tail(fromDev))
    BY <2>0, <2>1, QueueFacts
  <2>3. Tidy' => /\ AtMostOne(fromDev', Open(0))
                 /\ (Head(fromDev) = Open(0) => Open(0) \notin ToSet(Tail(fromDev)))
    BY <2>0, <2>1, AtMostOneFacts DEF IInv, OpenInv
  <2>4. Got(Open(0))' => Head(fromDev) = Open(0)
    BY <2>1 DEF Got
  <2>5. \A s \in Sessions : (Live(s)' <=> Live(s)) /\ nod'[s] = nod[s]
    BY <2>1 DEF Live
  <2> QED
    BY <2>1, <2>2, <2>3, <2>4, <2>5 DEF IInv, OpenInv
<1>13. CASE RecvClosed
  BY <1>13
  DEF RecvClosed, nodeVars, devVars, plugVars, Tidy, IInv, KindsInv, PlacesInv, ThreadsInv,
      OpenInv, Got, Live, RecvDone
<1>14. CASE RecvOpened
  <2>0. /\ KindsInv /\ toDev \in Seq({"open", "close"})
        /\ fromDev \in Seq(Replies) /\ Open(0) \in Replies
    BY DEF IInv, KindsInv, QueuesInv, Replies
  <2>1. /\ rcv.pc = "proc" /\ (rcv'.pc = "idle" \/ rcv'.pack = rcv.pack)
        /\ UNCHANGED <<toDev, fromDev, devOpen>> /\ (Tidy' => Tidy)
    BY <1>14, <2>0, OpenedFacts DEF devVars, plugVars, Tidy, KindsInv, ThreadsInv
  <2>2. Got(Open(0))' => Got(Open(0))
    BY <2>1 DEF Got
  <2>3. ASSUME NEW s \in Sessions
        PROVE  /\ (Live(s)' <=> Live(s)) /\ nod'[s].has_opened = nod[s].has_opened
               /\ nod[s].sta = "wait_usb_close" => nod'[s].sta = "wait_usb_close"
    BY <1>14, <2>0, OpenedFacts DEF Live, KindsInv, PlacesInv, Node
  <2> QED
    BY <2>1, <2>2, <2>3 DEF IInv, OpenInv
<1>15. CASE RecvAnswer
  <2>0. /\ KindsInv /\ toDev \in Seq({"open", "close"})
        /\ fromDev \in Seq(Replies) /\ Open(0) \in Replies
    BY DEF IInv, KindsInv, QueuesInv, Replies
  <2>1. /\ rcv'.pc = "idle" /\ rcv.pc = "answer" /\ rcv.node \in Sessions
        /\ UNCHANGED <<toDev, fromDev, devOpen>> /\ (Tidy' => Tidy)
    BY <1>15, <2>0, AnswerFacts DEF devVars, plugVars, Tidy
  <2>2. ~ Got(Open(0))'
    BY <2>1 DEF Got
  <2>3. ASSUME NEW s \in Sessions, s # rcv.node
        PROVE  (Live(s)' <=> Live(s)) /\ nod'[s] = nod[s]
    BY <1>15, <2>0, <2>3, AnswerFacts DEF Live
  <2>4. Tidy /\ nod'[rcv.node].has_opened => Got(Open(0))
    BY <1>15, <2>0, <2>1, AnswerFacts DEF Got, IInv, HandsInv
  <2> QED
    BY <2>1, <2>2, <2>3, <2>4 DEF IInv, OpenInv
<1>16. CASE DevOpen
  <2>0. /\ KindsInv /\ toDev \in Seq({"open", "close"})
        /\ fromDev \in Seq(Replies) /\ Open(0) \in Replies
    BY DEF IInv, KindsInv, QueuesInv, Replies
  <2>1. /\ toDev # <<>> /\ Head(toDev) = "open" /\ toDev' = Tail(toDev)
        /\ UNCHANGED <<nod, rcv>> /\ (Tidy' => Tidy)
    BY <1>16, <2>0, DeviceFacts DEF nodeVars, plugVars, Tidy
  <2>2. PICK x \in OpenReplies :
          /\ fromDev' = Append(fromDev, x) /\ (x = Open(0) => ~ devOpen)
          /\ devOpen' <=> devOpen \/ x = Open(0)
    BY <1>16, <2>0, DeviceFacts
  <2>3. x \in Replies
    BY ReplyFacts
  <2>4. ToSet(fromDev') = ToSet(fromDev) \cup {x}
    BY <2>0, <2>2, <2>3, AppendFacts
  <2>5. Tidy /\ x = Open(0) => Open(0) \notin ToSet(fromDev) /\ ~ Got(Open(0))
    BY <2>2 DEF IInv, OpenInv
  <2>6. Tidy => AtMostOne(fromDev', Open(0))
    BY <2>0, <2>2, <2>3, <2>5, AtMostOneFacts DEF IInv, OpenInv
  <2>7. \A s \in Sessions : (Live(s)' <=> Live(s)) /\ nod'[s] = nod[s]
    BY <2>1 DEF Live
  <2>8. Got(Open(0))' <=> Got(Open(0))
    BY <2>1 DEF Got
  <2>9. ASSUME Tidy, NEW s \in Sessions, Live(s), nod[s].has_opened PROVE devOpen
    BY <2>1, <2>9 DEF IInv, OpenInv
  <2> QED
    BY <2>1, <2>2, <2>4, <2>5, <2>6, <2>7, <2>8, <2>9 DEF IInv, OpenInv
<1>17. CASE DevClose
  <2>0. /\ KindsInv /\ toDev \in Seq({"open", "close"})
        /\ fromDev \in Seq(Replies) /\ Open(0) \in Replies
    BY DEF IInv, KindsInv, QueuesInv, Replies
  <2>1. /\ toDev # <<>> /\ Head(toDev) = "close" /\ toDev' = Tail(toDev) /\ devOpen' = FALSE
        /\ fromDev' = Append(fromDev, Closed) /\ UNCHANGED <<nod, rcv>> /\ (Tidy' => Tidy)
    BY <1>17 DEF DevClose, nodeVars, plugVars, Tidy
  <2>2. Closed \in Replies /\ Closed # Open(0)
    BY ReplyFacts
  <2>3. ToSet(fromDev') = ToSet(fromDev) \cup {Closed}
    BY <2>0, <2>1, <2>2, AppendFacts
  <2>4. Tidy => AtMostOne(fromDev', Open(0))
    BY <2>0, <2>1, <2>2, AtMostOneFacts DEF IInv, OpenInv
  <2>5. Tidy => toDev' = <<>>
    BY <2>0, <2>1, OnlyLastFacts DEF IInv, CloseInv
  <2>6. "close" \in ToSet(toDev)
    BY <2>0, <2>1, QueueFacts
  <2>7. Tidy => \E s \in Sessions : Closing(s)
    BY <2>6 DEF IInv, CloseInv, ClosePiped
  <2>8. \A s \in Sessions : (Live(s)' <=> Live(s)) /\ nod'[s] = nod[s]
    BY <2>1 DEF Live
  <2>9. Tidy => ~ Got(Open(0))' /\ Open(0) \notin ToSet(fromDev)
    BY <2>1, <2>7 DEF IInv, OpenInv, Closing, Got
  <2>10. ASSUME Tidy, NEW s \in Sessions, Live(s) PROVE nod[s].sta = "wait_usb_close"
    BY <2>7, <2>10, OneAlive DEF Closing
  <2> QED
    BY <2>1, <2>2, <2>3, <2>4, <2>5, <2>8, <2>9, <2>10 DEF OpenInv
<1>18. CASE Unplug
  BY <1>18
  DEF Unplug, nodeVars, devVars, plugVars, Tidy, IInv, KindsInv, PlacesInv, ThreadsInv, OpenInv,
      Got, Live
<1>19. CASE TearDown
  BY <1>19
  DEF TearDown, nodeVars, devVars, plugVars, Tidy, IInv, KindsInv, PlacesInv, ThreadsInv, OpenInv,
      Got, Live
<1>20. CASE TearDownDone
  BY <1>20
  DEF TearDownDone, nodeVars, devVars, plugVars, Tidy, IInv, KindsInv, PlacesInv, ThreadsInv,
      OpenInv, Got, Live
<1>22. CASE RecvNotify
  BY <1>22
  DEF RecvNotify, RecvDone, nodeVars, devVars, plugVars, Tidy, IInv, KindsInv, PlacesInv, ThreadsInv,
      OpenInv, Got, Live
<1>21. CASE UNCHANGED vars
  BY <1>21
  DEF vars, nodeVars, devVars, plugVars, Tidy, IInv, KindsInv, PlacesInv, ThreadsInv, OpenInv, Got,
      Live
<1> QED
  BY <1>1, <1>2, <1>3, <1>4, <1>5, <1>6, <1>7, <1>8, <1>9, <1>10, <1>11, <1>12, <1>13, <1>14,
      <1>15, <1>16, <1>17, <1>18, <1>19, <1>20, <1>21, <1>22
  DEF Next, Rpc, SendThread, RecvThread, Device, Poll

(* Every step keeps one packet on its way while sessions wait in turn.     *)
LEMMA NextOne ==
  ASSUME IInv, [Next]_vars
  PROVE  OneInv'
<1>1. ASSUME NEW s \in Sessions, Connect(s) PROVE OneInv'
  BY <1>1
  DEF Connect, nodeVars, devVars, plugVars, IInv, KindsInv, OneInv, InTurn
<1>2. ASSUME NEW s \in Sessions, Close(s) PROVE OneInv'
  BY <1>2
  DEF Close, nodeVars, devVars, plugVars, IInv, KindsInv, OneInv, InTurn
<1>3. ASSUME NEW s \in Sessions, RpcStart(s) PROVE OneInv'
  BY <1>3
  DEF RpcStart, nodeVars, devVars, plugVars, IInv, KindsInv, OneInv, InTurn
<1>4. ASSUME NEW s \in Sessions, RpcOpen(s) PROVE OneInv'
  BY <1>4
  DEF RpcOpen, nodeVars, devVars, plugVars, IInv, KindsInv, ThreadsInv, OneInv, InTurn
<1>5. ASSUME NEW s \in Sessions, RpcEnd(s) PROVE OneInv'
  BY <1>5
  DEF RpcEnd, nodeVars, devVars, plugVars, IInv, KindsInv, OneInv, InTurn
<1>6. ASSUME NEW s \in Sessions, RpcEndNode(s) PROVE OneInv'
  BY <1>6
  DEF RpcEndNode, nodeVars, devVars, plugVars, IInv, KindsInv, OneInv, InTurn
<1>7. CASE Scan
  <2>1. KindsInv
    BY DEF IInv
  <2>2. OnlyMarked /\ UNCHANGED <<app, rpc, rcv, devVars, plugVars>> /\ snd.pc = "scan"
    BY <1>7, <2>1, ScanFacts
  <2>3. CASE snd' = snd /\ work_list' = work_list
    BY <1>7, <2>2, <2>3 DEF OnlyMarked, ToFree, devVars, plugVars, IInv, KindsInv, OneInv, InTurn
  <2>4. ASSUME NEW s \in Sessions, InList(s), ~ nod[s].freeflag, ~ nod'[s].freeflag,
               nod[s].sta # "wait_usb_close",
               snd' = [snd EXCEPT !.pc = "picked", !.node = s], work_list' = work_list
        PROVE  OneInv'
    BY <1>7, <2>2, <2>4 DEF OnlyMarked, ToFree, devVars, plugVars, IInv, KindsInv, OneInv, InTurn
  <2>5. ASSUME NEW s \in Sessions, InList(s), nod[s].freeflag,
               snd' = [snd EXCEPT !.pc = "free", !.node = s],
               work_list' \in Seq(Sessions), IsInjective(work_list'),
               ToSet(work_list') = ToSet(work_list) \ {s}
        PROVE  OneInv'
    BY <1>7, <2>2, <2>5 DEF OnlyMarked, ToFree, devVars, plugVars, IInv, KindsInv, OneInv, InTurn
  <2> QED
    BY <1>7, <2>1, <2>3, <2>4, <2>5, ScanFacts
<1>8. CASE Recheck
  BY <1>8
  DEF Recheck, nodeVars, devVars, plugVars, IInv, KindsInv, OneInv, InTurn
<1>9. CASE PackMake
  <2>1. KindsInv
    BY DEF IInv
  <2>2. /\ snd.pc = "make" /\ snd.node \in Sessions
        /\ UNCHANGED <<app, rpc, work_list, rcv, fromDev, devOpen, plugVars>>
    BY <1>9, <2>1, PackFacts
  <2>3. CASE /\ ~ nod[snd.node].freeflag /\ nod[snd.node].sta = "need_send_cmd"
             /\ nod' = [nod EXCEPT ![snd.node].sta = "wait_usb_cmd"]
             /\ snd' = snd /\ (plug = "in" => toDev' = Append(toDev, "open"))
    <3>1. InTurn' => InTurn /\ Tidy /\ Live(snd.node)
      BY <2>2, TurnKept DEF plugVars, IInv, HandsInv
    <3>2. InTurn' => toDev = <<>> /\ fromDev = <<>> /\ rcv.pc \notin {"proc", "answer"} /\ plug = "in"
      BY <2>2, <2>3, <3>1, NothingPiped DEF Tidy
    <3>3. /\ Len(Append(<<>>, "open")) = 1 /\ ToSet(Append(<<>>, "open")) = {"open"}
          /\ Len(<<>>) = 0 /\ ToSet(<<>>) = {}
      BY SingleFacts, EmptyFacts
    <3>4. InTurn' => /\ toDev' = Append(<<>>, "open") /\ fromDev' = <<>> /\ rcv'.pc \notin {"proc", "answer"}
      BY <2>2, <2>3, <3>2
    <3> QED
      <4>1. InTurn' => Len(toDev') = 1 /\ Len(fromDev') = 0
        BY <3>3, <3>4
      <4>2. InTurn' => fromDev' = <<>> /\ rcv'.pc \notin {"proc", "answer"}
        BY <3>4
      <4>0. 1 <= 1 /\ 0 <= 1
        OBVIOUS
      <4>3. InTurn' => Len(toDev') <= 1 /\ Len(fromDev') <= 1
        BY <4>0, <4>1, Zenon
      <4> QED
        BY <4>2, <4>3, Zenon DEF OneInv
  <2>4. CASE /\ ~ nod[snd.node].freeflag /\ nod[snd.node].sta = "need_send_close"
             /\ nod[snd.node].has_opened
             /\ nod' = [nod EXCEPT ![snd.node].sta = "wait_usb_close"]
             /\ snd' = snd /\ (plug = "in" => toDev' = Append(toDev, "close"))
    <3>1. InTurn' => InTurn /\ Tidy /\ Live(snd.node)
      BY <2>2, TurnKept DEF plugVars, IInv, HandsInv
    <3>2. InTurn' => toDev = <<>> /\ fromDev = <<>> /\ rcv.pc \notin {"proc", "answer"} /\ plug = "in"
      BY <2>2, <2>4, <3>1, NothingPiped DEF Tidy
    <3>3. /\ Len(Append(<<>>, "close")) = 1 /\ ToSet(Append(<<>>, "close")) = {"close"}
          /\ Len(<<>>) = 0 /\ ToSet(<<>>) = {}
      BY SingleFacts, EmptyFacts
    <3>4. InTurn' => /\ toDev' = Append(<<>>, "close") /\ fromDev' = <<>> /\ rcv'.pc \notin {"proc", "answer"}
      BY <2>2, <2>4, <3>2
    <3> QED
      <4>1. InTurn' => Len(toDev') = 1 /\ Len(fromDev') = 0
        BY <3>3, <3>4
      <4>2. InTurn' => fromDev' = <<>> /\ rcv'.pc \notin {"proc", "answer"}
        BY <3>4
      <4>0. 1 <= 1 /\ 0 <= 1
        OBVIOUS
      <4>3. InTurn' => Len(toDev') <= 1 /\ Len(fromDev') <= 1
        BY <4>0, <4>1, Zenon
      <4> QED
        BY <4>2, <4>3, Zenon DEF OneInv
  <2>5. CASE OnlyMarked /\ snd' = [snd EXCEPT !.pc = "scan"] /\ toDev' = toDev
    BY <1>9, <2>2, <2>5 DEF OnlyMarked, ToFree, devVars, plugVars, IInv, KindsInv, OneInv, InTurn
  <2> QED
    BY <1>9, <2>1, <2>3, <2>4, <2>5, PackFacts
<1>10. CASE Deinit
  BY <1>10
  DEF Deinit, nodeVars, devVars, plugVars, IInv, KindsInv, OneInv, InTurn
<1>11. CASE DeinitRpc
  BY <1>11
  DEF DeinitRpc, nodeVars, devVars, plugVars, IInv, KindsInv, OneInv, InTurn
<1>12. CASE RecvFind
  BY <1>12
  DEF RecvFind, nodeVars, devVars, plugVars, IInv, KindsInv, OneInv, InTurn
<1>13. CASE RecvClosed
  BY <1>13
  DEF RecvClosed, nodeVars, devVars, plugVars, IInv, KindsInv, OneInv, InTurn
<1>14. CASE RecvOpened
  BY <1>14
  DEF RecvOpened, nodeVars, devVars, plugVars, IInv, KindsInv, OneInv, InTurn
<1>15. CASE RecvAnswer
  BY <1>15
  DEF RecvAnswer, nodeVars, devVars, plugVars, IInv, KindsInv, ThreadsInv, OneInv, InTurn
<1>16. CASE DevOpen
  BY <1>16
  DEF DevOpen, nodeVars, devVars, plugVars, IInv, KindsInv, OneInv, InTurn
<1>17. CASE DevClose
  BY <1>17
  DEF DevClose, nodeVars, devVars, plugVars, IInv, KindsInv, OneInv, InTurn
<1>18. CASE Unplug
  BY <1>18
  DEF Unplug, nodeVars, devVars, plugVars, IInv, KindsInv, OneInv
<1>19. CASE TearDown
  BY <1>19
  DEF TearDown, nodeVars, devVars, plugVars, IInv, KindsInv, OneInv, InTurn
<1>20. CASE TearDownDone
  BY <1>20
  DEF TearDownDone, nodeVars, devVars, plugVars, IInv, KindsInv, OneInv, InTurn
<1>22. CASE RecvNotify
  BY <1>22
  DEF RecvNotify, RecvDone, nodeVars, devVars, plugVars, IInv, KindsInv, OneInv, InTurn
<1>21. CASE UNCHANGED vars
  BY <1>21
  DEF vars, nodeVars, devVars, plugVars, IInv, KindsInv, OneInv, InTurn
<1> QED
  BY <1>1, <1>2, <1>3, <1>4, <1>5, <1>6, <1>7, <1>8, <1>9, <1>10, <1>11, <1>12, <1>13, <1>14,
      <1>15, <1>16, <1>17, <1>18, <1>19, <1>20, <1>21, <1>22
  DEF Next, Rpc, SendThread, RecvThread, Device, Poll

(* Every step keeps the application waiting while its so_open is out.      *)
LEMMA NextWait ==
  ASSUME IInv, [Next]_vars
  PROVE  WaitInv'
<1>1. ASSUME NEW s \in Sessions, Connect(s) PROVE WaitInv'
  BY <1>1, TurnKept
  DEF Connect, nodeVars, devVars, plugVars, Tidy, IInv, KindsInv, PlacesInv, ThreadsInv, WaitInv,
      InTurn, Live, NodesInv, NodeInv, AppsInv
<1>2. ASSUME NEW s \in Sessions, Close(s) PROVE WaitInv'
  BY <1>2, TurnKept
  DEF Close, nodeVars, devVars, plugVars, Tidy, IInv, KindsInv, PlacesInv, ThreadsInv, WaitInv,
      InTurn, Live, NodesInv, NodeInv, AppsInv, AppInv
<1>3. ASSUME NEW s \in Sessions, RpcStart(s) PROVE WaitInv'
  BY <1>3, TurnKept
  DEF RpcStart, nodeVars, devVars, plugVars, Tidy, IInv, KindsInv, PlacesInv, ThreadsInv, WaitInv,
      InTurn, Live, NodesInv, NodeInv, AppsInv
<1>4. ASSUME NEW s \in Sessions, RpcOpen(s) PROVE WaitInv'
  BY <1>4, TurnKept
  DEF RpcOpen, nodeVars, devVars, plugVars, Tidy, IInv, KindsInv, PlacesInv, ThreadsInv, WaitInv,
      InTurn, Live, NodesInv, NodeInv, AppsInv, AppInv, Told
<1>5. ASSUME NEW s \in Sessions, RpcEnd(s) PROVE WaitInv'
  BY <1>5, TurnKept
  DEF RpcEnd, nodeVars, devVars, plugVars, Tidy, IInv, KindsInv, PlacesInv, ThreadsInv, WaitInv,
      InTurn, Live, NodesInv, NodeInv, AppsInv
<1>6. ASSUME NEW s \in Sessions, RpcEndNode(s) PROVE WaitInv'
  BY <1>6, TurnKept
  DEF RpcEndNode, nodeVars, devVars, plugVars, Tidy, IInv, KindsInv, PlacesInv, ThreadsInv,
      WaitInv, InTurn, Live, NodesInv, NodeInv, AppsInv
<1>7. CASE Scan
  <2>1. KindsInv
    BY DEF IInv
  <2>2. OnlyMarked /\ UNCHANGED <<app, rpc, rcv, devVars, plugVars>> /\ snd.pc = "scan"
    BY <1>7, TurnKept, <2>1, ScanFacts
  <2>3. CASE snd' = snd /\ work_list' = work_list
    BY <1>7, TurnKept, <2>2, <2>3 DEF OnlyMarked, ToFree, devVars, plugVars, Tidy, IInv, KindsInv,
        PlacesInv, ThreadsInv, WaitInv, InTurn, Live, NodesInv, NodeInv, AppsInv
  <2>4. ASSUME NEW s \in Sessions, InList(s), ~ nod[s].freeflag, ~ nod'[s].freeflag,
               nod[s].sta # "wait_usb_close",
               snd' = [snd EXCEPT !.pc = "picked", !.node = s], work_list' = work_list
        PROVE  WaitInv'
    BY <1>7, TurnKept, <2>2, <2>4 DEF OnlyMarked, ToFree, devVars, plugVars, Tidy, IInv, KindsInv,
        PlacesInv, ThreadsInv, WaitInv, InTurn, Live, NodesInv, NodeInv, AppsInv
  <2>5. ASSUME NEW s \in Sessions, InList(s), nod[s].freeflag,
               snd' = [snd EXCEPT !.pc = "free", !.node = s],
               work_list' \in Seq(Sessions), IsInjective(work_list'),
               ToSet(work_list') = ToSet(work_list) \ {s}
        PROVE  WaitInv'
    BY <1>7, TurnKept, <2>2, <2>5 DEF OnlyMarked, ToFree, devVars, plugVars, Tidy, IInv, KindsInv,
        PlacesInv, ThreadsInv, WaitInv, InTurn, Live, NodesInv, NodeInv, AppsInv
  <2> QED
    BY <1>7, TurnKept, <2>1, <2>3, <2>4, <2>5, ScanFacts
<1>8. CASE Recheck
  BY <1>8, TurnKept
  DEF Recheck, nodeVars, devVars, plugVars, Tidy, IInv, KindsInv, PlacesInv, ThreadsInv, WaitInv,
      InTurn, Live, NodesInv, NodeInv, AppsInv
<1>9. CASE PackMake
  <2>1. KindsInv
    BY DEF IInv
  <2>2. /\ snd.pc = "make" /\ snd.node \in Sessions
        /\ UNCHANGED <<app, rpc, work_list, rcv, fromDev, devOpen, plugVars>>
    BY <1>9, TurnKept, <2>1, PackFacts
  <2>3. CASE /\ ~ nod[snd.node].freeflag /\ nod[snd.node].sta = "need_send_cmd"
             /\ nod' = [nod EXCEPT ![snd.node].sta = "wait_usb_cmd"]
             /\ snd' = snd /\ (plug = "in" => toDev' = Append(toDev, "open"))
    BY <1>9, TurnKept, <2>2, <2>3 DEF devVars, plugVars, Tidy, IInv, KindsInv, PlacesInv,
        ThreadsInv, WaitInv, InTurn, Live, NodesInv, NodeInv, AppsInv
  <2>4. CASE /\ ~ nod[snd.node].freeflag /\ nod[snd.node].sta = "need_send_close"
             /\ nod[snd.node].has_opened
             /\ nod' = [nod EXCEPT ![snd.node].sta = "wait_usb_close"]
             /\ snd' = snd /\ (plug = "in" => toDev' = Append(toDev, "close"))
    BY <1>9, TurnKept, <2>2, <2>4 DEF devVars, plugVars, Tidy, IInv, KindsInv, PlacesInv,
        ThreadsInv, WaitInv, InTurn, Live, NodesInv, NodeInv, AppsInv
  <2>5. CASE OnlyMarked /\ snd' = [snd EXCEPT !.pc = "scan"] /\ toDev' = toDev
    BY <1>9, TurnKept, <2>2, <2>5 DEF OnlyMarked, ToFree, devVars, plugVars, Tidy, IInv, KindsInv,
        PlacesInv, ThreadsInv, WaitInv, InTurn, Live, NodesInv, NodeInv, AppsInv
  <2> QED
    BY <1>9, TurnKept, <2>1, <2>3, <2>4, <2>5, PackFacts
<1>10. CASE Deinit
  BY <1>10, TurnKept
  DEF Deinit, nodeVars, devVars, plugVars, Tidy, IInv, KindsInv, PlacesInv, ThreadsInv, WaitInv,
      InTurn, Live, NodesInv, NodeInv, AppsInv
<1>11. CASE DeinitRpc
  BY <1>11, TurnKept
  DEF DeinitRpc, nodeVars, devVars, plugVars, Tidy, IInv, KindsInv, PlacesInv, ThreadsInv, WaitInv,
      InTurn, Live, NodesInv, NodeInv, AppsInv
<1>12. CASE RecvFind
  BY <1>12, TurnKept
  DEF RecvFind, nodeVars, devVars, plugVars, Tidy, IInv, KindsInv, PlacesInv, ThreadsInv, WaitInv,
      InTurn, Live, NodesInv, NodeInv, AppsInv
<1>13. CASE RecvClosed
  BY <1>13, TurnKept
  DEF RecvClosed, nodeVars, devVars, plugVars, Tidy, IInv, KindsInv, PlacesInv, ThreadsInv,
      WaitInv, InTurn, Live, NodesInv, NodeInv, AppsInv
<1>14. CASE RecvOpened
  <2>0. KindsInv
    BY DEF IInv
  <2>1. /\ UNCHANGED <<app, rpc, setup>>
        /\ \A s \in Sessions :
             /\ nod'[s].mem = nod[s].mem
             /\ nod'[s].sta = nod[s].sta \/ nod'[s].sta = "need_send_close"
    BY <1>14, <2>0, OpenedFacts DEF plugVars, KindsInv, PlacesInv, Node
  <2>2. InTurn' => InTurn
    BY <2>1 DEF InTurn
  <2> QED
    BY <2>1, <2>2 DEF IInv, WaitInv, Live
<1>15. CASE RecvAnswer
  <2>0. KindsInv
    BY DEF IInv
  <2>1. rcv.node \in Sessions /\ rcv.pc = "answer" /\ UNCHANGED <<rpc, setup>>
    BY <1>15, <2>0, AnswerFacts DEF plugVars
  <2>2. InTurn' => InTurn /\ rpc[rcv.node].pc \notin {"none", "start"}
    BY <2>1, TurnKept DEF IInv, HandsInv
  <2>3. \A s \in Sessions : s # rcv.node => nod'[s] = nod[s] /\ app'[s] = app[s]
    BY <1>15, <2>0, AnswerFacts DEF Told, KindsInv, PlacesInv
  <2>4. nod'[rcv.node].sta \in {"can_send_data", "not_init"}
    BY <1>15, <2>0, AnswerFacts
  <2> QED
    BY <2>1, <2>2, <2>3, <2>4 DEF IInv, WaitInv, Live
<1>16. CASE DevOpen
  BY <1>16, TurnKept
  DEF DevOpen, nodeVars, devVars, plugVars, Tidy, IInv, KindsInv, PlacesInv, ThreadsInv, WaitInv,
      InTurn, Live, NodesInv, NodeInv, AppsInv
<1>17. CASE DevClose
  BY <1>17, TurnKept
  DEF DevClose, nodeVars, devVars, plugVars, Tidy, IInv, KindsInv, PlacesInv, ThreadsInv, WaitInv,
      InTurn, Live, NodesInv, NodeInv, AppsInv
<1>18. CASE Unplug
  BY <1>18, TurnKept
  DEF Unplug, nodeVars, devVars, plugVars, Tidy, IInv, KindsInv, PlacesInv, ThreadsInv, WaitInv,
      InTurn, Live, NodesInv, NodeInv, AppsInv
<1>19. CASE TearDown
  BY <1>19, TurnKept
  DEF TearDown, nodeVars, devVars, plugVars, Tidy, IInv, KindsInv, PlacesInv, ThreadsInv, WaitInv,
      InTurn, Live, NodesInv, NodeInv, AppsInv
<1>20. CASE TearDownDone
  BY <1>20, TurnKept
  DEF TearDownDone, nodeVars, devVars, plugVars, Tidy, IInv, KindsInv, PlacesInv, ThreadsInv,
      WaitInv, InTurn, Live, NodesInv, NodeInv, AppsInv
<1>22. CASE RecvNotify
  BY <1>22, TurnKept
  DEF RecvNotify, RecvDone, nodeVars, devVars, plugVars, Tidy, IInv, KindsInv, PlacesInv, ThreadsInv,
      WaitInv, InTurn, Live, NodesInv, NodeInv, AppsInv
<1>21. CASE UNCHANGED vars
  BY <1>21, TurnKept
  DEF vars, nodeVars, devVars, plugVars, Tidy, IInv, KindsInv, PlacesInv, ThreadsInv, WaitInv,
      InTurn, Live, NodesInv, NodeInv, AppsInv
<1> QED
  BY <1>1, <1>2, <1>3, <1>4, <1>5, <1>6, <1>7, <1>8, <1>9, <1>10, <1>11, <1>12, <1>13, <1>14,
      <1>15, <1>16, <1>17, <1>18, <1>19, <1>20, <1>21, <1>22
  DEF Next, Rpc, SendThread, RecvThread, Device, Poll

(* Every step keeps a waiting node for the so_open on its way.             *)
LEMMA NextAsked ==
  ASSUME IInv, [Next]_vars
  PROVE  AskedInv'
<1>1. ASSUME NEW s \in Sessions, Connect(s) PROVE AskedInv'
  BY <1>1, TurnKept
  DEF Connect, nodeVars, devVars, plugVars, Tidy, IInv, KindsInv, PlacesInv, ThreadsInv, AskedInv,
      WaitInv, InTurn, OpenPiped, Waiting, Live, NodesInv, NodeInv, AppsInv
<1>2. ASSUME NEW s \in Sessions, Close(s) PROVE AskedInv'
  BY <1>2, TurnKept
  DEF Close, nodeVars, devVars, plugVars, Tidy, IInv, KindsInv, PlacesInv, ThreadsInv, AskedInv,
      WaitInv, InTurn, OpenPiped, Waiting, Live, NodesInv, NodeInv, AppsInv
<1>3. ASSUME NEW s \in Sessions, RpcStart(s) PROVE AskedInv'
  BY <1>3, TurnKept
  DEF RpcStart, nodeVars, devVars, plugVars, Tidy, IInv, KindsInv, PlacesInv, ThreadsInv, AskedInv,
      WaitInv, InTurn, OpenPiped, Waiting, Live, NodesInv, NodeInv, AppsInv
<1>4. ASSUME NEW s \in Sessions, RpcOpen(s) PROVE AskedInv'
  BY <1>4, TurnKept
  DEF RpcOpen, nodeVars, devVars, plugVars, Tidy, IInv, KindsInv, PlacesInv, ThreadsInv, AskedInv,
      WaitInv, InTurn, OpenPiped, Waiting, Live, NodesInv, NodeInv, AppsInv, AppInv
<1>5. ASSUME NEW s \in Sessions, RpcEnd(s) PROVE AskedInv'
  BY <1>5, TurnKept
  DEF RpcEnd, nodeVars, devVars, plugVars, Tidy, IInv, KindsInv, PlacesInv, ThreadsInv, AskedInv,
      WaitInv, InTurn, OpenPiped, Waiting, Live, NodesInv, NodeInv, AppsInv
<1>6. ASSUME NEW s \in Sessions, RpcEndNode(s) PROVE AskedInv'
  BY <1>6, TurnKept
  DEF RpcEndNode, nodeVars, devVars, plugVars, Tidy, IInv, KindsInv, PlacesInv, ThreadsInv,
      AskedInv, WaitInv, InTurn, OpenPiped, Waiting, Live, NodesInv, NodeInv, AppsInv, AppInv
<1>7. CASE Scan
  <2>1. KindsInv
    BY DEF IInv
  <2>2. OnlyMarked /\ UNCHANGED <<app, rpc, rcv, devVars, plugVars>> /\ snd.pc = "scan"
    BY <1>7, TurnKept, <2>1, ScanFacts
  <2>3. CASE snd' = snd /\ work_list' = work_list
    BY <1>7, TurnKept, <2>2, <2>3 DEF OnlyMarked, ToFree, devVars, plugVars, Tidy, IInv, KindsInv,
        PlacesInv, ThreadsInv, AskedInv, WaitInv, InTurn, OpenPiped, Waiting, Live, NodesInv,
        NodeInv, AppsInv
  <2>4. ASSUME NEW s \in Sessions, InList(s), ~ nod[s].freeflag, ~ nod'[s].freeflag,
               nod[s].sta # "wait_usb_close",
               snd' = [snd EXCEPT !.pc = "picked", !.node = s], work_list' = work_list
        PROVE  AskedInv'
    BY <1>7, TurnKept, <2>2, <2>4 DEF OnlyMarked, ToFree, devVars, plugVars, Tidy, IInv, KindsInv,
        PlacesInv, ThreadsInv, AskedInv, WaitInv, InTurn, OpenPiped, Waiting, Live, NodesInv,
        NodeInv, AppsInv, Node
  <2>5. ASSUME NEW s \in Sessions, InList(s), nod[s].freeflag,
               snd' = [snd EXCEPT !.pc = "free", !.node = s],
               work_list' \in Seq(Sessions), IsInjective(work_list'),
               ToSet(work_list') = ToSet(work_list) \ {s}
        PROVE  AskedInv'
    BY <1>7, TurnKept, <2>2, <2>5 DEF OnlyMarked, ToFree, devVars, plugVars, Tidy, IInv, KindsInv,
        PlacesInv, ThreadsInv, AskedInv, WaitInv, InTurn, OpenPiped, Waiting, Live, NodesInv,
        NodeInv, AppsInv
  <2> QED
    BY <1>7, TurnKept, <2>1, <2>3, <2>4, <2>5, ScanFacts
<1>8. CASE Recheck
  BY <1>8, TurnKept
  DEF Recheck, nodeVars, devVars, plugVars, Tidy, IInv, KindsInv, PlacesInv, ThreadsInv, AskedInv,
      WaitInv, InTurn, OpenPiped, Waiting, Live, NodesInv, NodeInv, AppsInv
<1>9. CASE PackMake
  <2>1. KindsInv
    BY DEF IInv
  <2>2. /\ snd.pc = "make" /\ snd.node \in Sessions
        /\ UNCHANGED <<app, rpc, work_list, rcv, fromDev, devOpen, plugVars>>
    BY <1>9, TurnKept, <2>1, PackFacts
  <2>3. CASE /\ ~ nod[snd.node].freeflag /\ nod[snd.node].sta = "need_send_cmd"
             /\ nod' = [nod EXCEPT ![snd.node].sta = "wait_usb_cmd"]
             /\ snd' = snd /\ (plug = "in" => toDev' = Append(toDev, "open"))
    <3>1. InTurn' => InTurn /\ Tidy /\ Live(snd.node)
      BY <2>2, TurnKept DEF plugVars, IInv, HandsInv
    <3>2. InTurn' => toDev = <<>> /\ fromDev = <<>> /\ rcv.pc \notin {"proc", "answer"} /\ plug = "in"
      BY <2>2, <2>3, <3>1, NothingPiped DEF Tidy
    <3>3. /\ Len(Append(<<>>, "open")) = 1 /\ ToSet(Append(<<>>, "open")) = {"open"}
          /\ Len(<<>>) = 0 /\ ToSet(<<>>) = {}
      BY SingleFacts, EmptyFacts
    <3>4. InTurn' => /\ toDev' = Append(<<>>, "open") /\ fromDev' = <<>> /\ rcv'.pc \notin {"proc", "answer"}
      BY <2>2, <2>3, <3>2
    <3>5. nod'[snd.node].mem = nod[snd.node].mem /\ nod'[snd.node].sta = "wait_usb_cmd"
      BY <2>2, <2>3 DEF IInv, KindsInv, PlacesInv
    <3>6. InTurn' => Waiting(snd.node)'
      BY <2>2, <2>3, <3>1, <3>2, <3>5 DEF Waiting, Live
    <3> QED
      BY <2>2, <2>3, <3>6 DEF AskedInv
  <2>4. CASE /\ ~ nod[snd.node].freeflag /\ nod[snd.node].sta = "need_send_close"
             /\ nod[snd.node].has_opened
             /\ nod' = [nod EXCEPT ![snd.node].sta = "wait_usb_close"]
             /\ snd' = snd /\ (plug = "in" => toDev' = Append(toDev, "close"))
    <3>1. InTurn' => InTurn /\ Tidy /\ Live(snd.node)
      BY <2>2, TurnKept DEF plugVars, IInv, HandsInv
    <3>2. InTurn' => toDev = <<>> /\ fromDev = <<>> /\ rcv.pc \notin {"proc", "answer"} /\ plug = "in"
      BY <2>2, <2>4, <3>1, NothingPiped DEF Tidy
    <3>3. /\ Len(Append(<<>>, "close")) = 1 /\ ToSet(Append(<<>>, "close")) = {"close"}
          /\ Len(<<>>) = 0 /\ ToSet(<<>>) = {}
      BY SingleFacts, EmptyFacts
    <3>4. InTurn' => /\ toDev' = Append(<<>>, "close") /\ fromDev' = <<>> /\ rcv'.pc \notin {"proc", "answer"}
      BY <2>2, <2>4, <3>2
    <3>5. InTurn' => ToSet(toDev') = {"close"} /\ ToSet(fromDev') = {} /\ rcv'.pc \notin {"proc", "answer"}
      BY <3>3, <3>4
    <3> QED
      BY <3>5 DEF AskedInv, OpenPiped
  <2>5. CASE OnlyMarked /\ snd' = [snd EXCEPT !.pc = "scan"] /\ toDev' = toDev
    BY <1>9, TurnKept, <2>2, <2>5 DEF OnlyMarked, ToFree, devVars, plugVars, Tidy, IInv, KindsInv,
        PlacesInv, ThreadsInv, AskedInv, WaitInv, InTurn, OpenPiped, Waiting, Live, NodesInv,
        NodeInv, AppsInv, AppInv
  <2> QED
    BY <1>9, TurnKept, <2>1, <2>3, <2>4, <2>5, PackFacts
<1>10. CASE Deinit
  BY <1>10, TurnKept
  DEF Deinit, nodeVars, devVars, plugVars, Tidy, IInv, KindsInv, PlacesInv, ThreadsInv, AskedInv,
      WaitInv, InTurn, OpenPiped, Waiting, Live, NodesInv, NodeInv, AppsInv
<1>11. CASE DeinitRpc
  <2>1. /\ snd.node \in Sessions /\ snd.pc = "freed" /\ UNCHANGED <<rcv, toDev, fromDev, setup>>
        /\ \A t \in Sessions : t # snd.node => nod'[t] = nod[t]
    BY <1>11 DEF DeinitRpc, devVars, IInv, KindsInv, ThreadsInv
  <2>2. InTurn' => InTurn /\ nod[snd.node].freeflag
    BY <2>1, TurnKept DEF IInv, HandsInv
  <2>3. ASSUME NEW t \in Sessions, InTurn', Waiting(t) PROVE Waiting(t)'
    <3>1. t # snd.node
      BY <2>2, <2>3, WaitingFacts DEF Waiting
    <3> QED
      BY <2>1, <2>3, <3>1 DEF Waiting, Live
  <2>4. OpenPiped' => OpenPiped
    BY <2>1 DEF OpenPiped
  <2> QED
    BY <2>2, <2>3, <2>4 DEF IInv, AskedInv
<1>12. CASE RecvFind
  <2>0. KindsInv /\ fromDev \in Seq(Replies)
    BY DEF IInv, KindsInv, QueuesInv
  <2>1. /\ rcv.pc = "idle" /\ fromDev # <<>> /\ fromDev' = Tail(fromDev)
        /\ UNCHANGED <<nod, toDev, devOpen, setup>>
        /\ rcv' = rcv \/ (\E n \in Sessions :
               InList(n) /\ rcv' = [pc |-> "proc", node |-> n, pack |-> Head(fromDev)])
    BY <1>12, <2>0, FindFacts DEF nodeVars, plugVars
  <2>2. ToSet(fromDev) = {Head(fromDev)} \cup ToSet(Tail(fromDev))
    BY <2>0, <2>1, QueueFacts
  <2>3. InTurn' => InTurn /\ Tidy
    BY <2>1, TurnKept
  <2>4. OpenPiped' => OpenPiped
    BY <2>1, <2>2 DEF OpenPiped
  <2>5. ASSUME NEW s \in Sessions, InTurn', Waiting(s) PROVE Waiting(s)'
    <3>1. \A n \in Sessions : InList(n) => n = s
      BY <2>3, <2>5, OneAlive DEF Waiting, IInv, NodesInv, NodeInv
    <3> QED
      BY <2>1, <2>5, <3>1 DEF Waiting, Live
  <2> QED
    BY <2>3, <2>4, <2>5 DEF IInv, AskedInv
<1>13. CASE RecvClosed
  BY <1>13, TurnKept
  DEF RecvClosed, nodeVars, devVars, plugVars, Tidy, IInv, KindsInv, PlacesInv, ThreadsInv,
      AskedInv, WaitInv, InTurn, OpenPiped, Waiting, Live, NodesInv, NodeInv, AppsInv, RecvDone
<1>14. CASE RecvOpened
  BY <1>14, TurnKept
  DEF RecvOpened, nodeVars, devVars, plugVars, Tidy, IInv, KindsInv, PlacesInv, ThreadsInv,
      AskedInv, WaitInv, InTurn, OpenPiped, Waiting, Live, NodesInv, NodeInv, AppsInv, AppInv,
      RecvDone
<1>15. CASE RecvAnswer
  <2>0. KindsInv
    BY DEF IInv
  <2>1. rcv.pc = "answer" /\ rcv'.pc = "idle" /\ UNCHANGED <<toDev, fromDev, setup>>
    BY <1>15, <2>0, AnswerFacts DEF devVars, plugVars
  <2>2. InTurn' => toDev' = <<>> /\ fromDev' = <<>>
    BY <2>1, TurnKept DEF IInv, OneInv
  <2> QED
    BY <2>1, <2>2, EmptyFacts DEF AskedInv, OpenPiped
<1>16. CASE DevOpen
  <2>0. KindsInv /\ toDev \in Seq({"open", "close"}) /\ fromDev \in Seq(Replies)
    BY DEF IInv, KindsInv, QueuesInv
  <2>1. toDev # <<>> /\ Head(toDev) = "open" /\ UNCHANGED <<nod, rcv, setup>>
    BY <1>16, <2>0, DeviceFacts DEF nodeVars, plugVars
  <2>2. InTurn' => InTurn /\ Tidy
    BY <2>1, TurnKept
  <2>3. OpenPiped
    BY <2>0, <2>1, QueueFacts DEF OpenPiped
  <2> QED
    BY <2>1, <2>2, <2>3 DEF IInv, AskedInv, Waiting, Live
<1>17. CASE DevClose
  <2>0. KindsInv /\ toDev \in Seq({"open", "close"}) /\ fromDev \in Seq(Replies)
    BY DEF IInv, KindsInv, QueuesInv
  <2>1. /\ toDev # <<>> /\ toDev' = Tail(toDev) /\ fromDev' = Append(fromDev, Closed)
        /\ UNCHANGED <<rcv, setup>>
    BY <1>17 DEF DevClose, plugVars
  <2>2. InTurn' => Len(toDev) <= 1 /\ fromDev = <<>> /\ rcv.pc \notin {"proc", "answer"}
    BY <2>1, TurnKept DEF IInv, OneInv
  <2>3. InTurn' => ToSet(toDev') = {}
    BY <2>0, <2>1, <2>2, ShortQueue, EmptyFacts
  <2>4. InTurn' => ToSet(fromDev') = {Closed}
    <3>1. Closed \in Replies /\ ToSet(<<>>) = {}
      BY EmptyFacts DEF Replies
    <3>2. ToSet(Append(fromDev, Closed)) = ToSet(fromDev) \cup {Closed}
      BY <2>0, <3>1, AppendFacts
    <3> QED
      BY <2>1, <2>2, <3>1, <3>2
  <2> QED
    BY <2>1, <2>2, <2>3, <2>4, ReplyFacts DEF AskedInv, OpenPiped
<1>18. CASE Unplug
  BY <1>18, TurnKept
  DEF Unplug, nodeVars, devVars, plugVars, Tidy, IInv, KindsInv, PlacesInv, ThreadsInv, AskedInv,
      WaitInv, InTurn, OpenPiped, Waiting, Live, NodesInv, NodeInv, AppsInv
<1>19. CASE TearDown
  BY <1>19, TurnKept
  DEF TearDown, nodeVars, devVars, plugVars, Tidy, IInv, KindsInv, PlacesInv, ThreadsInv, AskedInv,
      WaitInv, InTurn, OpenPiped, Waiting, Live, NodesInv, NodeInv, AppsInv
<1>20. CASE TearDownDone
  BY <1>20, TurnKept
  DEF TearDownDone, nodeVars, devVars, plugVars, Tidy, IInv, KindsInv, PlacesInv, ThreadsInv,
      AskedInv, WaitInv, InTurn, OpenPiped, Waiting, Live, NodesInv, NodeInv, AppsInv
<1>22. CASE RecvNotify
  BY <1>22, TurnKept
  DEF RecvNotify, RecvDone, nodeVars, devVars, plugVars, Tidy, IInv, KindsInv, PlacesInv, ThreadsInv,
      AskedInv, WaitInv, InTurn, OpenPiped, Waiting, Live, NodesInv, NodeInv, AppsInv
<1>21. CASE UNCHANGED vars
  BY <1>21, TurnKept
  DEF vars, nodeVars, devVars, plugVars, Tidy, IInv, KindsInv, PlacesInv, ThreadsInv, AskedInv,
      WaitInv, InTurn, OpenPiped, Waiting, Live, NodesInv, NodeInv, AppsInv
<1> QED
  BY <1>1, <1>2, <1>3, <1>4, <1>5, <1>6, <1>7, <1>8, <1>9, <1>10, <1>11, <1>12, <1>13, <1>14,
      <1>15, <1>16, <1>17, <1>18, <1>19, <1>20, <1>21, <1>22
  DEF Next, Rpc, SendThread, RecvThread, Device, Poll

(* Every step keeps a node for an open socket of the device.               *)
LEMMA NextOwned ==
  ASSUME IInv, [Next]_vars
  PROVE  OwnedInv'
<1>1. ASSUME NEW s \in Sessions, Connect(s) PROVE OwnedInv'
  BY <1>1, TurnKept
  DEF Connect, nodeVars, devVars, plugVars, Tidy, IInv, KindsInv, PlacesInv, ThreadsInv, OwnedInv,
      InTurn, Owner, Got, Live
<1>2. ASSUME NEW s \in Sessions, Close(s) PROVE OwnedInv'
  BY <1>2, TurnKept
  DEF Close, nodeVars, devVars, plugVars, Tidy, IInv, KindsInv, PlacesInv, ThreadsInv, OwnedInv,
      InTurn, Owner, Got, Live
<1>3. ASSUME NEW s \in Sessions, RpcStart(s) PROVE OwnedInv'
  BY <1>3, TurnKept
  DEF RpcStart, nodeVars, devVars, plugVars, Tidy, IInv, KindsInv, PlacesInv, ThreadsInv, OwnedInv,
      InTurn, Owner, Got, Live
<1>4. ASSUME NEW s \in Sessions, RpcOpen(s) PROVE OwnedInv'
  BY <1>4, TurnKept
  DEF RpcOpen, nodeVars, devVars, plugVars, Tidy, IInv, KindsInv, PlacesInv, ThreadsInv, OwnedInv,
      InTurn, Owner, Got, Live, NodesInv, Node
<1>5. ASSUME NEW s \in Sessions, RpcEnd(s) PROVE OwnedInv'
  BY <1>5, TurnKept
  DEF RpcEnd, nodeVars, devVars, plugVars, Tidy, IInv, KindsInv, PlacesInv, ThreadsInv, OwnedInv,
      InTurn, Owner, Got, Live
<1>6. ASSUME NEW s \in Sessions, RpcEndNode(s) PROVE OwnedInv'
  BY <1>6, TurnKept
  DEF RpcEndNode, nodeVars, devVars, plugVars, Tidy, IInv, KindsInv, PlacesInv, ThreadsInv,
      OwnedInv, InTurn, Owner, Got, Live
<1>7. CASE Scan
  <2>1. OnlyMarked /\ UNCHANGED <<rcv, fromDev, devOpen, setup>>
    BY <1>7, ScanFacts DEF IInv, devVars, plugVars
  <2>2. InTurn' => InTurn
    BY <2>1 DEF InTurn
  <2>3. ASSUME NEW s \in Sessions, InTurn', Owner(s) PROVE Owner(s)'
    <3>1. ~ nod'[s].freeflag
      BY <2>1, <2>2, <2>3, OwnerKept
    <3> QED
      BY <2>1, <2>3, <3>1 DEF OnlyMarked, Owner, Live, Got
  <2> QED
    BY <2>1, <2>2, <2>3 DEF IInv, OwnedInv
<1>8. CASE Recheck
  BY <1>8, TurnKept
  DEF Recheck, nodeVars, devVars, plugVars, Tidy, IInv, KindsInv, PlacesInv, ThreadsInv, OwnedInv,
      InTurn, Owner, Got, Live
<1>9. CASE PackMake
  <2>1. KindsInv
    BY DEF IInv
  <2>2. /\ snd.pc = "make" /\ snd.node \in Sessions
        /\ UNCHANGED <<app, rpc, work_list, rcv, fromDev, devOpen, plugVars>>
    BY <1>9, TurnKept, <2>1, PackFacts
  <2>3. CASE /\ ~ nod[snd.node].freeflag /\ nod[snd.node].sta = "need_send_cmd"
             /\ nod' = [nod EXCEPT ![snd.node].sta = "wait_usb_cmd"]
             /\ snd' = snd /\ (plug = "in" => toDev' = Append(toDev, "open"))
    BY <1>9, TurnKept, <2>2, <2>3 DEF devVars, plugVars, Tidy, IInv, KindsInv, PlacesInv,
        ThreadsInv, OwnedInv, InTurn, Owner, Got, Live
  <2>4. CASE /\ ~ nod[snd.node].freeflag /\ nod[snd.node].sta = "need_send_close"
             /\ nod[snd.node].has_opened
             /\ nod' = [nod EXCEPT ![snd.node].sta = "wait_usb_close"]
             /\ snd' = snd /\ (plug = "in" => toDev' = Append(toDev, "close"))
    BY <1>9, TurnKept, <2>2, <2>4 DEF devVars, plugVars, Tidy, IInv, KindsInv, PlacesInv,
        ThreadsInv, OwnedInv, InTurn, Owner, Got, Live
  <2>5. CASE OnlyMarked /\ snd' = [snd EXCEPT !.pc = "scan"] /\ toDev' = toDev
    <3>1. InTurn' => InTurn
      BY <2>2 DEF plugVars, InTurn
    <3>2. ASSUME NEW s \in Sessions, InTurn', Owner(s) PROVE Owner(s)'
      <4>1. ~ nod'[s].freeflag
        BY <2>5, <3>1, <3>2, OwnerKept
      <4> QED
        BY <2>2, <2>5, <3>2, <4>1 DEF OnlyMarked, Owner, Live, Got
    <3> QED
      BY <2>2, <3>1, <3>2 DEF IInv, OwnedInv
  <2> QED
    BY <1>9, TurnKept, <2>1, <2>3, <2>4, <2>5, PackFacts
<1>10. CASE Deinit
  BY <1>10, TurnKept
  DEF Deinit, nodeVars, devVars, plugVars, Tidy, IInv, KindsInv, PlacesInv, ThreadsInv, OwnedInv,
      InTurn, Owner, Got, Live
<1>11. CASE DeinitRpc
  <2>1. /\ snd.node \in Sessions /\ snd.pc = "freed" /\ UNCHANGED <<rcv, fromDev, devOpen, setup>>
        /\ \A t \in Sessions : t # snd.node => nod'[t] = nod[t]
    BY <1>11 DEF DeinitRpc, devVars, IInv, KindsInv, ThreadsInv
  <2>2. InTurn' => InTurn /\ nod[snd.node].freeflag
    BY <2>1, TurnKept DEF IInv, HandsInv
  <2>3. ASSUME NEW t \in Sessions, InTurn', Owner(t) PROVE Owner(t)'
    BY <2>1, <2>2, <2>3 DEF Owner, Live, Got
  <2> QED
    BY <2>1, <2>2, <2>3 DEF IInv, OwnedInv
<1>12. CASE RecvFind
  <2>0. KindsInv /\ fromDev \in Seq(Replies)
    BY DEF IInv, KindsInv, QueuesInv
  <2>1. /\ rcv.pc = "idle" /\ fromDev # <<>> /\ fromDev' = Tail(fromDev)
        /\ UNCHANGED <<nod, toDev, devOpen, setup>>
        /\ rcv' = rcv \/ (\E n \in Sessions :
               InList(n) /\ rcv' = [pc |-> "proc", node |-> n, pack |-> Head(fromDev)])
    BY <1>12, <2>0, FindFacts DEF nodeVars, plugVars
  <2>2. ToSet(fromDev) = {Head(fromDev)} \cup ToSet(Tail(fromDev))
    BY <2>0, <2>1, QueueFacts
  <2>3. InTurn' => InTurn /\ Tidy
    BY <2>1, TurnKept
  <2>4. ASSUME InTurn', Head(fromDev) = Open(0) PROVE Got(Open(0))'
    <3>1. OpenPiped
      BY <2>2, <2>4 DEF OpenPiped, OpenReplies
    <3>2. PICK t \in Sessions : Waiting(t)
      BY <2>3, <2>4, <3>1 DEF IInv, AskedInv
    <3>3. InList(t) /\ Takes(t, Head(fromDev))
      BY <2>3, <2>4, <3>2, WaitingFacts DEF Waiting, Takes
    <3> QED
      BY <1>12, <2>0, <2>4, <3>3, FindFacts DEF Got
  <2>5. ASSUME NEW s \in Sessions, InTurn', Owner(s) PROVE Owner(s)'
    BY <2>1, <2>2, <2>4, <2>5 DEF Owner, Live, Got
  <2> QED
    BY <2>1, <2>3, <2>5 DEF IInv, OwnedInv
<1>13. CASE RecvClosed
  <2>1. Got(Closed) /\ UNCHANGED <<devOpen, setup>>
    BY <1>13, ReplyFacts DEF RecvClosed, devVars, plugVars, Got, IInv, KindsInv, ThreadsInv
  <2>2. InTurn' => ~ devOpen
    BY <2>1, TurnKept DEF IInv, CloseInv
  <2> QED
    BY <2>1, <2>2 DEF OwnedInv
<1>14. CASE RecvOpened
  <2>0. KindsInv
    BY DEF IInv
  <2>1. /\ rcv.pc = "proc" /\ rcv.pack \in OpenReplies /\ UNCHANGED <<fromDev, devOpen, setup>>
    BY <1>14, <2>0, OpenedFacts DEF devVars, plugVars
  <2>2. InTurn' => InTurn
    BY <2>1 DEF InTurn
  <2>3. InTurn' => nod[rcv.node].sta = "wait_usb_cmd" /\ nod[rcv.node].sockrpc
    <3>1. ASSUME InTurn' PROVE \E t \in Sessions : Waiting(t)
      BY <2>1, <2>2, <3>1 DEF IInv, AskedInv, OpenPiped
    <3> QED
      BY <2>1, <2>2, <3>1, WaitingFacts DEF Waiting
  <2>4. InTurn' => nod' = nod /\ rcv' = [rcv EXCEPT !.pc = "answer"]
    BY <1>14, <2>0, <2>3, OpenedFacts
  <2>5. InTurn' => rcv'.pc = "answer" /\ rcv'.pack = rcv.pack
    BY <2>0, <2>4 DEF KindsInv, ThreadsInv
  <2>6. ASSUME NEW s \in Sessions, InTurn', Owner(s) PROVE Owner(s)'
    BY <2>1, <2>4, <2>5, <2>6 DEF Owner, Live, Got
  <2> QED
    BY <2>1, <2>2, <2>6 DEF IInv, OwnedInv
<1>15. CASE RecvAnswer
  <2>0. KindsInv
    BY DEF IInv
  <2>1. /\ rcv.pc = "answer" /\ rcv.pack \in OpenReplies /\ rcv.node \in Sessions
        /\ UNCHANGED <<fromDev, devOpen, setup>>
    BY <1>15, <2>0, AnswerFacts DEF devVars, plugVars
  <2>2. InTurn' => InTurn /\ Tidy
    BY <2>1, TurnKept
  <2>3. InTurn' => Live(rcv.node)
    BY <2>1, <2>2 DEF IInv, AskedInv, OpenPiped, Waiting
  <2>4. ASSUME NEW s \in Sessions, InTurn', Owner(s) PROVE Owner(s)'
    <3>1. s = rcv.node
      BY <2>2, <2>3, <2>1, <2>4, OneAlive DEF Owner
    <3>2. /\ nod'[s].mem = nod[s].mem /\ nod'[s].freeflag = nod[s].freeflag
          /\ nod'[s].has_opened <=> nod[s].has_opened \/ rcv.pack = Open(0)
      BY <1>15, <2>0, <3>1, AnswerFacts
    <3> QED
      BY <2>1, <2>4, <3>2 DEF Owner, Live, Got
  <2> QED
    BY <2>1, <2>2, <2>4 DEF IInv, OwnedInv
<1>16. CASE DevOpen
  <2>0. KindsInv /\ toDev \in Seq({"open", "close"}) /\ fromDev \in Seq(Replies)
    BY DEF IInv, KindsInv, QueuesInv
  <2>1. toDev # <<>> /\ Head(toDev) = "open" /\ UNCHANGED <<nod, rcv, setup>>
    BY <1>16, <2>0, DeviceFacts DEF nodeVars, plugVars
  <2>2. InTurn' => InTurn /\ Tidy
    BY <2>1, TurnKept
  <2>3. OpenPiped
    BY <2>0, <2>1, QueueFacts DEF OpenPiped
  <2>4. PICK x \in OpenReplies :
          fromDev' = Append(fromDev, x) /\ (devOpen' <=> devOpen \/ x = Open(0))
    BY <1>16, <2>0, DeviceFacts
  <2>5. ToSet(fromDev') = ToSet(fromDev) \cup {x}
    <3>1. x \in Replies
      BY ReplyFacts
    <3> QED
      BY <2>0, <2>4, <3>1, AppendFacts
  <2>6. CASE devOpen
    BY <2>1, <2>2, <2>5, <2>6 DEF IInv, OwnedInv, Owner, Live, Got
  <2>7. CASE x = Open(0)
    <3>1. ASSUME InTurn' PROVE \E t \in Sessions : Waiting(t)
      BY <2>2, <2>3, <3>1 DEF IInv, AskedInv
    <3>2. ASSUME NEW t \in Sessions, InTurn', Waiting(t) PROVE Live(t) /\ ~ nod[t].freeflag
      BY <2>2, <3>2, WaitingFacts DEF Waiting
    <3> QED
      BY <2>1, <2>5, <2>7, <3>1, <3>2 DEF OwnedInv, Owner, Live
  <2> QED
    BY <2>4, <2>6, <2>7 DEF OwnedInv
<1>17. CASE DevClose
  BY <1>17, TurnKept
  DEF DevClose, nodeVars, devVars, plugVars, Tidy, IInv, KindsInv, PlacesInv, ThreadsInv, OwnedInv,
      InTurn, Owner, Got, Live
<1>18. CASE Unplug
  BY <1>18, TurnKept
  DEF Unplug, nodeVars, devVars, plugVars, Tidy, IInv, KindsInv, PlacesInv, ThreadsInv, OwnedInv,
      InTurn, Owner, Got, Live
<1>19. CASE TearDown
  BY <1>19, TurnKept
  DEF TearDown, nodeVars, devVars, plugVars, Tidy, IInv, KindsInv, PlacesInv, ThreadsInv, OwnedInv,
      InTurn, Owner, Got, Live
<1>20. CASE TearDownDone
  BY <1>20, TurnKept
  DEF TearDownDone, nodeVars, devVars, plugVars, Tidy, IInv, KindsInv, PlacesInv, ThreadsInv,
      OwnedInv, InTurn, Owner, Got, Live
<1>22. CASE RecvNotify
  BY <1>22, TurnKept
  DEF RecvNotify, RecvDone, nodeVars, devVars, plugVars, Tidy, IInv, KindsInv, PlacesInv, ThreadsInv,
      OwnedInv, InTurn, Owner, Got, Live
<1>21. CASE UNCHANGED vars
  BY <1>21, TurnKept
  DEF vars, nodeVars, devVars, plugVars, Tidy, IInv, KindsInv, PlacesInv, ThreadsInv, OwnedInv,
      InTurn, Owner, Got, Live
<1> QED
  BY <1>1, <1>2, <1>3, <1>4, <1>5, <1>6, <1>7, <1>8, <1>9, <1>10, <1>11, <1>12, <1>13, <1>14,
      <1>15, <1>16, <1>17, <1>18, <1>19, <1>20, <1>21, <1>22
  DEF Next, Rpc, SendThread, RecvThread, Device, Poll

(* The invariant holds at the start, and every step keeps it.              *)
LEMMA InitIInv == Init => IInv
<1> SUFFICES ASSUME Init PROVE IInv
  OBVIOUS
<1>1. KindsInv
  <2>1. PlacesInv
    BY SetupsAssumption DEF Init, PlacesInv, Connection, Node
  <2>2. ThreadsInv
    BY DEF Init, ThreadsInv, Replies
  <2>3. ListInv /\ QueuesInv
    BY EmptyFacts DEF Init, ListInv, QueuesInv, InList
  <2> QED
    BY <2>1, <2>2, <2>3 DEF KindsInv
<1>2. \A s \in Sessions : Gone(s) /\ ~ Live(s) /\ ~ InList(s)
  BY EmptyFacts DEF Init, Gone, Live, InList
<1>3. SerialInv /\ AppsInv /\ NodesInv
  BY <1>2 DEF Init, SerialInv, AppsInv, AppInv, NodesInv, NodeInv
<1>4. ~ ClosePiped /\ ~ OpenPiped /\ \A x \in Replies : ~ Got(x)
  BY EmptyFacts DEF Init, ClosePiped, OpenPiped, Got
<1>5. HandsInv /\ WaitInv /\ OwnedInv /\ AskedInv
  BY <1>2, <1>4 DEF Init, HandsInv, WaitInv, OwnedInv, AskedInv
<1>6. CloseInv /\ OpenInv /\ OneInv
  BY <1>2, <1>4, EmptyFacts DEF Init, CloseInv, OpenInv, OneInv, Replies
<1> QED
  BY <1>1, <1>3, <1>5, <1>6 DEF IInv

(* The invariant is inductive.                                             *)
LEMMA NextIInv == IInv /\ [Next]_vars => IInv'
<1> SUFFICES ASSUME IInv, [Next]_vars PROVE IInv'
  OBVIOUS
<1>1. KindsInv'
  BY NextPlaces, NextThreads, NextList, NextQueues DEF KindsInv
<1> QED
  BY <1>1, NextSerial, NextApps, NextNodes, NextHands, NextClose, NextOpen, NextOne,
     NextWait, NextAsked, NextOwned
  DEF IInv

(* The state invariant of every behaviour.                                 *)
LEMMA Invariant == Spec => []IInv
<1> QED
  BY InitIInv, NextIInv, PTL DEF Spec

-----------------------------------------------------------------------------
(* While sessions take turns no thread uses a node that was freed: not     *)
(* sock_rpc_nod_start's list, not the receive thread with a reply it found *)
(* a node for, not the two halves of sock_rpc_node_end and of              *)
(* sock_dev_deinit.                                                        *)
THEOREM Nodes == Spec => []NodesSafe
<1>1. IInv => NodesSafe
  <2> SUFFICES ASSUME IInv PROVE NodesSafe
    OBVIOUS
  <2>1. TypeOK
    BY KindsTypeOK DEF IInv
  <2>2. ASSUME InTurn PROVE HeldNodesAlive
    <3>1. Tidy
      BY <2>2, TurnTidy
    <3>2. ASSUME NEW s \in ToSet(work_list) PROVE Live(s)
      <4>1. s \in Sessions /\ InList(s)
        BY <2>1 DEF TypeOK, InList
      <4> QED
        BY <3>1, <4>1 DEF IInv, NodesInv, NodeInv
    <3>3. snd.pc # "scan" => Live(snd.node)
      BY <3>1 DEF IInv, HandsInv
    <3>4. ASSUME rcv.pc \in {"proc", "answer"} PROVE Live(rcv.node)
      <4>1. CASE Got(Closed)
        BY <3>1, <4>1 DEF IInv, CloseInv
      <4>2. CASE ~ Got(Closed)
        <5>1. OpenPiped
          BY <3>4, <4>2, ReplyFacts DEF OpenPiped, Got, IInv, KindsInv, ThreadsInv
        <5> QED
          BY <2>2, <3>4, <5>1 DEF IInv, AskedInv, Waiting
      <4> QED
        BY <4>1, <4>2
    <3>5. ASSUME NEW s \in Sessions
          PROVE  /\ rpc[s].sockdev \/ rpc[s].pc = "end" => Live(s)
                 /\ Live(s) /\ nod[s].sockrpc => rpc[s].pc # "done"
      BY <3>1 DEF IInv, AppsInv, AppInv, NodesInv, NodeInv
    <3> QED
      BY <3>2, <3>3, <3>4, <3>5 DEF HeldNodesAlive
  <2> QED
    BY <2>1, <2>2 DEF NodesSafe, HeldNodesAlive
<1> QED
  BY <1>1, Invariant, PTL

(* What so_open told an application is so: the device has the socket and   *)
(* the node that will close it is there, and no socket of the device       *)
(* outlives the nodes.  Sessions that overlap break it: the reply to one   *)
(* session's so_close reaches the node of another (sock_dev_pack_chk).     *)
THEOREM Opened == Spec => []OpenMeansOpen
<1>1. IInv => OpenMeansOpen
  <2> SUFFICES ASSUME IInv PROVE OpenMeansOpen
    OBVIOUS
  <2>2. OpenIsOpen
    <3> SUFFICES ASSUME Tidy, NEW s \in Sessions, app[s] = "open"
                 PROVE  devOpen /\ nod[s].has_opened /\ Live(s)
      BY DEF OpenIsOpen, Tidy
    <3>1. nod[s].has_opened /\ rpc[s].pc = "ready" /\ Live(s)
      BY DEF IInv, AppsInv, AppInv, NodesInv, NodeInv
    <3>2. nod[s].sta # "wait_usb_close"
      BY <3>1 DEF IInv, NodesInv, NodeInv
    <3> QED
      BY <3>1, <3>2 DEF IInv, OpenInv
  <2>3. NoneLeftOpen
    <3> SUFFICES ASSUME InTurn, \A s \in Sessions : ~ Live(s) PROVE ~ devOpen /\ toDev = <<>>
      BY DEF NoneLeftOpen
    <3>1. Tidy
      BY TurnTidy
    <3>2. ~ devOpen
      BY DEF IInv, OwnedInv, Owner
    <3>3. "open" \notin ToSet(toDev) /\ "close" \notin ToSet(toDev)
      BY <3>1 DEF IInv, AskedInv, OpenPiped, Waiting, CloseInv, ClosePiped, Closing
    <3>4. toDev \in Seq({"open", "close"})
      BY DEF IInv, KindsInv, QueuesInv
    <3>5. ASSUME toDev # <<>> PROVE FALSE
      BY <3>3, <3>4, <3>5, QueueFacts
    <3> QED
      BY <3>2, <3>5
  <2> QED
    BY <2>2, <2>3 DEF OpenMeansOpen
<1> QED
  BY <1>1, Invariant, PTL

-----------------------------------------------------------------------------
(* Closes.  What holds of nodes, and of what the threads have in hand,     *)
(* however sessions overlap; and that at least as many nodes wait for the  *)
(* reply to so_close as closes and replies to them are on the way.         *)
NodeLife(s) ==
  /\ nod[s].mem = "none" <=> rpc[s].pc = "none"
  /\ rpc[s].pc \in {"none", "start"} => nod[s].sta = "not_init" /\ ~ nod[s].has_opened
  /\ nod[s].sta \in {"need_send_cmd", "wait_usb_cmd"} => ~ nod[s].has_opened
  /\ nod[s].sta = "wait_usb_close" => nod[s].has_opened
  /\ nod[s].sta \in {"need_send_close", "wait_usb_close"} =>
       nod[s].freeflag \/ rpc[s].pc = "done"
  /\ ~ nod[s].sockrpc => rpc[s].pc \in {"none", "done"} \/ nod[s].freeflag
  /\ nod[s].mem = "freed" => nod[s].freeflag
NodeLives == \A s \in Sessions : NodeLife(s)
HandLife ==
  /\ snd.pc \in {"free", "freed"} => nod[snd.node].freeflag
  /\ snd.pc # "scan" => rpc[snd.node].pc # "none"
  /\ rcv.pc = "answer" =>
       ~ nod[rcv.node].has_opened /\ rpc[rcv.node].pc \notin {"none", "start"}

Num(q, x) == Cardinality({i \in 1 .. Len(q) : q[i] = x})
Awaiting == {s \in Sessions : AwaitsClose(s)}
CountInv == plug = "in" =>
  /\ IsFiniteSet(Awaiting)
  /\ Num(toDev, "close") + Num(fromDev, Closed) + (IF Got(Closed) THEN 1 ELSE 0)
       <= Cardinality(Awaiting)
OwnInv == NodeLives /\ HandLife /\ CountInv

(* How often something is in a queue.                                      *)
LEMMA NumFacts ==
  ASSUME NEW T, NEW q \in Seq(T), NEW x
  PROVE  /\ Num(q, x) \in Nat
         /\ \A y \in T : Num(Append(q, y), x) = Num(q, x) + (IF y = x THEN 1 ELSE 0)
         /\ q # <<>> => Num(q, x) = Num(Tail(q), x) + (IF Head(q) = x THEN 1 ELSE 0)
<1> DEFINE At(r) == {i \in 1 .. Len(r) : r[i] = x}
<1>1. ASSUME NEW r \in Seq(T) PROVE IsFiniteSet(At(r)) /\ Num(r, x) \in Nat
  <2>1. Len(r) \in Nat /\ IsFiniteSet(1 .. Len(r)) /\ At(r) \in SUBSET (1 .. Len(r))
    BY FS_Interval
  <2>2. IsFiniteSet(At(r))
    BY <2>1, FS_Subset
  <2> QED
    BY <2>2, FS_CardinalityType DEF Num
<1>2. ASSUME NEW y \in T PROVE Num(Append(q, y), x) = Num(q, x) + (IF y = x THEN 1 ELSE 0)
  <2>1. /\ Len(q) \in Nat /\ Len(Append(q, y)) = Len(q) + 1
        /\ \A i \in 1 .. Len(q) : Append(q, y)[i] = q[i]
        /\ Append(q, y)[Len(q) + 1] = y
    OBVIOUS
  <2>2. CASE y = x
    <3>1. At(Append(q, y)) = At(q) \cup {Len(q) + 1} /\ Len(q) + 1 \notin At(q)
      BY <2>1, <2>2
    <3> HIDE DEF At
    <3>2. Cardinality(At(Append(q, y))) = Cardinality(At(q)) + 1
      BY <1>1, <3>1, FS_AddElement
    <3> QED
      BY <2>2, <3>2 DEF Num, At
  <2>3. CASE y # x
    <3>1. At(Append(q, y)) = At(q)
      BY <2>1, <2>3
    <3>2. Num(Append(q, y), x) = Num(q, x) /\ Num(q, x) \in Nat
      BY <1>1, <3>1 DEF Num
    <3> QED
      BY <2>3, <3>2
  <2> QED
    BY <2>2, <2>3
<1>3. ASSUME q # <<>>
      PROVE  Num(q, x) = Num(Tail(q), x) + (IF Head(q) = x THEN 1 ELSE 0)
  <2>1. /\ Len(q) \in Nat \ {0} /\ Tail(q) \in Seq(T) /\ Len(Tail(q)) = Len(q) - 1
        /\ \A i \in 1 .. Len(q) - 1 : Tail(q)[i] = q[i + 1]
        /\ Head(q) = q[1]
    BY <1>3
  <2> DEFINE f == [i \in At(Tail(q)) |-> i + 1]
  <2>2. \A i \in At(Tail(q)) : i + 1 \in At(q) \ {1}
    BY <2>1
  <2>3. \A j \in At(q) \ {1} : j - 1 \in At(Tail(q)) /\ (j - 1) + 1 = j
    BY <2>1
  <2>4. \A i, j \in At(Tail(q)) : i + 1 = j + 1 => i = j
    BY <2>1
  <2>5. 1 \in At(q) <=> Head(q) = x
    BY <2>1
  <2>6. IsFiniteSet(At(q)) /\ IsFiniteSet(At(Tail(q))) /\ Num(q, x) \in Nat
    BY <1>1, <2>1
  <2> HIDE DEF At
  <2>7. f \in Bijection(At(Tail(q)), At(q) \ {1})
    BY <2>2, <2>3, <2>4 DEF Bijection, Injection, Surjection, IsInjective
  <2> HIDE DEF f
  <2>8. Cardinality(At(q) \ {1}) = Cardinality(At(Tail(q)))
    BY <2>6, <2>7, FS_Bijection DEF ExistsBijection
  <2>9. Cardinality(At(q) \ {1}) = IF 1 \in At(q) THEN Cardinality(At(q)) - 1 ELSE Cardinality(At(q))
    BY <2>6, FS_RemoveElement
  <2>10. Num(q, x) = Cardinality(At(q)) /\ Num(Tail(q), x) = Cardinality(At(Tail(q)))
    BY DEF Num, At
  <2> QED
    BY <2>5, <2>6, <2>8, <2>9, <2>10
<1> QED
  BY <1>1, <1>2, <1>3

(* So it is of the two queues.                                             *)
LEMMA QueueNums ==
  ASSUME KindsInv
  PROVE  /\ Num(toDev, "close") \in Nat /\ Num(fromDev, Closed) \in Nat
         /\ Num(Append(toDev, "open"), "close") = Num(toDev, "close")
         /\ Num(Append(toDev, "close"), "close") = Num(toDev, "close") + 1
<1>1. PICK T : T = {"open", "close"}
  OBVIOUS
<1>2. toDev \in Seq(T) /\ fromDev \in Seq(Replies) /\ "open" \in T /\ "close" \in T
  BY <1>1 DEF KindsInv, QueuesInv
<1>3. Num(toDev, "close") \in Nat /\ Num(fromDev, Closed) \in Nat
  BY <1>2, NumFacts
<1>4. Num(Append(toDev, "close"), "close") = Num(toDev, "close") + 1
  BY <1>2, NumFacts
<1>5. Num(Append(toDev, "open"), "close") = Num(toDev, "close") + 0
  BY <1>2, NumFacts
<1> QED
  BY <1>3, <1>4, <1>5

(* Every step keeps the nodes, and what the threads have in hand.          *)
LEMMA NextLives ==
  ASSUME IInv, OwnInv, [Next]_vars
  PROVE  NodeLives' /\ HandLife'
<1>1. ASSUME NEW s \in Sessions, Connect(s) PROVE NodeLives' /\ HandLife'
  <2>1. NodeLives'
    BY <1>1
    DEF Connect, nodeVars, plugVars, IInv, OwnInv, KindsInv, PlacesInv, ThreadsInv, Connection, Node,
        NodeLives, NodeLife
  <2>2. HandLife'
    BY <1>1
    DEF Connect, nodeVars, plugVars, IInv, OwnInv, KindsInv, PlacesInv, ThreadsInv, Connection, Node,
        NodeLives, NodeLife, HandLife
  <2> QED
    BY <2>1, <2>2
<1>2. ASSUME NEW s \in Sessions, Close(s) PROVE NodeLives' /\ HandLife'
  <2>1. NodeLives'
    BY <1>2
    DEF Close, nodeVars, plugVars, IInv, OwnInv, KindsInv, PlacesInv, ThreadsInv, Connection, Node,
        NodeLives, NodeLife
  <2>2. HandLife'
    BY <1>2
    DEF Close, nodeVars, plugVars, IInv, OwnInv, KindsInv, PlacesInv, ThreadsInv, Connection, Node,
        NodeLives, NodeLife, HandLife
  <2> QED
    BY <2>1, <2>2
<1>3. ASSUME NEW s \in Sessions, RpcStart(s) PROVE NodeLives' /\ HandLife'
  <2>1. NodeLives'
    BY <1>3
    DEF RpcStart, nodeVars, plugVars, IInv, OwnInv, KindsInv, PlacesInv, ThreadsInv, Connection, Node,
        NodeLives, NodeLife
  <2>2. HandLife'
    BY <1>3
    DEF RpcStart, nodeVars, plugVars, IInv, OwnInv, KindsInv, PlacesInv, ThreadsInv, Connection, Node,
        NodeLives, NodeLife, HandLife
  <2> QED
    BY <2>1, <2>2
<1>4. ASSUME NEW s \in Sessions, RpcOpen(s) PROVE NodeLives' /\ HandLife'
  <2>1. NodeLives'
    BY <1>4
    DEF RpcOpen, nodeVars, plugVars, IInv, OwnInv, KindsInv, PlacesInv, ThreadsInv, Connection, Node,
        NodeLives, NodeLife
  <2>2. HandLife'
    BY <1>4
    DEF RpcOpen, nodeVars, plugVars, IInv, OwnInv, KindsInv, PlacesInv, ThreadsInv, Connection, Node,
        NodeLives, NodeLife, HandLife
  <2> QED
    BY <2>1, <2>2
<1>5. ASSUME NEW s \in Sessions, RpcEnd(s) PROVE NodeLives' /\ HandLife'
  <2>1. NodeLives'
    BY <1>5
    DEF RpcEnd, nodeVars, plugVars, IInv, OwnInv, KindsInv, PlacesInv, ThreadsInv, Connection, Node,
        NodeLives, NodeLife
  <2>2. HandLife'
    BY <1>5
    DEF RpcEnd, nodeVars, plugVars, IInv, OwnInv, KindsInv, PlacesInv, ThreadsInv, Connection, Node,
        NodeLives, NodeLife, HandLife
  <2> QED
    BY <2>1, <2>2
<1>6. ASSUME NEW s \in Sessions, RpcEndNode(s) PROVE NodeLives' /\ HandLife'
  <2>1. NodeLives'
    BY <1>6
    DEF RpcEndNode, nodeVars, plugVars, IInv, OwnInv, KindsInv, PlacesInv, ThreadsInv, Connection, Node,
        NodeLives, NodeLife
  <2>2. HandLife'
    BY <1>6
    DEF RpcEndNode, nodeVars, plugVars, IInv, OwnInv, KindsInv, PlacesInv, ThreadsInv, Connection, Node,
        NodeLives, NodeLife, HandLife
  <2> QED
    BY <2>1, <2>2
<1>7. CASE Scan
  <2>1. OnlyMarked /\ UNCHANGED <<app, rpc, rcv, devVars, plugVars>> /\ snd.pc = "scan"
    BY <1>7, ScanFacts DEF IInv
  <2>2. NodeLives'
    BY <2>1 DEF OnlyMarked, ToFree, OwnInv, NodeLives, NodeLife
  <2>3. \/ snd' = snd
        \/ \E s \in Sessions : InList(s) /\ snd' = [snd EXCEPT !.pc = "picked", !.node = s]
        \/ \E s \in Sessions : /\ InList(s) /\ nod[s].freeflag
                               /\ snd' = [snd EXCEPT !.pc = "free", !.node = s]
    BY <1>7, ScanFacts DEF IInv
  <2>4. /\ \A s \in Sessions : InList(s) => rpc[s].pc # "none"
        /\ rcv.pc = "answer" => rcv.node \in Sessions
    BY DEF IInv, KindsInv, ListInv, ThreadsInv
  <2>9. \A p, s : [snd EXCEPT !.pc = p, !.node = s].pc = p
                 /\ [snd EXCEPT !.pc = p, !.node = s].node = s
    BY DEF IInv, KindsInv, ThreadsInv
  <2>5. HandLife
    BY DEF OwnInv
  <2>6. ASSUME NEW s \in Sessions, nod[s].freeflag PROVE nod'[s].freeflag
    BY <2>1, <2>6 DEF OnlyMarked
  <2>7. (snd'.pc \in {"free", "freed"} => nod'[snd'.node].freeflag)
          /\ (snd'.pc # "scan" => rpc'[snd'.node].pc # "none")
    <3>1. CASE snd' = snd
      BY <2>1, <3>1
    <3>2. ASSUME NEW s \in Sessions, InList(s), snd' = [snd EXCEPT !.pc = "picked", !.node = s]
          PROVE  snd'.pc = "picked" /\ snd'.node = s /\ rpc'[s].pc # "none"
      <4>1. snd'.pc = "picked" /\ snd'.node = s
        BY <3>2, <2>9
      <4> QED
        BY <4>1, <3>2, <2>1, <2>4
    <3>3. ASSUME NEW s \in Sessions, InList(s), nod[s].freeflag,
                 snd' = [snd EXCEPT !.pc = "free", !.node = s]
          PROVE  snd'.pc = "free" /\ snd'.node = s /\ nod'[s].freeflag /\ rpc'[s].pc # "none"
      <4>1. snd'.pc = "free" /\ snd'.node = s
        BY <3>3, <2>9
      <4> QED
        BY <4>1, <3>3, <2>1, <2>4, <2>6
    <3> QED
      BY <2>3, <3>1, <3>2, <3>3
  <2>8. rcv'.pc = "answer" =>
          ~ nod'[rcv'.node].has_opened /\ rpc'[rcv'.node].pc \notin {"none", "start"}
    BY <2>1, <2>4, <2>5 DEF OnlyMarked, HandLife
  <2> QED
    BY <2>2, <2>7, <2>8 DEF HandLife
<1>8. CASE Recheck
  <2>1. NodeLives'
    BY <1>8
    DEF Recheck, nodeVars, plugVars, IInv, OwnInv, KindsInv, PlacesInv, ThreadsInv, Connection, Node,
        NodeLives, NodeLife
  <2>2. HandLife'
    BY <1>8
    DEF Recheck, nodeVars, plugVars, IInv, OwnInv, KindsInv, PlacesInv, ThreadsInv, Connection, Node,
        NodeLives, NodeLife, HandLife
  <2> QED
    BY <2>1, <2>2
<1>9. CASE PackMake
  <2>1. /\ snd.pc = "make" /\ snd.node \in Sessions
        /\ UNCHANGED <<app, rpc, work_list, rcv, fromDev, devOpen, plugVars>>
    BY <1>9, PackFacts DEF IInv
  <2>2. CASE /\ ~ nod[snd.node].freeflag /\ nod[snd.node].sta = "need_send_cmd"
             /\ nod' = [nod EXCEPT ![snd.node].sta = "wait_usb_cmd"] /\ snd' = snd
    BY <2>1, <2>2
    DEF OwnInv, NodeLives, NodeLife, HandLife, IInv, KindsInv, PlacesInv, ThreadsInv, Node
  <2>3. CASE /\ ~ nod[snd.node].freeflag /\ nod[snd.node].sta = "need_send_close"
             /\ nod[snd.node].has_opened
             /\ nod' = [nod EXCEPT ![snd.node].sta = "wait_usb_close"] /\ snd' = snd
    BY <2>1, <2>3
    DEF OwnInv, NodeLives, NodeLife, HandLife, IInv, KindsInv, PlacesInv, ThreadsInv, Node
  <2>4. CASE OnlyMarked /\ snd' = [snd EXCEPT !.pc = "scan"]
    <3>1. NodeLives'
      BY <2>1, <2>4 DEF OnlyMarked, ToFree, OwnInv, NodeLives, NodeLife
    <3>2. HandLife'
      BY <2>1, <2>4 DEF OnlyMarked, OwnInv, HandLife, IInv, KindsInv, ThreadsInv
    <3> QED
      BY <3>1, <3>2
  <2> QED
    BY <1>9, <2>2, <2>3, <2>4, PackFacts DEF IInv
<1>10. CASE Deinit
  <2>1. NodeLives'
    BY <1>10
    DEF Deinit, HandLife, nodeVars, plugVars, IInv, OwnInv, KindsInv, PlacesInv, ThreadsInv, Connection, Node,
        NodeLives, NodeLife
  <2>2. HandLife'
    BY <1>10
    DEF Deinit, HandLife, nodeVars, plugVars, IInv, OwnInv, KindsInv, PlacesInv, ThreadsInv, Connection, Node,
        NodeLives, NodeLife, HandLife
  <2> QED
    BY <2>1, <2>2
<1>11. CASE DeinitRpc
  <2>1. NodeLives'
    BY <1>11
    DEF DeinitRpc, HandLife, nodeVars, plugVars, IInv, OwnInv, KindsInv, PlacesInv, ThreadsInv, Connection, Node,
        NodeLives, NodeLife
  <2>2. HandLife'
    BY <1>11
    DEF DeinitRpc, HandLife, nodeVars, plugVars, IInv, OwnInv, KindsInv, PlacesInv, ThreadsInv, Connection, Node,
        NodeLives, NodeLife, HandLife
  <2> QED
    BY <2>1, <2>2
<1>12. CASE RecvFind
  BY <1>12, FindFacts
  DEF nodeVars, OwnInv, NodeLives, NodeLife, HandLife, IInv, KindsInv, ThreadsInv
<1>13. CASE RecvClosed
  <2>1. NodeLives'
    BY <1>13
    DEF RecvClosed, nodeVars, plugVars, IInv, OwnInv, KindsInv, PlacesInv, ThreadsInv, Connection, Node,
        NodeLives, NodeLife
  <2>2. HandLife'
    BY <1>13
    DEF RecvClosed, nodeVars, plugVars, IInv, OwnInv, KindsInv, PlacesInv, ThreadsInv, Connection, Node,
        NodeLives, NodeLife, HandLife
  <2> QED
    BY <2>1, <2>2
<1>14. CASE RecvOpened
  <2>1. /\ rcv.pc = "proc" /\ rcv.node \in Sessions
        /\ UNCHANGED <<app, rpc, work_list, snd, devVars, plugVars>>
        /\ \/ /\ nod[rcv.node].sta = "wait_usb_cmd"
              /\ rcv' = [rcv EXCEPT !.pc = "answer"] /\ nod' = nod
           \/ /\ nod[rcv.node].sta = "wait_usb_cmd" /\ ~ nod[rcv.node].sockrpc
              /\ nod' = [nod EXCEPT ![rcv.node].sta = "need_send_close"] /\ rcv'.pc = "idle"
           \/ nod' = nod /\ rcv'.pc = "idle"
    BY <1>14, OpenedFacts DEF IInv
  <2>2. NodeLives'
    BY <2>1 DEF OwnInv, NodeLives, NodeLife, IInv, KindsInv, PlacesInv, Node
  <2>3. HandLife'
    BY <2>1 DEF OwnInv, NodeLives, NodeLife, HandLife, IInv, KindsInv, PlacesInv, ThreadsInv, Node
  <2> QED
    BY <2>2, <2>3
<1>15. CASE RecvAnswer
  <2>1. /\ rcv.pc = "answer" /\ rcv.node \in Sessions /\ rcv'.pc = "idle"
        /\ UNCHANGED <<rpc, work_list, snd, devVars, plugVars>>
        /\ \A s \in Sessions :
             /\ nod'[s].mem = nod[s].mem /\ nod'[s].freeflag = nod[s].freeflag
             /\ nod'[s].sockrpc = nod[s].sockrpc
             /\ s # rcv.node => nod'[s] = nod[s]
        /\ nod'[rcv.node].sta \in {"can_send_data", "not_init"}
    BY <1>15, AnswerFacts DEF IInv
  <2>2. NodeLives'
    BY <2>1 DEF OwnInv, NodeLives, NodeLife, HandLife
  <2>3. HandLife'
    BY <2>1 DEF OwnInv, HandLife, IInv, KindsInv, ThreadsInv
  <2> QED
    BY <2>2, <2>3
<1>16. CASE DevOpen
  BY <1>16 DEF DevOpen, nodeVars, OwnInv, NodeLives, NodeLife, HandLife
<1>17. CASE DevClose
  BY <1>17 DEF DevClose, nodeVars, OwnInv, NodeLives, NodeLife, HandLife
<1>18. CASE Unplug
  BY <1>18 DEF Unplug, nodeVars, OwnInv, NodeLives, NodeLife, HandLife
<1>19. CASE TearDown
  <2>1. /\ UNCHANGED <<app, snd, rcv>> /\ \A s \in Sessions : rpc'[s].pc = rpc[s].pc
        /\ \A s \in Sessions :
             /\ nod'[s].mem = nod[s].mem /\ nod'[s].has_opened = nod[s].has_opened
             /\ nod'[s].sockrpc = nod[s].sockrpc /\ nod'[s].sta = nod[s].sta
             /\ nod[s].freeflag => nod'[s].freeflag
    BY <1>19 DEF TearDown, IInv, KindsInv, PlacesInv, Node, Connection
  <2>2. NodeLives'
    BY <2>1 DEF OwnInv, NodeLives, NodeLife
  <2>3. HandLife'
    BY <2>1 DEF OwnInv, HandLife, IInv, KindsInv, ThreadsInv
  <2> QED
    BY <2>2, <2>3
<1>20. CASE TearDownDone
  BY <1>20 DEF TearDownDone, nodeVars, OwnInv, NodeLives, NodeLife, HandLife
<1>21. CASE UNCHANGED vars
  BY <1>21 DEF vars, nodeVars, OwnInv, NodeLives, NodeLife, HandLife
<1>22. CASE RecvNotify
  BY <1>22 DEF RecvNotify, RecvDone, nodeVars, OwnInv, NodeLives, NodeLife, HandLife
<1> QED
  BY <1>1, <1>2, <1>3, <1>4, <1>5, <1>6, <1>7, <1>8, <1>9, <1>10, <1>11, <1>12, <1>13, <1>14,
      <1>15, <1>16, <1>17, <1>18, <1>19, <1>20, <1>21, <1>22
  DEF Next, Rpc, SendThread, RecvThread, Device, Poll

(* What is on the way stays, and so do those that wait for it.             *)
LEMMA CountKept ==
  ASSUME CountInv, plug' = "in" => plug = "in", UNCHANGED <<toDev, fromDev>>,
         Got(Closed)' => Got(Closed), \A s \in Sessions : AwaitsClose(s)' <=> AwaitsClose(s),
         KindsInv
  PROVE  CountInv'
<1>1. Awaiting' = Awaiting
  BY DEF Awaiting
<1>2. Num(toDev, "close")' = Num(toDev, "close") /\ Num(fromDev, Closed)' = Num(fromDev, Closed)
  BY DEF Num, Closed
<1>3. Num(toDev, "close") \in Nat /\ Num(fromDev, Closed) \in Nat
  BY NumFacts DEF KindsInv, QueuesInv
<1>4. IsFiniteSet(Awaiting) => Cardinality(Awaiting) \in Nat
  BY FS_CardinalityType
<1> QED
  BY <1>1, <1>2, <1>3, <1>4 DEF CountInv

(* So it is when as many are on the way as before.                         *)
LEMMA SameCount ==
  ASSUME CountInv, plug' = plug, plug = "in" => Num(toDev', "close") = Num(toDev, "close"),
         plug = "in" => Num(fromDev', Closed) = Num(fromDev, Closed),
         Got(Closed)' => Got(Closed), \A s \in Sessions : AwaitsClose(s)' <=> AwaitsClose(s),
         KindsInv
  PROVE  CountInv'
<1>1. Awaiting' = Awaiting
  BY DEF Awaiting
<1>2. Num(toDev, "close")' = Num(toDev', "close") /\ Num(fromDev, Closed)' = Num(fromDev', Closed)
  BY DEF Num, Closed
<1>3. Num(toDev, "close") \in Nat /\ Num(fromDev, Closed) \in Nat
  BY NumFacts DEF KindsInv, QueuesInv
<1>4. IsFiniteSet(Awaiting) => Cardinality(Awaiting) \in Nat
  BY FS_CardinalityType
<1> QED
  BY <1>1, <1>2, <1>3, <1>4 DEF CountInv

(* Every step keeps a node waiting for each close on the way.              *)
LEMMA NextCount ==
  ASSUME IInv, OwnInv, [Next]_vars
  PROVE  CountInv'
<1>0. KindsInv /\ CountInv /\ NodeLives /\ HandLife
  BY DEF IInv, OwnInv
<1> DEFINE Kept == \A s \in Sessions : AwaitsClose(s)' <=> AwaitsClose(s)
<1>1. ASSUME NEW s \in Sessions, Connect(s) PROVE CountInv'
  <2>1. Kept
    BY <1>0, <1>1
    DEF Connect, nodeVars, KindsInv, PlacesInv, Node, NodeLives, NodeLife, AwaitsClose, Live
  <2>2. plug' = plug /\ UNCHANGED <<toDev, fromDev, rcv>>
    BY <1>1 DEF Connect, devVars, plugVars
  <2> QED
    BY <1>0, <2>1, <2>2, CountKept DEF Got
<1>2. ASSUME NEW s \in Sessions, Close(s) PROVE CountInv'
  <2>1. Kept
    BY <1>0, <1>2
    DEF Close, nodeVars, KindsInv, PlacesInv, Node, NodeLives, NodeLife, AwaitsClose, Live
  <2>2. plug' = plug /\ UNCHANGED <<toDev, fromDev, rcv>>
    BY <1>2 DEF Close, devVars, plugVars
  <2> QED
    BY <1>0, <2>1, <2>2, CountKept DEF Got
<1>3. ASSUME NEW s \in Sessions, RpcStart(s) PROVE CountInv'
  <2>1. Kept
    BY <1>0, <1>3
    DEF RpcStart, nodeVars, KindsInv, PlacesInv, Node, NodeLives, NodeLife, AwaitsClose, Live
  <2>2. plug' = plug /\ UNCHANGED <<toDev, fromDev, rcv>>
    BY <1>3 DEF RpcStart, devVars, plugVars
  <2> QED
    BY <1>0, <2>1, <2>2, CountKept DEF Got
<1>4. ASSUME NEW s \in Sessions, RpcOpen(s) PROVE CountInv'
  <2>1. Kept
    BY <1>0, <1>4
    DEF RpcOpen, nodeVars, KindsInv, PlacesInv, Node, NodeLives, NodeLife, AwaitsClose, Live
  <2>2. plug' = plug /\ UNCHANGED <<toDev, fromDev, rcv>>
    BY <1>4 DEF RpcOpen, devVars, plugVars
  <2> QED
    BY <1>0, <2>1, <2>2, CountKept DEF Got
<1>5. ASSUME NEW s \in Sessions, RpcEnd(s) PROVE CountInv'
  <2>1. Kept
    BY <1>0, <1>5
    DEF RpcEnd, nodeVars, KindsInv, PlacesInv, Node, NodeLives, NodeLife, AwaitsClose, Live
  <2>2. plug' = plug /\ UNCHANGED <<toDev, fromDev, rcv>>
    BY <1>5 DEF RpcEnd, devVars, plugVars
  <2> QED
    BY <1>0, <2>1, <2>2, CountKept DEF Got
<1>6. ASSUME NEW s \in Sessions, RpcEndNode(s) PROVE CountInv'
  <2>1. Kept
    BY <1>0, <1>6
    DEF RpcEndNode, nodeVars, KindsInv, PlacesInv, Node, NodeLives, NodeLife, AwaitsClose, Live
  <2>2. plug' = plug /\ UNCHANGED <<toDev, fromDev, rcv>>
    BY <1>6 DEF RpcEndNode, devVars, plugVars
  <2> QED
    BY <1>0, <2>1, <2>2, CountKept DEF Got
<1>7. CASE Scan
  <2>1. OnlyMarked /\ UNCHANGED <<rcv, devVars, plugVars>>
    BY <1>0, <1>7, ScanFacts
  <2>2. Kept
    BY <2>1 DEF OnlyMarked, ToFree, AwaitsClose, Live
  <2> QED
    BY <1>0, <2>1, <2>2, CountKept DEF Got, devVars, plugVars
<1>8. CASE Recheck
  <2>1. Kept /\ plug' = plug /\ UNCHANGED <<toDev, fromDev, rcv>>
    BY <1>8 DEF Recheck, nodeVars, devVars, plugVars, AwaitsClose, Live
  <2> QED
    BY <1>0, <2>1, CountKept DEF Got
<1>9. CASE PackMake
  <2> DEFINE n == snd.node
  <2>1. /\ snd.pc = "make" /\ n \in Sessions /\ UNCHANGED <<rcv, fromDev, plugVars>>
    BY <1>0, <1>9, PackFacts
  <2>2. CASE OnlyMarked /\ toDev' = toDev
    <3>1. Kept
      BY <2>2 DEF OnlyMarked, ToFree, AwaitsClose, Live
    <3> QED
      BY <1>0, <2>1, <2>2, <3>1, CountKept DEF Got, plugVars
  <2>3. CASE /\ ~ nod[n].freeflag /\ nod[n].sta = "need_send_cmd"
             /\ nod' = [nod EXCEPT ![n].sta = "wait_usb_cmd"]
             /\ plug = "in" => toDev' = Append(toDev, "open")
    <3>1. Kept
      BY <1>0, <2>1, <2>3 DEF KindsInv, PlacesInv, Node, AwaitsClose, Live
    <3>2. plug = "in" => Num(toDev', "close") = Num(toDev, "close")
      BY <1>0, <2>3, QueueNums
    <3> QED
      BY <1>0, <2>1, <3>1, <3>2, SameCount DEF plugVars, Got
  <2>4. CASE /\ ~ nod[n].freeflag /\ nod[n].sta = "need_send_close"
             /\ nod' = [nod EXCEPT ![n].sta = "wait_usb_close"]
             /\ plug = "in" => toDev' = Append(toDev, "close")
    <3>1. nod[n].mem = "live"
      BY <1>0, <2>1, <2>4 DEF HandLife, NodeLives, NodeLife, KindsInv, PlacesInv, Node
    <3>2. \A s \in Sessions : AwaitsClose(s)' <=> AwaitsClose(s) \/ s = n
      BY <1>0, <2>1, <2>4, <3>1 DEF KindsInv, PlacesInv, Node, AwaitsClose, Live
    <3>3. Awaiting' = Awaiting \cup {n} /\ n \notin Awaiting
      BY <2>1, <2>4, <3>2 DEF Awaiting, AwaitsClose
    <3>4. plug = "in" => Num(toDev', "close") = Num(toDev, "close") + 1
      BY <1>0, <2>4, QueueNums
    <3>5. IsFiniteSet(Awaiting) => IsFiniteSet(Awaiting') /\ Cardinality(Awaiting') = Cardinality(Awaiting) + 1
      BY <3>3, FS_AddElement
    <3>6. IsFiniteSet(Awaiting) => Cardinality(Awaiting) \in Nat
      BY FS_CardinalityType
    <3>7. Num(toDev, "close") \in Nat /\ Num(fromDev, Closed) \in Nat
      BY <1>0, NumFacts DEF KindsInv, QueuesInv
    <3>8. plug' = plug /\ Num(fromDev, Closed)' = Num(fromDev, Closed) /\ (Got(Closed)' <=> Got(Closed))
      BY <2>1 DEF plugVars, Num, Got, Closed
    <3> QED
      BY <1>0, <3>4, <3>5, <3>6, <3>7, <3>8 DEF CountInv
  <2> QED
    BY <1>0, <1>9, <2>2, <2>3, <2>4, PackFacts
<1>10. CASE Deinit
  <2>1. Kept
    BY <1>0, <1>10 DEF Deinit, KindsInv, PlacesInv, ThreadsInv, Node, AwaitsClose, Live
  <2>2. plug' = plug /\ UNCHANGED <<toDev, fromDev, rcv>>
    BY <1>10 DEF Deinit, devVars, plugVars
  <2> QED
    BY <1>0, <2>1, <2>2, CountKept DEF Got
<1>11. CASE DeinitRpc
  <2>1. Kept
    BY <1>0, <1>11 DEF DeinitRpc, KindsInv, PlacesInv, ThreadsInv, Node, HandLife, AwaitsClose, Live
  <2>2. plug' = plug /\ UNCHANGED <<toDev, fromDev, rcv>>
    BY <1>11 DEF DeinitRpc, devVars
  <2> QED
    BY <1>0, <2>1, <2>2, CountKept DEF Got
<1>12. CASE RecvFind
  <2>1. /\ rcv.pc = "idle" /\ fromDev # <<>> /\ fromDev' = Tail(fromDev)
        /\ UNCHANGED <<nodeVars, toDev, plugVars>>
        /\ Got(Closed)' => Head(fromDev) = Closed
    BY <1>0, <1>12, FindFacts DEF Got, Closed
  <2>2. ~ Got(Closed)
    BY <2>1 DEF Got
  <2>3. Num(fromDev, Closed) = Num(fromDev', Closed) + (IF Head(fromDev) = Closed THEN 1 ELSE 0)
    BY <1>0, <2>1, NumFacts DEF KindsInv, QueuesInv
  <2>4. /\ Num(toDev, "close") \in Nat /\ Num(fromDev, Closed) \in Nat
        /\ Num(fromDev', Closed) \in Nat
    BY <1>0, <2>1, NumFacts, QueueFacts DEF KindsInv, QueuesInv
  <2>5. Awaiting' = Awaiting /\ plug' = plug /\ Num(toDev, "close")' = Num(toDev, "close")
    BY <2>1 DEF Awaiting, AwaitsClose, Live, nodeVars, plugVars, Num
  <2>6. Num(fromDev, Closed)' = Num(fromDev', Closed)
    BY DEF Num, Closed
  <2>7. IsFiniteSet(Awaiting) => Cardinality(Awaiting) \in Nat
    BY FS_CardinalityType
  <2> QED
    BY <1>0, <2>1, <2>2, <2>3, <2>4, <2>5, <2>6, <2>7 DEF CountInv
<1>13. CASE RecvClosed
  <2> DEFINE n == rcv.node
  <2>1. /\ rcv.pc = "proc" /\ n \in Sessions /\ rcv.pack = Closed /\ rcv'.pc = "notify"
        /\ nod' = [nod EXCEPT ![n].freeflag = TRUE] /\ plug' = plug /\ UNCHANGED <<toDev, fromDev>>
    BY <1>0, <1>13, ReplyFacts DEF RecvClosed, KindsInv, ThreadsInv, devVars, plugVars
  <2>2. \A s \in Sessions : AwaitsClose(s)' <=> AwaitsClose(s) /\ s # n
    BY <1>0, <2>1 DEF KindsInv, PlacesInv, Node, AwaitsClose, Live
  <2>3. Awaiting' = Awaiting \ {n}
    BY <2>2 DEF Awaiting
  <2>4. IsFiniteSet(Awaiting) =>
          /\ IsFiniteSet(Awaiting') /\ Cardinality(Awaiting) \in Nat
          /\ Cardinality(Awaiting') \in Nat /\ Cardinality(Awaiting') >= Cardinality(Awaiting) - 1
    <3> SUFFICES ASSUME IsFiniteSet(Awaiting)
                 PROVE  /\ IsFiniteSet(Awaiting') /\ Cardinality(Awaiting) \in Nat
                        /\ Cardinality(Awaiting') \in Nat
                        /\ Cardinality(Awaiting') >= Cardinality(Awaiting) - 1
      OBVIOUS
    <3>1. PICK x : x = rcv.node
      OBVIOUS
    <3>2. /\ IsFiniteSet(Awaiting \ {x})
          /\ Cardinality(Awaiting \ {x}) =
               IF x \in Awaiting THEN Cardinality(Awaiting) - 1 ELSE Cardinality(Awaiting)
      BY FS_RemoveElement
    <3>3. IsFiniteSet(Awaiting') /\ Cardinality(Awaiting') = Cardinality(Awaiting \ {x})
      BY <2>3, <3>1, <3>2
    <3>4. Cardinality(Awaiting) \in Nat /\ Cardinality(Awaiting') \in Nat
      BY <3>3, FS_CardinalityType
    <3> QED
      BY <3>2, <3>3, <3>4
  <2>5. Got(Closed) /\ ~ Got(Closed)'
    BY <2>1 DEF Got
  <2>6. Num(toDev, "close") \in Nat /\ Num(fromDev, Closed) \in Nat
    BY <1>0, NumFacts DEF KindsInv, QueuesInv
  <2>7. Num(toDev, "close")' = Num(toDev, "close") /\ Num(fromDev, Closed)' = Num(fromDev, Closed)
    BY <2>1 DEF Num, Closed
  <2> QED
    BY <1>0, <2>1, <2>4, <2>5, <2>6, <2>7 DEF CountInv
<1>14. CASE RecvOpened
  <2>1. /\ rcv.pc = "proc" /\ rcv.pack \in OpenReplies /\ rcv.node \in Sessions
        /\ UNCHANGED <<devVars, plugVars>> /\ (rcv'.pc = "idle" \/ rcv'.pack = rcv.pack)
        /\ \/ nod' = nod
           \/ /\ nod[rcv.node].sta = "wait_usb_cmd"
              /\ nod' = [nod EXCEPT ![rcv.node].sta = "need_send_close"]
    BY <1>0, <1>14, OpenedFacts DEF KindsInv, ThreadsInv
  <2>2. Kept
    BY <1>0, <2>1 DEF KindsInv, PlacesInv, Node, AwaitsClose, Live
  <2>3. ~ Got(Closed)'
    BY <2>1, ReplyFacts DEF Got
  <2> QED
    BY <1>0, <2>1, <2>2, <2>3, CountKept DEF devVars, plugVars
<1>15. CASE RecvAnswer
  <2>1. /\ rcv.pc = "answer" /\ rcv.node \in Sessions /\ rcv'.pc = "idle"
        /\ UNCHANGED <<devVars, plugVars>>
        /\ \A s \in Sessions : s # rcv.node => nod'[s] = nod[s]
        /\ nod'[rcv.node].sta \in {"can_send_data", "not_init"}
    BY <1>0, <1>15, AnswerFacts
  <2>2. Kept
    BY <1>0, <2>1 DEF HandLife, NodeLives, NodeLife, AwaitsClose, Live
  <2>3. ~ Got(Closed)'
    BY <2>1 DEF Got
  <2> QED
    BY <1>0, <2>1, <2>2, <2>3, CountKept DEF devVars, plugVars
<1>16. CASE DevOpen
  <2>1. /\ toDev # <<>> /\ Head(toDev) = "open" /\ toDev' = Tail(toDev)
        /\ UNCHANGED <<nodeVars, rcv, plugVars>>
        /\ \E x \in OpenReplies : fromDev' = Append(fromDev, x)
    BY <1>0, <1>16, DeviceFacts
  <2>2. Num(toDev', "close") = Num(toDev, "close")
    <3>1. Num(toDev, "close") = Num(toDev', "close") + 0 /\ Num(toDev', "close") \in Nat
      BY <1>0, <2>1, NumFacts, QueueFacts DEF KindsInv, QueuesInv
    <3> QED
      BY <3>1
  <2>3. Num(fromDev', Closed) = Num(fromDev, Closed)
    <3>1. PICK x \in OpenReplies : fromDev' = Append(fromDev, x)
      BY <2>1
    <3>2. x \in Replies /\ x # Closed
      BY ReplyFacts DEF OpenReplies, Replies
    <3>3. Num(fromDev', Closed) = Num(fromDev, Closed) + 0 /\ Num(fromDev, Closed) \in Nat
      BY <1>0, <3>1, <3>2, NumFacts DEF KindsInv, QueuesInv
    <3> QED
      BY <3>3
  <2>4. Kept
    BY <2>1 DEF nodeVars, AwaitsClose, Live
  <2> QED
    BY <1>0, <2>1, <2>2, <2>3, <2>4, SameCount DEF Got, plugVars
<1>17. CASE DevClose
  <2>1. /\ toDev # <<>> /\ Head(toDev) = "close" /\ toDev' = Tail(toDev)
        /\ UNCHANGED <<nodeVars, rcv, plugVars>> /\ fromDev' = Append(fromDev, Closed)
    BY <1>17 DEF DevClose
  <2>2. Num(toDev, "close") = Num(toDev', "close") + 1 /\ Num(toDev', "close") \in Nat
    BY <1>0, <2>1, NumFacts, QueueFacts DEF KindsInv, QueuesInv
  <2>3. Num(fromDev', Closed) = Num(fromDev, Closed) + 1 /\ Num(fromDev, Closed) \in Nat
    <3>1. Closed \in Replies
      BY DEF Replies
    <3> QED
      BY <1>0, <2>1, <3>1, NumFacts DEF KindsInv, QueuesInv
  <2>4. Awaiting' = Awaiting /\ plug' = plug /\ (Got(Closed)' <=> Got(Closed))
    BY <2>1 DEF nodeVars, plugVars, Awaiting, AwaitsClose, Live, Got, Closed
  <2>5. Num(toDev, "close")' = Num(toDev', "close") /\ Num(fromDev, Closed)' = Num(fromDev', Closed)
    BY DEF Num, Closed
  <2>6. IsFiniteSet(Awaiting) => Cardinality(Awaiting) \in Nat
    BY FS_CardinalityType
  <2> QED
    BY <1>0, <2>2, <2>3, <2>4, <2>5, <2>6 DEF CountInv
<1>18. CASE Unplug
  BY <1>18 DEF Unplug, CountInv
<1>19. CASE TearDown
  BY <1>19 DEF TearDown, CountInv
<1>20. CASE TearDownDone
  BY <1>20 DEF TearDownDone, CountInv
<1>21. CASE UNCHANGED vars
  <2>1. Kept /\ plug' = plug /\ UNCHANGED <<toDev, fromDev, rcv>>
    BY <1>21 DEF vars, nodeVars, devVars, plugVars, AwaitsClose, Live
  <2> QED
    BY <1>0, <2>1, CountKept DEF Got
<1>22. CASE RecvNotify
  <2>1. Kept /\ plug' = plug /\ UNCHANGED <<toDev, fromDev>> /\ ~ Got(Closed)'
    BY <1>22 DEF RecvNotify, RecvDone, nodeVars, devVars, plugVars, AwaitsClose, Live, Got
  <2> QED
    BY <1>0, <2>1, CountKept
<1> QED
  BY <1>1, <1>2, <1>3, <1>4, <1>5, <1>6, <1>7, <1>8, <1>9, <1>10, <1>11, <1>12, <1>13, <1>14,
      <1>15, <1>16, <1>17, <1>18, <1>19, <1>20, <1>21, <1>22
  DEF Next, Rpc, SendThread, RecvThread, Device, Poll

(* A node that another session's reply reaches leaves the one that asked   *)
(* for the close waiting.                                                  *)
LEMMA TakenStep ==
  ASSUME IInv, OwnInv, [Next]_vars
  PROVE  TakenByOther
<1> SUFFICES ASSUME plug = "in", NEW s \in Sessions, InUse(s), nod'[s].freeflag
             PROVE  \E t \in Sessions \ {s} : AwaitsClose(t)
  BY DEF TakenByOther
<1>0. /\ KindsInv /\ CountInv /\ ~ nod[s].freeflag
      /\ nod[s].sta \notin {"need_send_close", "wait_usb_close"}
  BY DEF IInv, OwnInv, NodeLives, NodeLife, InUse
<1>1. ASSUME OnlyMarked PROVE FALSE
  BY <1>0, <1>1 DEF OnlyMarked, ToFree
<1>2. CASE RecvClosed
  <2>1. Got(Closed) /\ rcv.node \in Sessions
    BY <1>0, <1>2, ReplyFacts DEF RecvClosed, Got, KindsInv, ThreadsInv
  <2>2. Num(toDev, "close") \in Nat /\ Num(fromDev, Closed) \in Nat
    BY <1>0, NumFacts DEF KindsInv, QueuesInv
  <2>3. IsFiniteSet(Awaiting) /\ Cardinality(Awaiting) \in Nat /\ Cardinality(Awaiting) # 0
    BY <1>0, <2>1, <2>2, FS_CardinalityType DEF CountInv
  <2>4. PICK t \in Awaiting : TRUE
    BY <2>3, FS_EmptySet
  <2>5. t \in Sessions /\ AwaitsClose(t)
    BY <2>4 DEF Awaiting
  <2>6. t # s
    BY <1>0, <2>5 DEF AwaitsClose
  <2> QED
    BY <2>5, <2>6
<1>3. CASE Scan \/ PackMake
  <2>1. CASE Scan
    BY <1>0, <1>1, <2>1, ScanFacts
  <2>2. CASE PackMake
    <3>1. nod'[s].freeflag = nod[s].freeflag
      BY <1>0, <1>1, <2>2, PackFacts DEF KindsInv, PlacesInv, Node
    <3> QED
      BY <1>0, <3>1
  <2> QED
    BY <1>3, <2>1, <2>2
<1>4. CASE RecvAnswer
  BY <1>0, <1>4, AnswerFacts
<1>5. CASE RecvOpened
  <2>1. nod'[s].freeflag = nod[s].freeflag
    BY <1>0, <1>5, OpenedFacts DEF KindsInv, PlacesInv, Node
  <2> QED
    BY <1>0, <2>1
<1>6. ASSUME NEW t \in Sessions, Connect(t) \/ Close(t) \/ Rpc(t) PROVE FALSE
  <2>1. nod \in [Sessions -> Node]
    BY <1>0 DEF KindsInv, PlacesInv
  <2>2. CASE Connect(t) \/ Close(t) \/ RpcEnd(t)
    BY <1>0, <2>2 DEF Connect, Close, RpcEnd, nodeVars
  <2>3. CASE RpcStart(t)
    BY <1>0, <2>1, <2>3 DEF RpcStart, Node
  <2>4. CASE RpcOpen(t)
    BY <1>0, <2>1, <2>4 DEF RpcOpen, Node
  <2>5. CASE RpcEndNode(t)
    BY <1>0, <2>1, <2>5 DEF RpcEndNode, Node
  <2> QED
    BY <1>6, <2>2, <2>3, <2>4, <2>5 DEF Rpc
<1>7. CASE Recheck \/ RecvFind \/ RecvNotify \/ Device \/ Unplug \/ UNCHANGED vars
  BY <1>0, <1>7
  DEF Recheck, RecvFind, RecvNotify, Device, DevOpen, DevClose, Unplug, vars, nodeVars
<1>8. CASE Poll
  BY <1>0, <1>8 DEF Poll, TearDown, TearDownDone, nodeVars
<1>9. CASE Deinit \/ DeinitRpc
  <2>1. nod'[s].freeflag = nod[s].freeflag
    BY <1>0, <1>9 DEF Deinit, DeinitRpc, KindsInv, PlacesInv, ThreadsInv, Node
  <2> QED
    BY <1>0, <2>1
<1> QED
  BY <1>2, <1>3, <1>4, <1>5, <1>6, <1>7, <1>8, <1>9 DEF Next, SendThread, RecvThread

LEMMA InitOwn == Init => OwnInv
<1> SUFFICES ASSUME Init PROVE OwnInv
  OBVIOUS
<1>1. NodeLives /\ HandLife
  BY DEF Init, NodeLives, NodeLife, HandLife
<1>2. Awaiting = {}
  BY DEF Init, Awaiting, AwaitsClose, Live
<1>3. Num(toDev, "close") = 0 /\ Num(fromDev, Closed) = 0
  <2>1. \A x : {i \in 1 .. Len(<<>>) : <<>>[i] = x} = {}
    BY EmptyFacts
  <2> QED
    BY <2>1, FS_EmptySet DEF Init, Num
<1>4. ~ Got(Closed)
  BY DEF Init, Got
<1> QED
  BY <1>1, <1>2, <1>3, <1>4, FS_EmptySet DEF OwnInv, CountInv

(* so_close of one socket ends that one, however sessions overlap: while   *)
(* the device is there, a node that opens or is open for its application   *)
(* is marked to be freed only by the reply to a so_close that the node of  *)
(* another session still waits for (sock_dev_pack_chk).                    *)
THEOREM ClosesOwn == Spec => ClosesOnlyItsOwn
<1>1. Init => IInv /\ OwnInv
  BY InitIInv, InitOwn
<1>2. IInv /\ OwnInv /\ [Next]_vars => (IInv /\ OwnInv)'
  BY NextIInv, NextLives, NextCount DEF OwnInv
<1>3. IInv /\ OwnInv /\ [Next]_vars => [TakenByOther]_vars
  BY TakenStep
<1> QED
  BY <1>1, <1>2, <1>3, PTL DEF Spec, ClosesOnlyItsOwn

-----------------------------------------------------------------------------
(* The start of the daemon.  What is set of the platform follows from the  *)
(* place of the main thread, and who connects finds a listener that was    *)
(* made, that is, options that were read.                                  *)

Platform(name, pact, list) == [name |-> name, pact |-> pact, list |-> list]
Platforms ==
  CASE main = "pact" -> <<Platform("usb", FALSE, FALSE)>>
    [] main = "list" -> <<Platform("usb", TRUE, FALSE)>>
    [] main = "poll" /\ intf # "other" /\ ~ usbfault -> <<Platform(intf, TRUE, TRUE)>>
    [] OTHER -> <<>>

StartKinds ==
  /\ main \in {"options", "listen", "check", "register", "usb", "uart", "pact", "list", "poll", "exited"}
  /\ intf \in {"usb", "uart", "other"} /\ usbfault \in BOOLEAN
  /\ conn \in [Clients -> {"idle", "connect", "refused", "recv", "done"}]
  /\ req \in [Clients -> B!Requests] /\ sta \in [Clients -> {0, -1}]
MainInv ==
  /\ main \in {"usb", "pact", "list"} => intf = "usb"
  /\ main = "uart" => intf = "uart"
  /\ usbfault => main = "poll" /\ intf = "usb"
  /\ head = Platforms
  /\ cnt = IF main \in {"pact", "list"} \/ (main = "poll" /\ intf # "other") THEN 1 ELSE 0
  /\ killed => main \in {"pact", "list"}
ConnsInv ==
  /\ main \in {"options", "listen"} => listener = "none"
  /\ main = "exited" => listener \in {"none", "gone"}
  /\ \A c \in Clients :
       /\ conn[c] \in {"connect", "recv", "done"} => listener # "none"
       /\ conn[c] = "done" /\ sta[c] = 0 /\ req[c] = "uart" => main = "poll" /\ intf = "uart"
StartInv == StartKinds /\ MainInv /\ ConnsInv

-----------------------------------------------------------------------------
(* The log.  What has been written, is being written and waits is in       *)
(* order; all of it is of lines that were counted.                         *)
Bytes == Nat \X Nat
LogKinds ==
  /\ bg \in {"lock", "look", "wait", "woken", "write", "end"}
  /\ level \in {0, 1} /\ lines \in Nat /\ short \in Nat /\ dropped \in Nat
  /\ log_fp \in BOOLEAN /\ logKilled \in BOOLEAN
  /\ ring \in Seq(Bytes) /\ batch \in Seq(Bytes) /\ stdout \in Seq(Bytes) /\ file \in Seq(Bytes)
  /\ entered \in Seq(Bytes)
Rising(s) == \A i, j \in 1 .. Len(s) : i < j => L!Before(s[i], s[j])
RisesTo(s, t) == \A i \in 1 .. Len(s), j \in 1 .. Len(t) : L!Before(s[i], t[j])
Below(s, n) == \A i \in 1 .. Len(s) : s[i][1] < n
OrderInv ==
  /\ Rising(stdout) /\ Rising(batch) /\ Rising(ring)
  /\ RisesTo(stdout, batch) /\ RisesTo(stdout, ring) /\ RisesTo(batch, ring)
  /\ Below(stdout, lines) /\ Below(batch, lines) /\ Below(ring, lines)
LogInv ==
  /\ LogKinds /\ OrderInv
  /\ bg # "write" => batch = <<>>
  /\ Len(ring) <= RingSize /\ Len(entered) = Len(stdout) + Len(batch) + Len(ring) + dropped
  /\ log_fp => file = stdout
  /\ logKilled => log_fp /\ short > 0
  /\ close = "closed" => bg = "end"

-----------------------------------------------------------------------------
(* The nodes of ioctl connections.                                         *)
IoNode == [mem : {"none", "live", "freed"}, prpc : BOOLEAN, need_write : BOOLEAN, freeflag : BOOLEAN]
LifeKinds ==
  /\ peer \in [Clients -> {"idle", "on", "called", "served", "gone"}]
  /\ reader \in [Clients -> {"none", "read", "flag", "notify", "close", "done"}]
  /\ fd \in [Clients -> Nat] /\ fds \in [1 .. Cardinality(Clients) -> Clients \cup {"none"}]
  /\ ioNod \in [Clients -> IoNode]
  /\ ioList \in Seq(Clients) /\ ioTo \in Seq(Clients) /\ ioFrom \in Seq(Clients)
  /\ ioSnd \in [pc : {"scan", "again", "make", "deinit"}, node : Clients \cup {"none"}]
  /\ ioSnd.pc # "scan" => ioSnd.node \in Clients
  /\ ioRcv \in [pc : {"idle", "proc", "reply"}, node : Clients \cup {"none"}]
  /\ ioRcv.pc # "idle" => ioRcv.node \in Clients
  /\ ioPlug \in {"in", "out", "teardown", "stopped"}
  /\ manner.hasty \in BOOLEAN /\ manner.unplug \in BOOLEAN
  /\ bad \subseteq {"notify", "flag", "proc", "reply", "listed", "fd"}

\* A node that the thread of its connection still reads is there; it is marked
\* to be freed before that thread closes, and freed only then.
IoNodeInv ==
  \A s \in Clients :
    /\ reader[s] = "none" => ioNod[s].mem = "none"
    /\ ioNod[s].mem = "none" => ~ ioNod[s].prpc /\ ~ ioNod[s].freeflag /\ s \notin ToSet(ioList)
    /\ reader[s] = "read" /\ ioNod[s].mem # "none" => ioNod[s].prpc
    /\ reader[s] = "flag" => ioNod[s].mem # "none" /\ ~ ioNod[s].prpc
    /\ ioNod[s].freeflag => ~ ioNod[s].prpc
    /\ ioNod[s].mem = "freed" => ioNod[s].freeflag
    /\ ioNod[s].mem # "none" /\ reader[s] \in {"notify", "close", "done"} => ioNod[s].freeflag
SndInv ==
  /\ ioSnd.pc \in {"again", "make"} => E!Live(ioSnd.node)
  /\ ioSnd.pc = "deinit" => ioNod[ioSnd.node].freeflag /\ E!Live(ioSnd.node)
ListedInv ==
  /\ IsInjective(ioList)
  /\ bad \subseteq {"notify"} =>
       \A s \in Clients : E!Live(s) <=> s \in ToSet(ioList) \/ (ioSnd.pc = "deinit" /\ ioSnd.node = s)

\* What the receive thread found was there; a descriptor in use is that of a
\* connection that is not through, and without unplugging the other way round.
RcvInv == ioRcv.pc # "idle" => ioNod[ioRcv.node].mem # "none"
FdInv ==
  /\ \A n \in DOMAIN fds : fds[n] # "none" => fd[fds[n]] = n /\ reader[fds[n]] \notin {"none", "done"}
  /\ \A s \in Clients : reader[s] # "none" => fd[s] \in DOMAIN fds
OwnFd == \A s \in Clients : reader[s] \notin {"none", "done"} => fds[fd[s]] = s

\* A call is in one place; its client and the thread of its connection wait.
Asks(s) == ioNod[s].need_write
CallInv ==
  /\ IsInjective(ioTo) /\ IsInjective(ioFrom)
  /\ ioSnd.pc = "again" => Asks(ioSnd.node)
  /\ ioSnd.pc = "deinit" => ioSnd.node \notin ToSet(ioList)
  /\ \A s \in Clients :
       /\ peer[s] \in {"on", "called", "served"} => reader[s] = "read"
       /\ reader[s] = "none" => peer[s] = "idle"
       /\ ioNod[s].freeflag => reader[s] \in {"notify", "close", "done"}
       /\ \/ Asks(s) \/ s \in ToSet(ioTo) \/ s \in ToSet(ioFrom)
          \/ (ioRcv.pc # "idle" /\ ioRcv.node = s)
          => peer[s] = "called" /\ ioNod[s].mem # "none"
       /\ Asks(s) => s \notin ToSet(ioTo)
       /\ Asks(s) \/ s \in ToSet(ioTo) => s \notin ToSet(ioFrom)
       /\ Asks(s) \/ s \in ToSet(ioTo) \/ s \in ToSet(ioFrom) => ioRcv.pc = "idle" \/ ioRcv.node # s

StayInv == ~ manner.unplug => ioPlug = "in" /\ OwnFd /\ "fd" \notin bad
CalmInv == ~ manner.unplug /\ ~ manner.hasty => CallInv /\ bad \subseteq {"notify"}

LifeInv ==
  /\ LifeKinds /\ IoNodeInv /\ SndInv /\ RcvInv /\ ListedInv /\ FdInv
  /\ StayInv /\ CalmInv

DaemonInv == StartInv /\ LogInv /\ LifeInv

\* Nothing of the start is changed.
LEMMA StartStill == ASSUME StartInv, UNCHANGED startVars PROVE StartInv'
<1>1. UNCHANGED <<main, intf, listener, head, cnt, conn, req, sta, usbfault, killed>>
  BY DEF startVars
<1>2. StartKinds'
  BY <1>1 DEF StartInv, StartKinds, B!Requests
<1>3. MainInv'
  BY <1>1 DEF StartInv, MainInv, Platforms
<1>4. ConnsInv'
  BY <1>1 DEF StartInv, ConnsInv
<1> QED
  BY <1>2, <1>3, <1>4 DEF StartInv

\* What a step of the main thread adds to the list, and sets.
LEMMA Filled ==
  /\ Append(<<>>, B!Half) = <<Platform("usb", FALSE, FALSE)>>
  /\ [<<Platform("usb", FALSE, FALSE)>> EXCEPT ![1].pact = TRUE] = <<Platform("usb", TRUE, FALSE)>>
  /\ [<<Platform("usb", TRUE, FALSE)>> EXCEPT ![1].list = TRUE] = <<Platform("usb", TRUE, TRUE)>>
  /\ Append(<<>>, Platform("uart", TRUE, TRUE)) = <<Platform("uart", TRUE, TRUE)>>
<1>1. PICK h, p, q, u : /\ h = Platform("usb", FALSE, FALSE) /\ p = Platform("usb", TRUE, FALSE)
                        /\ q = Platform("usb", TRUE, TRUE) /\ u = Platform("uart", TRUE, TRUE)
  OBVIOUS
<1>2. h = B!Half /\ [h EXCEPT !.pact = TRUE] = p /\ [p EXCEPT !.list = TRUE] = q
  <2>1. h = B!Half
    BY <1>1 DEF Platform, B!Half
  <2>2. [h EXCEPT !.pact = TRUE] = p
    <3>1. PICK k : k = [h EXCEPT !.pact = TRUE]
      OBVIOUS
    <3>2. DOMAIN k = {"name", "pact", "list"} /\ DOMAIN p = {"name", "pact", "list"}
      BY <1>1, <3>1 DEF Platform
    <3>3. k.name = p.name /\ k.pact = p.pact /\ k.list = p.list
      BY <1>1, <3>1 DEF Platform
    <3>4. k = [i \in DOMAIN k |-> k[i]] /\ p = [i \in DOMAIN p |-> p[i]]
      BY <1>1, <3>1 DEF Platform
    <3> QED
      BY <3>1, <3>2, <3>3, <3>4
  <2>3. [p EXCEPT !.list = TRUE] = q
    <3>1. PICK k : k = [p EXCEPT !.list = TRUE]
      OBVIOUS
    <3>2. DOMAIN k = {"name", "pact", "list"} /\ DOMAIN q = {"name", "pact", "list"}
      BY <1>1, <3>1 DEF Platform
    <3>3. k.name = q.name /\ k.pact = q.pact /\ k.list = q.list
      BY <1>1, <3>1 DEF Platform
    <3>4. k = [i \in DOMAIN k |-> k[i]] /\ q = [i \in DOMAIN q |-> q[i]]
      BY <1>1, <3>1 DEF Platform
    <3> QED
      BY <3>1, <3>2, <3>3, <3>4
  <2> QED
    BY <2>1, <2>2, <2>3
<1>3. [<<h>> EXCEPT ![1] = p] = <<p>> /\ [<<p>> EXCEPT ![1] = q] = <<q>> /\ <<h>>[1] = h /\ <<p>>[1] = p
  OBVIOUS
<1>4. Append(<<>>, h) = <<h>> /\ Append(<<>>, u) = <<u>>
  OBVIOUS
<1> QED
  BY <1>1, <1>2, <1>3, <1>4

\* A step of the main thread: connections are as they are.
LEMMA MainKeeps ==
  ASSUME StartInv, UNCHANGED <<conn, req, sta, killed>>, main # "poll", MainInv',
         main' \in {"listen", "check", "register", "usb", "uart", "pact", "list", "poll", "exited"},
         intf' \in {"usb", "uart", "other"}, usbfault' \in BOOLEAN,
         main' = "listen" => listener' = "none", main' = "exited" => listener' \in {"none", "gone"},
         listener # "none" => listener' # "none"
  PROVE  StartInv'
<1>1. StartKinds'
  BY DEF StartInv, StartKinds, B!Requests
<1>2. ConnsInv'
  BY DEF StartInv, ConnsInv
<1> QED
  BY <1>1, <1>2 DEF StartInv

LEMMA OptionsStep == ASSUME StartInv, B!Options PROVE StartInv'
<1>1. UNCHANGED <<conn, req, sta, killed>> /\ ~ killed /\ main # "exited"
  BY DEF B!Options, B!conns, B!Up, StartInv, MainInv
<1>2. /\ main = "options" /\ main' \in {"listen", "exited"} /\ listener' = listener /\ listener = "none"
      /\ intf' \in {"usb", "uart", "other"} /\ UNCHANGED <<head, cnt, usbfault>>
  BY StartupBounds DEF B!Options, B!plats, StartInv, ConnsInv
<1>3. MainInv'
  BY <1>1, <1>2 DEF StartInv, MainInv, Platforms
<1> QED
  BY <1>1, <1>2, <1>3, MainKeeps DEF StartInv, StartKinds, ConnsInv

LEMMA CreateListenStep == ASSUME StartInv, B!CreateListen PROVE StartInv'
<1>1. UNCHANGED <<conn, req, sta, killed>> /\ ~ killed /\ main # "exited"
  BY DEF B!CreateListen, B!conns, B!Up, StartInv, MainInv
<1>2. /\ main = "listen" /\ main' = "check" /\ listener = "none"
      /\ UNCHANGED <<intf, head, cnt, usbfault>>
  BY DEF B!CreateListen, B!plats, B!DevAdd, B!Fails, StartInv, StartKinds, MainInv, ConnsInv
<1>3. MainInv'
  BY <1>1, <1>2 DEF StartInv, MainInv, Platforms
<1> QED
  BY <1>1, <1>2, <1>3, MainKeeps DEF StartInv, StartKinds, ConnsInv

LEMMA CheckListenStep == ASSUME StartInv, B!CheckListen PROVE StartInv'
<1>1. UNCHANGED <<conn, req, sta, killed>> /\ ~ killed /\ main # "exited"
  BY DEF B!CheckListen, B!conns, B!Up, StartInv, MainInv
<1>2. /\ main = "check" /\ main' \in {"exited", "register"} /\ listener' = listener
      /\ main' = "exited" => listener \in {"none", "gone"}
      /\ UNCHANGED <<intf, head, cnt, usbfault>>
  BY DEF B!CheckListen, B!plats, B!DevAdd, B!Fails, StartInv, StartKinds, MainInv, ConnsInv
<1>3. MainInv'
  BY <1>1, <1>2 DEF StartInv, MainInv, Platforms
<1> QED
  BY <1>1, <1>2, <1>3, MainKeeps DEF StartInv, StartKinds, ConnsInv

LEMMA RegisterStep == ASSUME StartInv, B!Register PROVE StartInv'
<1>1. UNCHANGED <<conn, req, sta, killed>> /\ ~ killed /\ main # "exited"
  BY DEF B!Register, B!conns, B!Up, StartInv, MainInv
<1>2. /\ main = "register" /\ main' = (IF intf = "other" THEN "poll" ELSE intf) /\ listener' = listener
      /\ UNCHANGED <<intf, head, cnt, usbfault>> /\ main' \in {"usb", "uart", "poll"}
  BY DEF B!Register, B!plats, B!DevAdd, B!Fails, StartInv, StartKinds, MainInv, ConnsInv
<1>3. MainInv'
  <2>1. head' = <<>> /\ cnt' = 0 /\ ~ usbfault'
    BY <1>2 DEF StartInv, MainInv, Platforms
  <2>2. \/ intf' = "usb" /\ main' = "usb"
        \/ intf' = "uart" /\ main' = "uart"
        \/ intf' = "other" /\ main' = "poll"
    BY <1>2 DEF StartInv, StartKinds
  <2> QED
    BY <1>1, <2>1, <2>2 DEF MainInv, Platforms
<1> QED
  BY <1>1, <1>2, <1>3, MainKeeps DEF StartInv, StartKinds, ConnsInv

LEMMA UsbInitStep == ASSUME StartInv, B!UsbInit PROVE StartInv'
<1>1. UNCHANGED <<conn, req, sta, killed>> /\ ~ killed /\ main # "exited"
  BY DEF B!UsbInit, B!conns, B!Up, StartInv, MainInv
<1>2. /\ main = "usb" /\ cnt' = 1 /\ intf = "usb" /\ UNCHANGED <<intf, listener>>
      /\ \/ head' = Append(head, B!Half) /\ main' = "pact" /\ usbfault' = usbfault
         \/ usbfault' = TRUE /\ main' = "poll" /\ head' = head
      /\ usbfault' \in BOOLEAN
  BY DEF B!UsbInit, B!plats, B!DevAdd, B!Fails, StartInv, StartKinds, MainInv, ConnsInv
<1>3. MainInv'
  <2>1. head = <<>> /\ ~ usbfault
    BY <1>2 DEF StartInv, MainInv, Platforms
  <2>2. \/ head' = <<Platform("usb", FALSE, FALSE)>> /\ main' = "pact" /\ ~ usbfault'
        \/ head' = <<>> /\ main' = "poll" /\ usbfault'
    BY <1>2, <2>1, Filled
  <2>3. intf' = "usb" /\ cnt' = 1 /\ ~ killed'
    BY <1>1, <1>2
  <2> QED
    BY <2>2, <2>3 DEF MainInv, Platforms
<1> QED
  BY <1>1, <1>2, <1>3, MainKeeps DEF StartInv, StartKinds, ConnsInv

LEMMA UsbPactStep == ASSUME StartInv, B!UsbPact PROVE StartInv'
<1>1. UNCHANGED <<conn, req, sta, killed>> /\ ~ killed /\ main # "exited"
  BY DEF B!UsbPact, B!conns, B!Up, StartInv, MainInv
<1>2. /\ main = "pact" /\ main' = "list" /\ intf = "usb" /\ head' = [head EXCEPT ![1].pact = TRUE]
      /\ UNCHANGED <<intf, listener, cnt, usbfault>>
  BY DEF B!UsbPact, B!plats, B!DevAdd, B!Fails, StartInv, StartKinds, MainInv, ConnsInv
<1>3. MainInv'
  <2>1. head = <<Platform("usb", FALSE, FALSE)>> /\ ~ usbfault /\ cnt = 1
    BY <1>2 DEF StartInv, MainInv, Platforms
  <2>2. head' = <<Platform("usb", TRUE, FALSE)>>
    BY <1>2, <2>1, Filled
  <2> QED
    BY <1>1, <1>2, <2>1, <2>2 DEF MainInv, Platforms
<1> QED
  BY <1>1, <1>2, <1>3, MainKeeps DEF StartInv, StartKinds, ConnsInv

LEMMA UsbListStep == ASSUME StartInv, B!UsbList PROVE StartInv'
<1>1. UNCHANGED <<conn, req, sta, killed>> /\ ~ killed /\ main # "exited"
  BY DEF B!UsbList, B!conns, B!Up, StartInv, MainInv
<1>2. /\ main = "list" /\ main' = "poll" /\ intf = "usb" /\ head' = [head EXCEPT ![1].list = TRUE]
      /\ UNCHANGED <<intf, listener, cnt, usbfault>>
  BY DEF B!UsbList, B!plats, B!DevAdd, B!Fails, StartInv, StartKinds, MainInv, ConnsInv
<1>3. MainInv'
  <2>1. head = <<Platform("usb", TRUE, FALSE)>> /\ ~ usbfault /\ cnt = 1
    BY <1>2 DEF StartInv, MainInv, Platforms
  <2>2. head' = <<Platform("usb", TRUE, TRUE)>>
    BY <1>2, <2>1, Filled
  <2> QED
    BY <1>1, <1>2, <2>1, <2>2 DEF MainInv, Platforms
<1> QED
  BY <1>1, <1>2, <1>3, MainKeeps DEF StartInv, StartKinds, ConnsInv

LEMMA RegUartStep == ASSUME StartInv, B!RegUart PROVE StartInv'
<1>1. UNCHANGED <<conn, req, sta, killed>> /\ ~ killed /\ main # "exited"
  BY DEF B!RegUart, B!conns, B!Up, StartInv, MainInv
<1>2. /\ main = "uart" /\ main' = "poll" /\ intf = "uart" /\ cnt' = 1
      /\ head' = Append(head, [name |-> "uart", pact |-> TRUE, list |-> TRUE])
      /\ UNCHANGED <<intf, listener, usbfault>>
  BY DEF B!RegUart, B!plats, B!DevAdd, B!Fails, StartInv, StartKinds, MainInv, ConnsInv
<1>3. MainInv'
  <2>1. head = <<>> /\ ~ usbfault
    BY <1>2 DEF StartInv, MainInv, Platforms
  <2>2. head' = <<Platform("uart", TRUE, TRUE)>>
    BY <1>2, <2>1, Filled DEF Platform
  <2> QED
    BY <1>1, <1>2, <2>1, <2>2 DEF MainInv, Platforms
<1> QED
  BY <1>1, <1>2, <1>3, MainKeeps DEF StartInv, StartKinds, ConnsInv

\* The listen thread, and connections: the main thread is as it is.
LEMMA ListenerSteps == ASSUME StartInv, B!Listener \/ B!AcceptFails PROVE StartInv'
<1>1. /\ UNCHANGED <<main, intf, head, cnt, usbfault, req, sta, killed>> /\ main # "exited"
      /\ listener \in {"listen", "accept", "stop"} /\ listener' # "none"
      /\ conn' \in [Clients -> {"idle", "connect", "refused", "recv", "done"}]
      /\ \A c \in Clients : conn'[c] = "done" => conn[c] = "done"
  <2>1. conn \in [Clients -> {"idle", "connect", "refused", "recv", "done"}]
    BY DEF StartInv, StartKinds
  <2>2. CASE B!Listen \/ B!AcceptFails
    BY <2>1, <2>2 DEF B!Listen, B!AcceptFails, B!Up, B!plats, B!conns
  <2>3. CASE B!StopListen
    BY <2>1, <2>3 DEF B!StopListen, B!Up, B!plats
  <2>4. CASE \E c \in Clients : B!Accept(c)
    BY <2>1, <2>4 DEF B!Accept, B!Up, B!plats
  <2> QED
    BY <2>2, <2>3, <2>4 DEF B!Listener
<1>2. StartKinds'
  BY <1>1 DEF StartInv, StartKinds, B!Requests
<1>3. MainInv'
  BY <1>1 DEF StartInv, MainInv, Platforms
<1>4. ConnsInv'
  BY <1>1 DEF StartInv, ConnsInv
<1> QED
  BY <1>2, <1>3, <1>4 DEF StartInv

LEMMA ConnectStep == ASSUME StartInv, NEW c \in Clients, B!Connect(c) PROVE StartInv'
<1>1. /\ UNCHANGED <<main, intf, listener, head, cnt, usbfault, killed>>
      /\ sta' = [sta EXCEPT ![c] = 0]
      /\ \E s \in B!Tried : conn' = [conn EXCEPT ![c] = s]
      /\ \E r \in B!Requests : req' = [req EXCEPT ![c] = r]
  BY DEF B!Connect, B!plats
<1>2. PICK s \in {"connect", "refused"} :
        conn' = [conn EXCEPT ![c] = s] /\ (s = "connect" => listener # "none")
  BY <1>1 DEF B!Tried
<1>3. StartKinds'
  BY <1>1, <1>2 DEF StartInv, StartKinds, B!Requests
<1>4. MainInv'
  BY <1>1 DEF StartInv, MainInv, Platforms
<1>5. ConnsInv'
  <2>1. ASSUME NEW d \in Clients
        PROVE  /\ conn'[d] \in {"connect", "recv", "done"} => listener # "none"
               /\ conn'[d] = "done" => d # c /\ conn[d] = "done" /\ sta'[d] = sta[d] /\ req'[d] = req[d]
    BY <1>1, <1>2 DEF StartInv, StartKinds, ConnsInv
  <2> QED
    BY <1>1, <2>1 DEF StartInv, ConnsInv
<1> QED
  BY <1>3, <1>4, <1>5 DEF StartInv

\* A platform is read as it is in the list: only that of USB may not be filled.
LEMMA AskStep == ASSUME StartInv, NEW c \in Clients, B!Ask(c) PROVE StartInv'
<1>1. /\ UNCHANGED <<main, intf, listener, head, cnt, usbfault, req>> /\ conn[c] = "recv" /\ ~ killed
  BY DEF B!Ask, B!plats, B!Up
<1>2. CASE \A p \in B!ToSet(head) : B!Readable(p, req[c])
  <2>1. /\ conn' = [conn EXCEPT ![c] = "done"] /\ killed' = killed
        /\ sta' = [sta EXCEPT ![c] = IF req[c] = "uart" /\ B!PlatByName("uart") = {} THEN -1 ELSE 0]
    BY <1>2 DEF B!Ask
  <2>2. PICK x \in {0, -1} : /\ sta' = [sta EXCEPT ![c] = x]
                             /\ x = 0 /\ req[c] = "uart" => B!PlatByName("uart") # {}
    <3>1. PICK x : x = IF req[c] = "uart" /\ B!PlatByName("uart") = {} THEN -1 ELSE 0
      OBVIOUS
    <3>2. x \in {0, -1} /\ (x = 0 /\ req[c] = "uart" => B!PlatByName("uart") # {})
      BY <3>1
    <3>3. sta' = [sta EXCEPT ![c] = x]
      BY <2>1, <3>1
    <3> QED
      BY <3>2, <3>3
  <2>3. StartKinds'
    BY <1>1, <2>1, <2>2 DEF StartInv, StartKinds, B!Requests
  <2>4. MainInv'
    BY <1>1, <2>1 DEF StartInv, MainInv, Platforms
  <2>5. B!PlatByName("uart") # {} => main = "poll" /\ intf = "uart"
    <3>1. B!ToSet(<<>>) = {} /\ \A p : B!ToSet(<<p>>) = {p}
      BY DEF B!ToSet
    <3> QED
      BY <3>1 DEF B!PlatByName, StartInv, MainInv, Platforms, Platform
  <2>6. ConnsInv'
    <3>1. ASSUME NEW d \in Clients
          PROVE  /\ conn'[d] \in {"connect", "recv", "done"} => listener # "none"
                 /\ conn'[d] = "done" /\ sta'[d] = 0 /\ req[d] = "uart" => main = "poll" /\ intf = "uart"
      BY <1>1, <2>1, <2>2, <2>5 DEF StartInv, StartKinds, ConnsInv
    <3> QED
      BY <1>1, <3>1 DEF StartInv, ConnsInv
  <2> QED
    BY <2>3, <2>4, <2>6 DEF StartInv
<1>3. CASE ~ \A p \in B!ToSet(head) : B!Readable(p, req[c])
  <2>1. killed' = TRUE /\ UNCHANGED <<conn, sta>>
    BY <1>3 DEF B!Ask
  <2>2. main \in {"pact", "list"}
    <3>1. B!ToSet(<<>>) = {} /\ \A p : B!ToSet(<<p>>) = {p}
      BY DEF B!ToSet
    <3>2. B!Readable(Platform(intf, TRUE, TRUE), req[c])
      BY DEF B!Readable, Platform
    <3> QED
      BY <1>3, <3>1, <3>2 DEF StartInv, MainInv, Platforms
  <2>3. StartKinds'
    BY <1>1, <2>1 DEF StartInv, StartKinds, B!Requests
  <2>4. MainInv'
    BY <1>1, <2>1, <2>2 DEF StartInv, MainInv, Platforms
  <2>5. ConnsInv'
    BY <1>1, <2>1 DEF StartInv, ConnsInv
  <2> QED
    BY <2>3, <2>4, <2>5 DEF StartInv
<1> QED
  BY <1>2, <1>3

LEMMA StartNext == ASSUME StartInv, B!Next PROVE StartInv'
<1> QED
  BY OptionsStep, CreateListenStep, CheckListenStep, RegisterStep, UsbInitStep, UsbPactStep, UsbListStep,
     RegUartStep, ListenerSteps, ConnectStep, AskStep DEF B!Next, B!Main

LEMMA StartInit == ASSUME B!Init PROVE StartInv
<1>1. StartKinds
  BY DEF B!Init, StartKinds, B!Requests
<1>2. MainInv
  BY DEF B!Init, MainInv, Platforms
<1>3. ConnsInv
  BY DEF B!Init, ConnsInv
<1> QED
  BY <1>1, <1>2, <1>3 DEF StartInv

LEMMA StartImplies == ASSUME StartInv PROVE B!StartSafe
<1>1. B!ToSet(<<>>) = {} /\ \A p : B!ToSet(<<p>>) = {p} /\ Len(<<p>>) = 1 /\ Len(<<>>) = 0 /\ <<p>> # <<>>
  BY DEF B!ToSet
<1>2. killed => intf = "usb" /\ main \in {"pact", "list"}
  BY DEF StartInv, MainInv
<1>3. ASSUME main = "poll"
      PROVE  /\ \A p \in B!ToSet(head) : p.name = intf /\ p.pact /\ p.list
             /\ Len(head) = (IF intf = "other" \/ usbfault THEN 0 ELSE 1)
  <2>1. CASE intf # "other" /\ ~ usbfault
    <3>1. head = <<Platform(intf, TRUE, TRUE)>>
      BY <1>3, <2>1 DEF StartInv, MainInv, Platforms
    <3> QED
      BY <1>1, <2>1, <3>1 DEF Platform
  <2>2. CASE intf = "other" \/ usbfault
    BY <1>1, <1>3, <2>2 DEF StartInv, MainInv, Platforms
  <2> QED
    BY <2>1, <2>2
<1>4. cnt # Len(head) => usbfault
  <2>1. PICK p, q, r : /\ p = Platform("usb", FALSE, FALSE) /\ q = Platform("usb", TRUE, FALSE)
                       /\ r = Platform(intf, TRUE, TRUE)
    OBVIOUS
  <2>2. \/ head = <<>> \/ head = <<p>> \/ head = <<q>> \/ head = <<r>>
    BY <2>1 DEF StartInv, MainInv, Platforms
  <2> QED
    BY <1>1, <2>1 DEF StartInv, MainInv, Platforms
<1>5. main = "exited" => head = <<>> /\ listener \in {"none", "gone"}
  BY DEF StartInv, MainInv, ConnsInv, Platforms
<1>6. \A c \in Clients : conn[c] = "done" /\ sta[c] = 0 /\ req[c] = "uart" => intf = "uart" /\ head # <<>>
  <2>1. main = "poll" /\ intf = "uart" => head = <<Platform(intf, TRUE, TRUE)>>
    BY DEF StartInv, MainInv, Platforms
  <2> QED
    BY <1>1, <2>1 DEF StartInv, ConnsInv
<1> QED
  BY <1>2, <1>3, <1>4, <1>5, <1>6 DEF B!StartSafe

-----------------------------------------------------------------------------
(* The log: sequences of bytes that are put together and cut.              *)

LEMMA CutBytes ==
  ASSUME NEW q \in Seq(Bytes), NEW m \in Nat \ {0}, NEW n \in Int, n <= Len(q)
  PROVE  /\ SubSeq(q, m, n) \in Seq(Bytes)
         /\ Len(SubSeq(q, m, n)) = IF m <= n THEN n - m + 1 ELSE 0
         /\ \A i \in 1 .. Len(SubSeq(q, m, n)) :
              m + i - 1 \in 1 .. Len(q) /\ SubSeq(q, m, n)[i] = q[m + i - 1]
<1>1. \A i \in m .. n : q[i] \in Bytes
  OBVIOUS
<1>2. /\ SubSeq(q, m, n) \in Seq(Bytes)
      /\ Len(SubSeq(q, m, n)) = IF m <= n THEN n - m + 1 ELSE 0
      /\ \A i \in 1 .. n - m + 1 : SubSeq(q, m, n)[i] = q[m + i - 1]
  BY <1>1, SubSeqProperties
<1>3. ASSUME NEW i \in 1 .. Len(SubSeq(q, m, n))
      PROVE  m + i - 1 \in 1 .. Len(q) /\ SubSeq(q, m, n)[i] = q[m + i - 1]
  <2>1. i \in 1 .. n - m + 1 /\ Len(q) \in Nat
    BY <1>2
  <2> QED
    BY <1>2, <2>1
<1> QED
  BY <1>2, <1>3

LEMMA CatBytes ==
  ASSUME NEW s \in Seq(Bytes), NEW t \in Seq(Bytes)
  PROVE  /\ s \o t \in Seq(Bytes) /\ Len(s \o t) = Len(s) + Len(t)
         /\ \A i \in 1 .. Len(s \o t) :
              \/ i \in 1 .. Len(s) /\ (s \o t)[i] = s[i]
              \/ i > Len(s) /\ i - Len(s) \in 1 .. Len(t) /\ (s \o t)[i] = t[i - Len(s)]
<1>1. /\ s \o t \in Seq(Bytes) /\ Len(s \o t) = Len(s) + Len(t) /\ Len(s) \in Nat /\ Len(t) \in Nat
      /\ \A i \in 1 .. Len(s) + Len(t) : (s \o t)[i] = IF i <= Len(s) THEN s[i] ELSE t[i - Len(s)]
  BY ConcatProperties
<1> QED
  BY <1>1

LEMMA CatRises ==
  ASSUME NEW s \in Seq(Bytes), NEW t \in Seq(Bytes)
  PROVE  Rising(s) /\ Rising(t) /\ RisesTo(s, t) => Rising(s \o t)
<1> SUFFICES ASSUME Rising(s), Rising(t), RisesTo(s, t),
                    NEW i \in 1 .. Len(s \o t), NEW j \in 1 .. Len(s \o t), i < j
             PROVE  L!Before((s \o t)[i], (s \o t)[j])
  BY DEF Rising
<1>1. /\ \/ i \in 1 .. Len(s) /\ (s \o t)[i] = s[i]
         \/ i > Len(s) /\ i - Len(s) \in 1 .. Len(t) /\ (s \o t)[i] = t[i - Len(s)]
      /\ \/ j \in 1 .. Len(s) /\ (s \o t)[j] = s[j]
         \/ j > Len(s) /\ j - Len(s) \in 1 .. Len(t) /\ (s \o t)[j] = t[j - Len(s)]
  BY CatBytes
<1>2. CASE i \in 1 .. Len(s) /\ (s \o t)[i] = s[i] /\ j \in 1 .. Len(s) /\ (s \o t)[j] = s[j]
  BY <1>2 DEF Rising
<1>3. CASE /\ i \in 1 .. Len(s) /\ (s \o t)[i] = s[i]
           /\ j - Len(s) \in 1 .. Len(t) /\ (s \o t)[j] = t[j - Len(s)]
  BY <1>3 DEF RisesTo
<1>4. CASE /\ i - Len(s) \in 1 .. Len(t) /\ (s \o t)[i] = t[i - Len(s)]
           /\ j - Len(s) \in 1 .. Len(t) /\ (s \o t)[j] = t[j - Len(s)]
  <2>1. i - Len(s) < j - Len(s)
    OBVIOUS
  <2> QED
    BY <1>4, <2>1 DEF Rising
<1> QED
  BY <1>1, <1>2, <1>3, <1>4

LEMMA CatRisesTo ==
  ASSUME NEW s \in Seq(Bytes), NEW t \in Seq(Bytes), NEW u \in Seq(Bytes)
  PROVE  /\ RisesTo(s, u) /\ RisesTo(t, u) => RisesTo(s \o t, u)
         /\ RisesTo(u, s) /\ RisesTo(u, t) => RisesTo(u, s \o t)
<1>1. ASSUME RisesTo(s, u), RisesTo(t, u), NEW i \in 1 .. Len(s \o t), NEW j \in 1 .. Len(u)
      PROVE  L!Before((s \o t)[i], u[j])
  <2>1. \/ i \in 1 .. Len(s) /\ (s \o t)[i] = s[i]
        \/ i - Len(s) \in 1 .. Len(t) /\ (s \o t)[i] = t[i - Len(s)]
    BY CatBytes
  <2>2. CASE i \in 1 .. Len(s) /\ (s \o t)[i] = s[i]
    BY <1>1, <2>2 DEF RisesTo
  <2>3. CASE i - Len(s) \in 1 .. Len(t) /\ (s \o t)[i] = t[i - Len(s)]
    BY <1>1, <2>3 DEF RisesTo
  <2> QED
    BY <2>1, <2>2, <2>3
<1>2. ASSUME RisesTo(u, s), RisesTo(u, t), NEW i \in 1 .. Len(u), NEW j \in 1 .. Len(s \o t)
      PROVE  L!Before(u[i], (s \o t)[j])
  <2>1. \/ j \in 1 .. Len(s) /\ (s \o t)[j] = s[j]
        \/ j - Len(s) \in 1 .. Len(t) /\ (s \o t)[j] = t[j - Len(s)]
    BY CatBytes
  <2>2. CASE j \in 1 .. Len(s) /\ (s \o t)[j] = s[j]
    BY <1>2, <2>2 DEF RisesTo
  <2>3. CASE j - Len(s) \in 1 .. Len(t) /\ (s \o t)[j] = t[j - Len(s)]
    BY <1>2, <2>3 DEF RisesTo
  <2> QED
    BY <2>1, <2>2, <2>3
<1> QED
  BY <1>1, <1>2 DEF RisesTo

LEMMA CatBelow ==
  ASSUME NEW s \in Seq(Bytes), NEW t \in Seq(Bytes), NEW n \in Nat
  PROVE  Below(s, n) /\ Below(t, n) => Below(s \o t, n)
<1> SUFFICES ASSUME Below(s, n), Below(t, n), NEW i \in 1 .. Len(s \o t) PROVE (s \o t)[i][1] < n
  BY DEF Below
<1> QED
  BY CatBytes DEF Below

LEMMA CutRises ==
  ASSUME NEW q \in Seq(Bytes), NEW m \in Nat \ {0}, NEW n \in Int, n <= Len(q)
  PROVE  /\ Rising(q) => Rising(SubSeq(q, m, n))
         /\ \A l : Below(q, l) => Below(SubSeq(q, m, n), l)
         /\ \A s \in Seq(Bytes) : RisesTo(s, q) => RisesTo(s, SubSeq(q, m, n))
         /\ \A s \in Seq(Bytes) : RisesTo(q, s) => RisesTo(SubSeq(q, m, n), s)
<1> DEFINE c == SubSeq(q, m, n)
<1>1. \A i \in 1 .. Len(c) : m + i - 1 \in 1 .. Len(q) /\ c[i] = q[m + i - 1]
  BY CutBytes
<1>2. Len(c) \in Nat
  BY CutBytes
<1> HIDE DEF c
<1>3. Rising(q) => Rising(c)
  <2> SUFFICES ASSUME Rising(q), NEW i \in 1 .. Len(c), NEW j \in 1 .. Len(c), i < j
               PROVE  L!Before(c[i], c[j])
    BY DEF Rising
  <2>1. m + i - 1 < m + j - 1
    BY <1>2
  <2> QED
    BY <1>1, <2>1 DEF Rising
<1>4. \A l : Below(q, l) => Below(c, l)
  BY <1>1 DEF Below
<1>5. \A s \in Seq(Bytes) : RisesTo(s, q) => RisesTo(s, c)
  BY <1>1 DEF RisesTo
<1>6. \A s \in Seq(Bytes) : RisesTo(q, s) => RisesTo(c, s)
  BY <1>1 DEF RisesTo
<1> QED
  BY <1>3, <1>4, <1>5, <1>6 DEF c

\* The bytes of a new line come after those of all lines before.
NewLine(l, n) == [k \in 1 .. n |-> <<l, k>>]
LEMMA NewBytes ==
  ASSUME NEW l \in Nat, NEW n \in Nat
  PROVE  \A q : q = NewLine(l, n) =>
           /\ q \in Seq(Bytes) /\ Len(q) = n /\ Rising(q) /\ Below(q, l + 1)
           /\ \A s \in Seq(Bytes) : Below(s, l) => RisesTo(s, q)
<1> SUFFICES ASSUME NEW q, q = NewLine(l, n)
             PROVE  /\ q \in Seq(Bytes) /\ Len(q) = n /\ Rising(q) /\ Below(q, l + 1)
                    /\ \A s \in Seq(Bytes) : Below(s, l) => RisesTo(s, q)
  BY Zenon
<1>1. q \in Seq(Bytes) /\ Len(q) = n
  BY DEF Bytes, NewLine
<1>2. \A k \in 1 .. n : q[k] = <<l, k>> /\ q[k][1] = l /\ q[k][2] = k
  BY DEF NewLine
<1>3. Rising(q)
  BY <1>1, <1>2 DEF Rising, L!Before
<1>4. Below(q, l + 1)
  BY <1>1, <1>2 DEF Below
<1>5. ASSUME NEW s \in Seq(Bytes), Below(s, l) PROVE RisesTo(s, q)
  BY <1>1, <1>2, <1>5 DEF RisesTo, Below, L!Before
<1> QED
  BY <1>1, <1>3, <1>4, <1>5

LEMMA BelowMore ==
  ASSUME NEW s \in Seq(Bytes), NEW l \in Nat
  PROVE  Below(s, l) => Below(s, l + 1)
<1> SUFFICES ASSUME Below(s, l), NEW i \in 1 .. Len(s) PROVE s[i][1] < l + 1
  BY DEF Below
<1>1. s[i][1] \in Nat /\ s[i][1] < l
  BY DEF Below, Bytes
<1> QED
  BY <1>1

-----------------------------------------------------------------------------
(* The steps of the log.                                                   *)

LEMMA LogInit == ASSUME L!Init PROVE LogInv
<1>1. LogKinds
  <2>1. log_fp \in BOOLEAN /\ logKilled \in BOOLEAN
    BY Zenon DEF L!Init, L!LogFile
  <2>2. <<>> \in Seq(Bytes) /\ 0 \in Nat
    OBVIOUS
  <2> QED
    BY <2>1, <2>2 DEF L!Init, LogKinds
<1>2. OrderInv
  BY DEF L!Init, OrderInv, Rising, RisesTo, Below
<1> QED
  BY <1>1, <1>2, LogBounds DEF L!Init, LogInv

LEMMA LogStill == ASSUME LogInv, UNCHANGED logVars PROVE LogInv'
<1>1. LogKinds' /\ OrderInv'
  BY DEF LogInv, LogKinds, OrderInv, logVars, Rising, RisesTo, Below
<1> QED
  BY <1>1 DEF LogInv, logVars

\* The ring and what was written keep their bytes.
LEMMA BytesStay ==
  ASSUME LogInv, UNCHANGED <<stdout, batch, ring, lines>>
  PROVE  OrderInv'
<1> QED
  BY DEF LogInv, OrderInv, Rising, RisesTo, Below

LEMMA PutKeeps ==
  ASSUME LogInv, ~ logKilled, close = "open", lines' = lines + 1, NEW n \in 1 .. LineMax,
         L!Put([k \in 1 .. n |-> <<lines, k>>]), bg' = L!Signalled(bg), L!Free,
         UNCHANGED <<level, batch, stop_flg, close, log_fp, stdout, file, short, dropped, logKilled, missed>>
  PROVE  LogInv'
<1>1. PICK q : q = NewLine(lines, n)
  OBVIOUS
<1>2. n \in Nat /\ lines \in Nat /\ Len(ring) \in Nat /\ RingSize \in Nat /\ Len(ring) <= RingSize
  BY LogBounds DEF LogInv, LogKinds
<1>3. /\ q \in Seq(Bytes) /\ Len(q) = n /\ Rising(q) /\ Below(q, lines + 1)
      /\ \A s \in Seq(Bytes) : Below(s, lines) => RisesTo(s, q)
  BY <1>1, <1>2, NewBytes, Zenon
<1>4. PICK m \in Nat : m <= n /\ m <= RingSize - Len(ring) /\ m = L!Min2(n, RingSize - Len(ring))
  <2>1. PICK m : m = IF n < RingSize - Len(ring) THEN n ELSE RingSize - Len(ring)
    OBVIOUS
  <2>2. m \in Nat /\ m <= n /\ m <= RingSize - Len(ring)
    BY <1>2, <2>1
  <2> QED
    BY <2>1, <2>2 DEF L!Min2
<1>5. PICK c : c = SubSeq(q, 1, m)
  OBVIOUS
<1>6. ring' = ring \o c /\ entered' = entered \o c
  BY <1>1, <1>3, <1>4, <1>5 DEF L!Put, NewLine
<1>7. c \in Seq(Bytes) /\ Len(c) = m
  BY <1>3, <1>4, <1>5, CutBytes
<1>8. /\ Rising(c) /\ Below(c, lines + 1)
      /\ \A s \in Seq(Bytes) : Below(s, lines) => RisesTo(s, c)
  <2>1. 1 \in Nat \ {0} /\ m \in Int /\ m <= Len(q)
    BY <1>3, <1>4
  <2> QED
    BY <1>3, <1>5, <2>1, CutRises, Zenon
<1>9. stdout \in Seq(Bytes) /\ batch \in Seq(Bytes) /\ ring \in Seq(Bytes) /\ entered \in Seq(Bytes)
  BY DEF LogInv, LogKinds
<1>10. OrderInv
  BY DEF LogInv
<1>11. RisesTo(stdout, c) /\ RisesTo(batch, c) /\ RisesTo(ring, c)
  BY <1>8, <1>9, <1>10, Zenon DEF OrderInv
<1>12. Below(stdout, lines + 1) /\ Below(batch, lines + 1) /\ Below(ring, lines + 1)
  BY <1>2, <1>9, <1>10, BelowMore, Zenon DEF OrderInv
<1>13. Rising(ring \o c)
  BY <1>7, <1>8, <1>9, <1>10, <1>11, CatRises, Zenon DEF OrderInv
<1>14. RisesTo(stdout, ring \o c) /\ RisesTo(batch, ring \o c)
  BY <1>7, <1>9, <1>10, <1>11, CatRisesTo, Zenon DEF OrderInv
<1>15. Below(ring \o c, lines + 1)
  <2>1. lines + 1 \in Nat
    BY <1>2
  <2> QED
    BY <1>7, <1>8, <1>9, <1>12, <2>1, CatBelow, Zenon
<1>16. OrderInv'
  <2>1. stdout' = stdout /\ batch' = batch /\ lines' = lines + 1
    OBVIOUS
  <2>2. Rising(stdout') /\ Rising(batch') /\ RisesTo(stdout', batch')
    BY <1>10, <2>1, Zenon DEF OrderInv
  <2>3. Rising(ring') /\ RisesTo(stdout', ring') /\ RisesTo(batch', ring')
    BY <1>6, <1>13, <1>14, <2>1, Zenon
  <2>4. Below(stdout', lines') /\ Below(batch', lines') /\ Below(ring', lines')
    BY <1>6, <1>12, <1>15, <2>1, Zenon
  <2> QED
    BY <2>2, <2>3, <2>4 DEF OrderInv, Rising, RisesTo, Below
<1>17. /\ Len(ring \o c) = Len(ring) + m /\ Len(entered \o c) = Len(entered) + m
       /\ ring \o c \in Seq(Bytes) /\ entered \o c \in Seq(Bytes)
  BY <1>7, <1>9, CatBytes
<1>18. LogKinds'
  BY <1>2, <1>6, <1>17 DEF LogInv, LogKinds, L!Signalled
<1>19. /\ Len(ring') <= RingSize
       /\ Len(entered') = Len(stdout') + Len(batch') + Len(ring') + dropped'
  <2>1. PICK a, b, e, d : a = Len(stdout) /\ b = Len(batch) /\ e = Len(entered) /\ d = dropped
    OBVIOUS
  <2>2. a \in Nat /\ b \in Nat /\ e \in Nat /\ d \in Nat /\ e = a + b + Len(ring) + d
    BY <1>9, <2>1 DEF LogInv, LogKinds
  <2>3. e + m = a + b + (Len(ring) + m) + d /\ Len(ring) + m <= RingSize
    BY <1>2, <1>4, <2>2
  <2> QED
    BY <1>6, <1>17, <2>1, <2>3
<1>20. bg' # "write" => batch' = <<>>
  BY DEF LogInv, L!Signalled
<1> QED
  BY <1>16, <1>18, <1>19, <1>20 DEF LogInv

LEMMA LogStep == ASSUME LogInv, L!Log PROVE LogInv'
<1>1. /\ ~ logKilled /\ close = "open" /\ L!Free /\ lines' = lines + 1
      /\ UNCHANGED <<level, batch, stop_flg, close, log_fp, stdout, file, short, dropped, logKilled, missed>>
  BY DEF L!Log, L!outs
<1>2. PICK n \in 1 .. LineMax :
        \/ UNCHANGED <<bg, ring, entered>>
        \/ L!Put([k \in 1 .. n |-> <<lines, k>>]) /\ bg' = L!Signalled(bg)
  BY DEF L!Log, L!ring
<1>3. CASE UNCHANGED <<bg, ring, entered>>
  <2>1. OrderInv'
    <3>1. stdout \in Seq(Bytes) /\ batch \in Seq(Bytes) /\ ring \in Seq(Bytes) /\ lines \in Nat /\ OrderInv
      BY DEF LogInv, LogKinds
    <3>2. Below(stdout, lines + 1) /\ Below(batch, lines + 1) /\ Below(ring, lines + 1)
      BY <3>1, BelowMore, Zenon DEF OrderInv
    <3> QED
      BY <1>1, <1>3, <3>1, <3>2 DEF OrderInv, Rising, RisesTo, Below
  <2>2. LogKinds'
    BY <1>1, <1>3 DEF LogInv, LogKinds
  <2> QED
    BY <1>1, <1>3, <2>1, <2>2 DEF LogInv
<1>4. CASE L!Put([k \in 1 .. n |-> <<lines, k>>]) /\ bg' = L!Signalled(bg)
  BY <1>1, <1>4, PutKeeps
<1> QED
  BY <1>2, <1>3, <1>4

LEMMA QuietLogSteps ==
  ASSUME LogInv, L!SetLevel \/ L!Lock \/ L!Wait \/ L!CloseSet \/ L!CloseSignal \/ L!CloseJoin
  PROVE  LogInv'
<1>1. /\ UNCHANGED <<ring, entered, batch, log_fp, lines, stdout, file, short, dropped, logKilled>>
      /\ level' = level \/ level' \in {0, 1}
      /\ \/ bg' = bg
         \/ bg = "lock" /\ bg' \in {"look", "end"}
         \/ bg = "look" /\ bg' = "wait"
         \/ bg = "wait" /\ bg' = "woken"
      /\ close' = "closed" => bg' = "end"
  BY DEF LogInv, L!SetLevel, L!Lock, L!Wait, L!CloseSet, L!CloseSignal, L!CloseJoin, L!ring, L!outs,
         L!Levels, L!Signalled
<1>2. OrderInv'
  BY <1>1, BytesStay
<1>3. LogKinds'
  BY <1>1 DEF LogInv, LogKinds
<1> QED
  BY <1>1, <1>2, <1>3 DEF LogInv

LEMMA OutStep == ASSUME LogInv, L!Out PROVE LogInv'
<1>1. /\ bg \in {"look", "woken"} /\ bg' = "write" /\ L!Take(L!Min2(Len(ring), BatchSize))
      /\ UNCHANGED <<level, stop_flg, close, log_fp, lines, stdout, file, short, dropped, logKilled>>
  BY DEF L!Out, L!outs
<1>2. /\ stdout \in Seq(Bytes) /\ ring \in Seq(Bytes) /\ Len(ring) \in Nat /\ batch = <<>> /\ OrderInv
      /\ BatchSize \in Nat
  BY <1>1, LogBounds DEF LogInv, LogKinds
<1>3. PICK n \in Nat : n <= Len(ring) /\ n = L!Min2(Len(ring), BatchSize)
  BY <1>2 DEF L!Min2
<1>4. PICK a, b : a = SubSeq(ring, 1, n) /\ b = SubSeq(ring, n + 1, Len(ring))
  OBVIOUS
<1>5. batch' = a /\ ring' = b /\ entered' = entered
  BY <1>1, <1>3, <1>4 DEF L!Take
<1>6. /\ a \in Seq(Bytes) /\ Len(a) = n /\ \A i \in 1 .. Len(a) : i \in 1 .. Len(ring) /\ a[i] = ring[i]
  BY <1>2, <1>3, <1>4, CutBytes
<1>7. PICK k \in Nat : k = n + 1
  OBVIOUS
<1>8. b = SubSeq(ring, k, Len(ring)) /\ k \in Nat \ {0}
  BY <1>4, <1>7
<1>9. /\ b \in Seq(Bytes) /\ Len(b) = (IF k <= Len(ring) THEN Len(ring) - k + 1 ELSE 0)
      /\ \A j \in 1 .. Len(b) : k + j - 1 \in 1 .. Len(ring) /\ b[j] = ring[k + j - 1]
  BY <1>2, <1>8, CutBytes
<1>10. Len(b) = Len(ring) - n
  BY <1>2, <1>3, <1>7, <1>9
<1>11. RisesTo(a, b)
  <2> SUFFICES ASSUME NEW i \in 1 .. Len(a), NEW j \in 1 .. Len(b) PROVE L!Before(a[i], b[j])
    BY DEF RisesTo
  <2>1. i < k + j - 1
    BY <1>6, <1>7, <1>9
  <2> QED
    BY <1>2, <1>6, <1>9, <2>1 DEF OrderInv, Rising
<1>12. 1 \in Nat \ {0} /\ n \in Int /\ n <= Len(ring) /\ Len(ring) \in Int /\ Len(ring) <= Len(ring)
  BY <1>2, <1>3
<1>13. Rising(a) /\ Below(a, lines) /\ RisesTo(stdout, a)
  BY <1>2, <1>4, <1>12, CutRises, Zenon DEF OrderInv
<1>14. Rising(b) /\ Below(b, lines) /\ RisesTo(stdout, b)
  BY <1>2, <1>8, <1>12, CutRises, Zenon DEF OrderInv
<1>15. OrderInv'
  BY <1>1, <1>2, <1>5, <1>11, <1>13, <1>14 DEF OrderInv, Rising, RisesTo, Below
<1>16. LogKinds'
  BY <1>1, <1>5, <1>6, <1>9 DEF LogInv, LogKinds
<1>17. /\ Len(ring') <= RingSize
       /\ Len(entered') = Len(stdout') + Len(batch') + Len(ring') + dropped'
  <2>1. Len(batch) = 0 /\ Len(stdout) \in Nat /\ dropped \in Nat
    BY <1>2 DEF LogInv, LogKinds
  <2>2. Len(entered) = Len(stdout) + Len(batch) + Len(ring) + dropped /\ Len(ring) <= RingSize
    BY DEF LogInv
  <2>3. PICK e, s \in Nat, r \in Nat : e = Len(entered) /\ s = Len(stdout) /\ r = Len(ring)
    BY <1>2, <2>1
  <2>4. e = s + 0 + r + dropped /\ r <= RingSize
    BY <2>1, <2>2, <2>3
  <2>5. e = s + n + (r - n) + dropped /\ r - n <= RingSize
    BY <1>3, <2>1, <2>3, <2>4, LogBounds
  <2>6. Len(entered') = e /\ Len(stdout') = s /\ Len(batch') = n /\ Len(ring') = r - n /\ dropped' = dropped
    BY <1>1, <1>5, <1>6, <1>10, <2>3
  <2> QED
    BY <2>5, <2>6
<1> QED
  BY <1>1, <1>15, <1>16, <1>17 DEF LogInv

LEMMA WriteStep == ASSUME LogInv, L!Write PROVE LogInv'
<1>1. PICK n \in -1 .. Len(batch) :
        /\ ~ logKilled /\ bg = "write" /\ bg' = "lock" /\ batch' = <<>>
        /\ UNCHANGED <<level, ring, entered, stop_flg, close, log_fp, lines>>
        /\ short' = short + (IF n < Len(batch) THEN 1 ELSE 0)
        /\ logKilled' = (log_fp /\ n = -1)
        /\ stdout' = stdout \o SubSeq(batch, 1, n)
        /\ file' = (IF log_fp THEN file \o SubSeq(batch, 1, n) ELSE file)
        /\ dropped' = dropped + Len(batch) - Len(SubSeq(batch, 1, n))
  <2>1. batch \in Seq(Bytes)
    BY DEF LogInv, LogKinds
  <2>2. Len(batch) \in -1 .. Len(batch)
    BY <2>1
  <2> QED
    BY <2>2 DEF L!Write, L!ring
<1>2. PICK c : c = SubSeq(batch, 1, n)
  OBVIOUS
<1>3. /\ batch \in Seq(Bytes) /\ stdout \in Seq(Bytes) /\ ring \in Seq(Bytes) /\ file \in Seq(Bytes)
      /\ OrderInv /\ Len(batch) \in Nat /\ Len(stdout) \in Nat /\ Len(ring) \in Nat
      /\ dropped \in Nat /\ short \in Nat
  BY DEF LogInv, LogKinds
<1>4. 1 \in Nat \ {0} /\ n \in Int /\ n <= Len(batch)
  BY <1>3
<1>5. c \in Seq(Bytes) /\ Len(c) \in Nat /\ Len(c) <= Len(batch)
  BY <1>2, <1>3, <1>4, CutBytes
<1>6. Rising(c) /\ Below(c, lines) /\ RisesTo(stdout, c) /\ RisesTo(c, ring)
  BY <1>2, <1>3, <1>4, CutRises, Zenon DEF OrderInv
<1>7. Rising(stdout \o c)
  BY <1>3, <1>5, <1>6, CatRises, Zenon DEF OrderInv
<1>8. RisesTo(stdout \o c, ring)
  BY <1>3, <1>5, <1>6, CatRisesTo, Zenon DEF OrderInv
<1>9. Below(stdout \o c, lines)
  <2>1. lines \in Nat
    BY DEF LogInv, LogKinds
  <2> QED
    BY <1>3, <1>5, <1>6, <2>1, CatBelow, Zenon DEF OrderInv
<1>10. OrderInv'
  <2>1. Rising(stdout') /\ RisesTo(stdout', ring) /\ Below(stdout', lines)
    BY <1>1, <1>2, <1>7, <1>8, <1>9, Zenon
  <2>2. batch' = <<>> /\ ring' = ring /\ lines' = lines
    BY <1>1
  <2>3. Rising(batch') /\ RisesTo(stdout', batch') /\ RisesTo(batch', ring') /\ Below(batch', lines')
    BY <2>2 DEF Rising, RisesTo, Below
  <2>4. Rising(ring') /\ Below(ring', lines')
    BY <1>3, <2>2, Zenon DEF OrderInv
  <2>5. Rising(stdout') /\ RisesTo(stdout', ring') /\ Below(stdout', lines')
    BY <2>1, <2>2, Zenon
  <2> QED
    BY <2>3, <2>4, <2>5 DEF OrderInv, Rising, RisesTo, Below
<1>11. stdout \o c \in Seq(Bytes) /\ file \o c \in Seq(Bytes) /\ Len(stdout \o c) = Len(stdout) + Len(c)
  BY <1>3, <1>5, CatBytes
<1>12. LogKinds'
  <2>1. dropped' \in Nat /\ short' \in Nat
    BY <1>1, <1>2, <1>3, <1>5
  <2>4. logKilled' \in BOOLEAN
    BY <1>1, Zenon
  <2>5. /\ bg' \in {"lock", "look", "wait", "woken", "write", "end"} /\ level' \in {0, 1} /\ lines' \in Nat
        /\ log_fp' \in BOOLEAN /\ ring' \in Seq(Bytes) /\ entered' \in Seq(Bytes)
    BY <1>1 DEF LogInv, LogKinds
  <2>2. stdout' \in Seq(Bytes) /\ file' \in Seq(Bytes) /\ batch' \in Seq(Bytes)
    BY <1>1, <1>2, <1>3, <1>11
  <2> QED
    BY <1>1, <2>1, <2>2, <2>4, <2>5, Zenon DEF LogKinds
<1>13. Len(entered') = Len(stdout') + Len(batch') + Len(ring') + dropped'
  <2>1. Len(entered) = Len(stdout) + Len(batch) + Len(ring) + dropped
    BY DEF LogInv
  <2>2. PICK a \in Nat, b \in Nat, r \in Nat, k \in Nat :
          a = Len(stdout) /\ b = Len(batch) /\ r = Len(ring) /\ k = Len(c)
    BY <1>3, <1>5
  <2>3. dropped' = dropped + b - k /\ Len(stdout') = a + k /\ Len(batch') = 0 /\ Len(ring') = r
    BY <1>1, <1>2, <1>11, <2>2
  <2>4. a + b + r + dropped = (a + k) + 0 + r + (dropped + b - k)
    BY <1>3
  <2> QED
    BY <1>1, <2>1, <2>2, <2>3, <2>4
<1>14. log_fp' => file' = stdout'
  BY <1>1 DEF LogInv
<1>15. logKilled' => log_fp' /\ short' > 0
  <2>1. logKilled' => log_fp /\ n = -1
    BY <1>1, Zenon
  <2>2. n = -1 => short' > 0
    BY <1>1, <1>3
  <2> QED
    BY <1>1, <2>1, <2>2
<1> QED
  BY <1>1, <1>10, <1>12, <1>13, <1>14, <1>15 DEF LogInv

LEMMA LogNext == ASSUME LogInv, L!Next PROVE LogInv'
<1> QED
  BY LogStep, QuietLogSteps, OutStep, WriteStep DEF L!Next, L!Bg, L!Closing

LEMMA LogImplies == ASSUME LogInv PROVE L!LogSafe
<1>1. PICK a : a = stdout \o batch
  OBVIOUS
<1>2. PICK kept : kept = a \o ring
  OBVIOUS
<1>3. /\ batch \in Seq(Bytes) /\ stdout \in Seq(Bytes) /\ ring \in Seq(Bytes) /\ OrderInv
      /\ Len(batch) \in Nat /\ Len(stdout) \in Nat /\ Len(ring) \in Nat
  BY DEF LogInv, LogKinds
<1>4. a \in Seq(Bytes) /\ Rising(a) /\ RisesTo(a, ring) /\ Len(a) = Len(stdout) + Len(batch)
  <2>1. a \in Seq(Bytes) /\ Len(a) = Len(stdout) + Len(batch)
    BY <1>1, <1>3, CatBytes
  <2>2. Rising(stdout \o batch) /\ RisesTo(stdout \o batch, ring)
    BY <1>3, CatRises, CatRisesTo, Zenon DEF OrderInv
  <2> QED
    BY <1>1, <2>1, <2>2, Zenon
<1>5. Len(kept) = Len(a) + Len(ring) /\ Rising(kept)
  <2>1. Len(a \o ring) = Len(a) + Len(ring)
    BY <1>3, <1>4, CatBytes
  <2>2. Rising(a \o ring)
    BY <1>3, <1>4, CatRises, Zenon DEF OrderInv
  <2> QED
    BY <1>2, <2>1, <2>2, Zenon
<1>6. \A i, j \in 1 .. Len(kept) : i < j => L!Before(kept[i], kept[j])
  BY <1>5 DEF Rising
<1>7. /\ Len(ring) <= RingSize /\ Len(entered) = Len(kept) + dropped
      /\ log_fp => file = stdout
      /\ logKilled => log_fp /\ short > 0
      /\ close = "closed" => bg = "end"
  BY <1>3, <1>4, <1>5 DEF LogInv
<1> QED
  BY <1>1, <1>2, <1>6, <1>7 DEF L!LogSafe

-----------------------------------------------------------------------------
(* The nodes of ioctl connections: lists, queues and descriptors.          *)

LEMMA SameSets == \A q : E!ToSet(q) = ToSet(q)
<1> QED
  BY DEF E!ToSet, ToSet

(* A queue whose packets differ.                                           *)
LEMMA DifferentFacts ==
  ASSUME NEW T, NEW q \in Seq(T), IsInjective(q)
  PROVE  /\ q # <<>> => IsInjective(Tail(q)) /\ Head(q) \notin ToSet(Tail(q))
         /\ \A x \in T : x \notin ToSet(q) => IsInjective(Append(q, x))
<1>1. ASSUME q # <<>> PROVE IsInjective(Tail(q)) /\ Head(q) \notin ToSet(Tail(q))
  <2>1. /\ Head(q) = q[1] /\ 1 \in DOMAIN q
        /\ \A k \in DOMAIN Tail(q) : k \in Nat \ {0} /\ k + 1 \in DOMAIN q /\ Tail(q)[k] = q[k + 1]
    BY <1>1
  <2>2. ASSUME NEW j \in DOMAIN Tail(q), NEW k \in DOMAIN Tail(q), Tail(q)[j] = Tail(q)[k] PROVE j = k
    <3>1. j + 1 = k + 1
      BY <2>1, <2>2 DEF IsInjective
    <3> QED
      BY <2>1, <3>1
  <2>3. ASSUME NEW k \in DOMAIN Tail(q), Tail(q)[k] = Head(q) PROVE FALSE
    <3>1. k + 1 = 1
      BY <2>1, <2>3 DEF IsInjective
    <3> QED
      BY <2>1, <3>1
  <2> QED
    BY <2>2, <2>3 DEF IsInjective, ToSet
<1>2. ASSUME NEW x \in T, x \notin ToSet(q) PROVE IsInjective(Append(q, x))
  <2>1. /\ \A k \in DOMAIN Append(q, x) : \/ k = Len(q) + 1 /\ Append(q, x)[k] = x
                                          \/ k \in DOMAIN q /\ Append(q, x)[k] = q[k]
    OBVIOUS
  <2>2. \A k \in DOMAIN q : q[k] # x
    BY <1>2 DEF ToSet
  <2> QED
    BY <2>1, <2>2 DEF IsInjective
<1> QED
  BY <1>1, <1>2

(* A list without x.                                                       *)
LEMMA WithoutFacts ==
  ASSUME NEW T, NEW q \in Seq(T), IsInjective(q), NEW x, x \in ToSet(q)
  PROVE  /\ E!RemoveFirst(q, x) \in Seq(T) /\ IsInjective(E!RemoveFirst(q, x))
         /\ ToSet(E!RemoveFirst(q, x)) = ToSet(q) \ {x}
<1> DEFINE I == {k \in 1 .. Len(q) : q[k] = x}
<1>1. Len(q) \in Nat /\ DOMAIN q = 1 .. Len(q)
  OBVIOUS
<1>2. PICK i \in 1 .. Len(q) : q[i] = x
  BY <1>1 DEF ToSet
<1>3. I = {i}
  BY <1>1, <1>2 DEF IsInjective
<1>4. E!SelectInSeq(q, LAMBDA v : v = x) = i
  <2>1. E!SelectInSeq(q, LAMBDA v : v = x) = IF I # {} THEN E!Min(I) ELSE 0
    BY DEF E!SelectInSeq
  <2>2. E!Min({i}) = i
    BY <1>2 DEF E!Min
  <2> QED
    BY <1>3, <2>1, <2>2
<1>5. E!RemoveFirst(q, x) = RemoveAt(q, i)
  BY <1>2, <1>4 DEF E!RemoveFirst, E!RemoveAt, RemoveAt
<1> QED
  BY <1>1, <1>2, <1>5, RemoveFacts

LEMMA LeastOf == ASSUME NEW T \in SUBSET Nat, T # {} PROVE \E x \in T : \A y \in T : x <= y
<1>1. PICK x \in T : \A y \in T : ~ (<<y, x>> \in OpToRel(<, Nat))
  BY NatLessThanWellFounded, WFMin
<1>2. ASSUME NEW y \in T PROVE ~ (y < x)
  BY <1>1 DEF OpToRel
<1> QED
  BY <1>2

\* More clients than descriptors in use: one is free.
LEMMA FreeFd ==
  ASSUME LifeKinds, FdInv, NEW s \in Clients, reader[s] = "none"
  PROVE  /\ E!Min({k \in DOMAIN fds : fds[k] = E!None}) \in DOMAIN fds
         /\ fds[E!Min({k \in DOMAIN fds : fds[k] = E!None})] = "none"
<1> DEFINE F == {k \in DOMAIN fds : fds[k] = "none"}
           N == Cardinality(Clients)
<1>1. N \in Nat /\ DOMAIN fds = 1 .. N
  BY ClientsAssumption, FS_CardinalityType DEF LifeKinds
<1>2. F # {}
  <2> SUFFICES ASSUME F = {} PROVE FALSE
    OBVIOUS
  <2>1. ASSUME NEW n \in 1 .. N PROVE fds[n] \in Clients \ {s}
    <3>1. fds[n] # "none"
      BY <1>1
    <3>2. fds[n] \in Clients /\ reader[fds[n]] # "none"
      BY <1>1, <3>1 DEF LifeKinds, FdInv
    <3> QED
      BY <3>2
  <2>2. fds \in [1 .. N -> Clients \ {s}]
    <3>1. fds = [n \in 1 .. N |-> fds[n]]
      BY DEF LifeKinds
    <3> QED
      BY <2>1, <3>1
  <2>3. IsFiniteSet(Clients \ {s}) /\ Cardinality(Clients \ {s}) = N - 1
    BY ClientsAssumption, FS_RemoveElement
  <2>4. IsFiniteSet(1 .. N) /\ Cardinality(1 .. N) = N
    BY <1>1, FS_Interval
  <2>5. Cardinality(Clients \ {s}) < Cardinality(1 .. N)
    BY <1>1, <2>3, <2>4
  <2>6. PICK x, y \in 1 .. N : x # y /\ fds[x] = fds[y]
    <3>1. PICK a, b : a = 1 .. N /\ b = Clients \ {s}
      OBVIOUS
    <3>2. IsFiniteSet(a) /\ IsFiniteSet(b) /\ Cardinality(b) < Cardinality(a)
      BY <2>3, <2>4, <2>5, <3>1
    <3>3. \A f \in [a -> b] : \E x, y \in a : x # y /\ f[x] = f[y]
      BY <3>2, FS_PigeonHole, SMT
    <3>4. fds \in [a -> b]
      BY <2>2, <3>1
    <3> QED
      BY <3>1, <3>3, <3>4
  <2>7. fds[x] # "none" /\ fds[y] # "none"
    BY <1>1
  <2> QED
    BY <1>1, <2>6, <2>7 DEF FdInv
<1>3. F \in SUBSET Nat
  BY <1>1
<1>4. \E x \in F : \A y \in F : x <= y
  BY <1>2, <1>3, LeastOf
<1>5. E!Min(F) \in F
  BY <1>4 DEF E!Min
<1> QED
  BY <1>5 DEF E!None

-----------------------------------------------------------------------------
(* The nodes of ioctl connections: the steps.                              *)

\* One field of a node is set.
LEMMA FieldSet ==
  ASSUME LifeKinds, NEW s \in Clients, NEW v \in BOOLEAN
  PROVE  /\ ioNod' = [ioNod EXCEPT ![s].prpc = v] =>
              /\ ioNod' \in [Clients -> IoNode] /\ \A t \in Clients \ {s} : ioNod'[t] = ioNod[t]
              /\ ioNod'[s].mem = ioNod[s].mem /\ ioNod'[s].prpc = v
              /\ ioNod'[s].need_write = ioNod[s].need_write /\ ioNod'[s].freeflag = ioNod[s].freeflag
         /\ ioNod' = [ioNod EXCEPT ![s].need_write = v] =>
              /\ ioNod' \in [Clients -> IoNode] /\ \A t \in Clients \ {s} : ioNod'[t] = ioNod[t]
              /\ ioNod'[s].mem = ioNod[s].mem /\ ioNod'[s].prpc = ioNod[s].prpc
              /\ ioNod'[s].need_write = v /\ ioNod'[s].freeflag = ioNod[s].freeflag
         /\ ioNod' = [ioNod EXCEPT ![s].freeflag = v] =>
              /\ ioNod' \in [Clients -> IoNode] /\ \A t \in Clients \ {s} : ioNod'[t] = ioNod[t]
              /\ ioNod'[s].mem = ioNod[s].mem /\ ioNod'[s].prpc = ioNod[s].prpc
              /\ ioNod'[s].need_write = ioNod[s].need_write /\ ioNod'[s].freeflag = v
<1>1. ioNod \in [Clients -> IoNode]
  BY DEF LifeKinds
<1>2. PICK x : x = ioNod[s]
  OBVIOUS
<1>3. /\ x \in IoNode /\ x.mem \in {"none", "live", "freed"}
      /\ x.prpc \in BOOLEAN /\ x.need_write \in BOOLEAN /\ x.freeflag \in BOOLEAN
      /\ x = [mem |-> x.mem, prpc |-> x.prpc, need_write |-> x.need_write, freeflag |-> x.freeflag]
  BY <1>1, <1>2 DEF IoNode
<1>4. PICK p, w, f : /\ p = [mem |-> x.mem, prpc |-> v, need_write |-> x.need_write, freeflag |-> x.freeflag]
                     /\ w = [mem |-> x.mem, prpc |-> x.prpc, need_write |-> v, freeflag |-> x.freeflag]
                     /\ f = [mem |-> x.mem, prpc |-> x.prpc, need_write |-> x.need_write, freeflag |-> v]
  OBVIOUS
<1>5. p \in IoNode /\ w \in IoNode /\ f \in IoNode
  BY <1>3, <1>4 DEF IoNode
<1>6. /\ p = [ioNod[s] EXCEPT !.prpc = v] /\ w = [ioNod[s] EXCEPT !.need_write = v]
      /\ f = [ioNod[s] EXCEPT !.freeflag = v]
  BY <1>2, <1>3, <1>4
<1>7. ASSUME NEW y \in IoNode, ioNod' = [ioNod EXCEPT ![s] = y]
      PROVE  ioNod' \in [Clients -> IoNode] /\ ioNod'[s] = y /\ \A t \in Clients \ {s} : ioNod'[t] = ioNod[t]
  BY <1>1, <1>7
<1>8. /\ p.mem = x.mem /\ p.prpc = v /\ p.need_write = x.need_write /\ p.freeflag = x.freeflag
      /\ w.mem = x.mem /\ w.prpc = x.prpc /\ w.need_write = v /\ w.freeflag = x.freeflag
      /\ f.mem = x.mem /\ f.prpc = x.prpc /\ f.need_write = x.need_write /\ f.freeflag = v
  BY <1>4, Zenon
<1> QED
  BY <1>2, <1>5, <1>6, <1>7, <1>8

\* What does not change.
LEMMA PartsStay ==
  ASSUME LifeInv
  PROVE  /\ UNCHANGED <<reader, ioNod, ioList>> => IoNodeInv'
         /\ UNCHANGED <<ioSnd, ioNod>> => SndInv'
         /\ UNCHANGED <<ioRcv, ioNod>> => RcvInv'
         /\ UNCHANGED <<ioList, ioNod, ioSnd>> /\ bad \subseteq bad' => ListedInv'
         /\ UNCHANGED <<fds, fd, reader>> => FdInv'
         /\ UNCHANGED <<fds, fd, reader, manner, ioPlug>> /\ ("fd" \in bad' => "fd" \in bad) => StayInv'
<1>1. UNCHANGED <<reader, ioNod, ioList>> => IoNodeInv'
  BY DEF LifeInv, IoNodeInv
<1>2. UNCHANGED <<ioSnd, ioNod>> => SndInv'
  BY DEF LifeInv, SndInv, E!Live
<1>3. UNCHANGED <<ioRcv, ioNod>> => RcvInv'
  BY DEF LifeInv, RcvInv
<1>4. UNCHANGED <<ioList, ioNod, ioSnd>> /\ bad \subseteq bad' => ListedInv'
  BY DEF LifeInv, ListedInv, E!Live
<1>5. UNCHANGED <<fds, fd, reader>> => FdInv'
  BY DEF LifeInv, FdInv
<1>6. UNCHANGED <<fds, fd, reader, manner, ioPlug>> /\ ("fd" \in bad' => "fd" \in bad) => StayInv'
  BY DEF LifeInv, StayInv, OwnFd
<1> QED
  BY <1>1, <1>2, <1>3, <1>4, <1>5, <1>6

LEMMA LifeInit == ASSUME E!Init PROVE LifeInv
<1>1. /\ manner \in [hasty : BOOLEAN, unplug : BOOLEAN] /\ bad = {} /\ ioPlug = "in"
      /\ ioList = <<>> /\ ioTo = <<>> /\ ioFrom = <<>>
      /\ ioSnd = [pc |-> "scan", node |-> "none"] /\ ioRcv = [pc |-> "idle", node |-> "none"]
      /\ peer = [s \in Clients |-> "idle"] /\ reader = [s \in Clients |-> "none"]
      /\ fd = [s \in Clients |-> 0]
      /\ ioNod = [s \in Clients |-> [mem |-> "none", prpc |-> FALSE, need_write |-> FALSE, freeflag |-> FALSE]]
  BY DEF E!Init, E!None
<1>2. fds = [n \in 1 .. Cardinality(Clients) |-> "none"]
  BY DEF E!Init, E!None, E!Cardinality, Cardinality
<1>3. ToSet(<<>>) = {} /\ IsInjective(<<>>) /\ \A T : <<>> \in Seq(T)
  BY EmptyFacts
<1>4. LifeKinds
  BY <1>1, <1>2, <1>3 DEF LifeKinds, IoNode
<1>5. IoNodeInv /\ SndInv /\ RcvInv
  BY <1>1, <1>3 DEF IoNodeInv, SndInv, RcvInv
<1>6. ListedInv
  BY <1>1, <1>3 DEF ListedInv, E!Live
<1>7. FdInv /\ StayInv
  BY <1>1, <1>2 DEF FdInv, StayInv, OwnFd
<1>8. CalmInv
  BY <1>1, <1>3 DEF CalmInv, CallInv, Asks
<1> QED
  BY <1>4, <1>5, <1>6, <1>7, <1>8 DEF LifeInv

LEMMA LifeStill == ASSUME LifeInv, UNCHANGED lifeVars PROVE LifeInv'
<1>1. IoNodeInv' /\ SndInv' /\ RcvInv' /\ ListedInv' /\ FdInv' /\ StayInv'
  BY PartsStay DEF lifeVars
<1>2. LifeKinds' /\ CalmInv'
  BY DEF LifeInv, LifeKinds, CalmInv, CallInv, Asks, lifeVars
<1> QED
  BY <1>1, <1>2 DEF LifeInv

LEMMA StartConnStep == ASSUME LifeInv, NEW s \in Clients, E!Start(s) PROVE LifeInv'
<1>1. PICK n : n = E!Min({k \in DOMAIN fds : fds[k] = E!None})
  OBVIOUS
<1>2. /\ reader[s] = "none" /\ peer' = [peer EXCEPT ![s] = "on"] /\ reader' = [reader EXCEPT ![s] = "read"]
      /\ fd' = [fd EXCEPT ![s] = n] /\ fds' = [fds EXCEPT ![n] = s]
      /\ UNCHANGED <<ioSnd, ioRcv, ioTo, ioFrom, ioPlug, ioCls, manner, bad>>
  BY <1>1 DEF E!Start, E!threads, E!wires, E!ends
<1>3. \/ ioNod' = [ioNod EXCEPT ![s] = E!Fresh] /\ ioList' = <<s>> \o ioList
      \/ ioPlug # "in" /\ ioNod' = ioNod /\ ioList' = ioList
  BY DEF E!Start, E!Insert, E!nodes
<1>4. n \in DOMAIN fds /\ fds[n] = "none"
  BY <1>1, <1>2, FreeFd DEF LifeInv
<1>5. /\ ioNod[s].mem = "none" /\ s \notin ToSet(ioList) /\ ~ ioNod[s].prpc /\ ~ ioNod[s].freeflag
      /\ ioList \in Seq(Clients) /\ IsInjective(ioList)
  BY <1>2 DEF LifeInv, LifeKinds, IoNodeInv, ListedInv
<1>6. /\ <<s>> \o ioList \in Seq(Clients) /\ IsInjective(<<s>> \o ioList)
      /\ ToSet(<<s>> \o ioList) = ToSet(ioList) \cup {s}
  BY <1>5, ConsFacts, Zenon
<1>8. CASE ioNod' = ioNod /\ ioPlug # "in" /\ ioList' = ioList
  <2>1. LifeKinds'
    BY <1>2, <1>4, <1>8 DEF LifeInv, LifeKinds
  <2>2. IoNodeInv' /\ FdInv'
    BY <1>2, <1>4, <1>5, <1>8 DEF LifeInv, LifeKinds, IoNodeInv, FdInv
  <2>3. SndInv' /\ RcvInv' /\ ListedInv'
    BY <1>2, <1>8, PartsStay
  <2>4. manner.unplug /\ StayInv' /\ CalmInv'
    BY <1>2, <1>8 DEF LifeInv, StayInv, CalmInv
  <2> QED
    BY <2>1, <2>2, <2>3, <2>4 DEF LifeInv
<1>9. CASE ioNod' = [ioNod EXCEPT ![s] = E!Fresh] /\ ioList' = <<s>> \o ioList
  <2>1. PICK r : r = E!Fresh
    OBVIOUS
  <2>2. r \in IoNode /\ r.mem = "live" /\ r.prpc /\ ~ r.need_write /\ ~ r.freeflag
    BY <2>1 DEF E!Fresh, IoNode
  <2>3. ioNod' \in [Clients -> IoNode] /\ ioNod'[s] = r /\ \A t \in Clients \ {s} : ioNod'[t] = ioNod[t]
    BY <1>9, <2>1, <2>2 DEF LifeInv, LifeKinds
  <2>4. ioList' \in Seq(Clients) /\ IsInjective(ioList') /\ ToSet(ioList') = ToSet(ioList) \cup {s}
    BY <1>6, <1>9, Zenon
  <2>5. LifeKinds'
    <3>1. n \in Nat /\ fd' \in [Clients -> Nat] /\ fds' \in [1 .. Cardinality(Clients) -> Clients \cup {"none"}]
      BY <1>2, <1>4 DEF LifeInv, LifeKinds
    <3> QED
      BY <1>2, <2>3, <2>4, <3>1 DEF LifeInv, LifeKinds
  <2>6. IoNodeInv'
    BY <1>2, <1>5, <2>2, <2>3, <2>4 DEF LifeInv, LifeKinds, IoNodeInv
  <2>7. SndInv' /\ RcvInv'
    <3>1. ioSnd.pc # "scan" => ioSnd.node \in Clients \ {s}
      BY <1>5 DEF LifeInv, LifeKinds, SndInv, E!Live
    <3>2. ioRcv.pc # "idle" => ioRcv.node \in Clients \ {s}
      BY <1>5 DEF LifeInv, LifeKinds, RcvInv
    <3> QED
      BY <1>2, <2>3, <3>1, <3>2 DEF LifeInv, SndInv, RcvInv, E!Live
  <2>8. ListedInv'
    <3>1. ASSUME bad \subseteq {"notify"}, NEW t \in Clients
          PROVE  E!Live(t)' <=> t \in ToSet(ioList') \/ (ioSnd.pc = "deinit" /\ ioSnd.node = t)
      <4>1. CASE t = s
        BY <2>2, <2>3, <2>4, <4>1 DEF E!Live
      <4>2. CASE t # s
        BY <2>3, <2>4, <3>1, <4>2 DEF LifeInv, ListedInv, E!Live
      <4> QED
        BY <4>1, <4>2
    <3> QED
      BY <1>2, <2>4, <3>1 DEF ListedInv
  <2>9. FdInv'
    BY <1>2, <1>4 DEF LifeInv, LifeKinds, FdInv
  <2>10. StayInv'
    BY <1>2, <1>4, ClientsAssumption DEF LifeInv, LifeKinds, FdInv, StayInv, OwnFd
  <2>11. ASSUME ~ manner.unplug, ~ manner.hasty PROVE CallInv'
    <3>1. CallInv /\ peer[s] = "idle"
      BY <1>2, <2>11 DEF LifeInv, CalmInv, CallInv
    <3>2. ~ Asks(s) /\ s \notin ToSet(ioTo) /\ s \notin ToSet(ioFrom) /\ (ioRcv.pc # "idle" => ioRcv.node # s)
      BY <3>1 DEF CallInv
    <3>3. ioSnd.pc # "scan" => ioSnd.node \in Clients \ {s}
      BY <1>5 DEF LifeInv, LifeKinds, SndInv, E!Live
    <3>4. ~ Asks(s)' /\ \A t \in Clients \ {s} : Asks(t)' <=> Asks(t)
      BY <2>2, <2>3 DEF Asks
    <3>5. /\ IsInjective(ioTo)' /\ IsInjective(ioFrom)'
          /\ ToSet(ioTo)' = ToSet(ioTo) /\ ToSet(ioFrom)' = ToSet(ioFrom)
      BY <1>2, <3>1 DEF CallInv
    <3>6. /\ ioSnd'.pc = "again" => Asks(ioSnd.node)'
          /\ ioSnd'.pc = "deinit" => ioSnd'.node \notin ToSet(ioList')
      BY <1>2, <2>4, <3>1, <3>3, <3>4 DEF CallInv
    <3>7. ASSUME NEW t \in Clients
          PROVE  /\ peer'[t] \in {"on", "called", "served"} => reader'[t] = "read"
                 /\ reader'[t] = "none" => peer'[t] = "idle"
                 /\ ioNod'[t].freeflag => reader'[t] \in {"notify", "close", "done"}
      BY <1>2, <2>2, <2>3, <3>1 DEF LifeInv, LifeKinds, CallInv
    <3>8. ASSUME NEW t \in Clients
          PROVE  /\ \/ Asks(t)' \/ t \in ToSet(ioTo) \/ t \in ToSet(ioFrom)
                    \/ (ioRcv.pc # "idle" /\ ioRcv.node = t)
                    => peer'[t] = "called" /\ ioNod'[t].mem # "none"
                 /\ Asks(t)' => t \notin ToSet(ioTo)
                 /\ Asks(t)' \/ t \in ToSet(ioTo) => t \notin ToSet(ioFrom)
                 /\ Asks(t)' \/ t \in ToSet(ioTo) \/ t \in ToSet(ioFrom) => ioRcv.pc = "idle" \/ ioRcv.node # t
      <4>1. CASE t = s
        BY <3>2, <3>4, <4>1
      <4>2. CASE t # s
        BY <1>2, <2>3, <3>1, <3>4, <4>2 DEF LifeInv, LifeKinds, CallInv
      <4> QED
        BY <4>1, <4>2
    <3> QED
      BY <1>2, <3>5, <3>6, <3>7, <3>8 DEF CallInv, Asks
  <2>12. CalmInv'
    BY <1>2, <2>11 DEF LifeInv, CalmInv
  <2> QED
    BY <2>5, <2>6, <2>7, <2>8, <2>9, <2>10, <2>12 DEF LifeInv
<1> QED
  BY <1>3, <1>8, <1>9

LEMMA ReadStep == ASSUME LifeInv, NEW s \in Clients, E!Read(s) PROVE LifeInv'
<1>1. /\ reader[s] = "read" /\ peer[s] = "on" /\ ioNod[s].prpc
      /\ peer' = [peer EXCEPT ![s] = "called"] /\ ioNod' = [ioNod EXCEPT ![s].need_write = TRUE]
      /\ UNCHANGED <<reader, fd, fds, ioList, ioSnd, ioRcv, ioTo, ioFrom, ioPlug, ioCls, manner>>
      /\ bad' = bad \cup IF E!Live(s) THEN {} ELSE {"read"}
  BY DEF E!Read, E!Uses, E!threads, E!wires, E!ends
<1>2. ioNod[s].mem = "live"
  BY <1>1 DEF LifeInv, LifeKinds, IoNode, IoNodeInv
<1>3. bad' = bad
  BY <1>1, <1>2 DEF E!Live
<1>4. /\ ioNod' \in [Clients -> IoNode]
      /\ \A t \in Clients : /\ ioNod'[t].mem = ioNod[t].mem /\ (ioNod'[t].prpc <=> ioNod[t].prpc)
                            /\ (ioNod'[t].freeflag <=> ioNod[t].freeflag)
                            /\ (ioNod'[t].need_write <=> ioNod[t].need_write \/ t = s)
  BY <1>1, FieldSet DEF LifeInv
<1>5. LifeKinds'
  BY <1>1, <1>3, <1>4 DEF LifeInv, LifeKinds, IoNode
<1>6. IoNodeInv' /\ SndInv' /\ RcvInv' /\ ListedInv'
  BY <1>1, <1>3, <1>4 DEF LifeInv, LifeKinds, IoNode, IoNodeInv, SndInv, RcvInv, ListedInv, E!Live
<1>7. FdInv' /\ StayInv'
  BY <1>1, <1>3, PartsStay
<1>8. CalmInv'
  BY <1>1, <1>2, <1>3, <1>4 DEF LifeInv, LifeKinds, IoNode, CalmInv, CallInv, Asks
<1> QED
  BY <1>5, <1>6, <1>7, <1>8 DEF LifeInv

LEMMA HangUpStep == ASSUME LifeInv, NEW s \in Clients, E!HangUp(s) PROVE LifeInv'
<1>1. /\ peer[s] \in {"on", "served"} \/ (peer[s] = "called" /\ (manner.hasty \/ fds[fd[s]] # s))
      /\ peer' = [peer EXCEPT ![s] = "gone"]
      /\ UNCHANGED <<fd, fds, reader, ioNod, ioList, ioSnd, ioRcv, ioTo, ioFrom, ioPlug, ioCls, manner, bad>>
  BY DEF E!HangUp, E!HungUp, E!nodes, E!threads, E!wires, E!ends
<1>2. IoNodeInv' /\ SndInv' /\ RcvInv' /\ ListedInv' /\ FdInv' /\ StayInv'
  BY <1>1, PartsStay
<1>3. LifeKinds'
  BY <1>1 DEF LifeInv, LifeKinds, IoNode
<1>4. CalmInv'
  BY <1>1 DEF LifeInv, LifeKinds, IoNode, StayInv, OwnFd, CalmInv, CallInv, Asks
<1> QED
  BY <1>2, <1>3, <1>4 DEF LifeInv

LEMMA EndUnlinkStep == ASSUME LifeInv, NEW s \in Clients, E!EndUnlink(s) PROVE LifeInv'
<1>1. /\ peer[s] = "gone" \/ fds[fd[s]] # s
      /\ reader[s] = "read"
      /\ UNCHANGED <<peer, fd, fds, ioList, ioSnd, ioRcv, ioTo, ioFrom, ioPlug, ioCls, manner>>
  BY DEF E!EndUnlink, E!HungUp, E!client, E!threads, E!wires, E!ends
<1>2. \/ ioNod[s].mem = "none" /\ reader' = [reader EXCEPT ![s] = "close"] /\ ioNod' = ioNod /\ bad' = bad
      \/ /\ ioNod[s].mem # "none" /\ reader' = [reader EXCEPT ![s] = "flag"]
         /\ ioNod' = [ioNod EXCEPT ![s].prpc = FALSE] /\ bad' = bad \cup IF E!Live(s) THEN {} ELSE {"read"}
  BY DEF E!EndUnlink, E!Becomes, E!Uses
<1>3. peer[s] = "gone" \/ manner.unplug
  BY <1>1 DEF LifeInv, StayInv, OwnFd
<1>4. CASE ioNod[s].mem = "none" /\ reader' = [reader EXCEPT ![s] = "close"] /\ ioNod' = ioNod /\ bad' = bad
  <2>1. LifeKinds'
    BY <1>1, <1>4 DEF LifeInv, LifeKinds
  <2>2. IoNodeInv' /\ SndInv' /\ RcvInv' /\ ListedInv'
    BY <1>1, <1>4 DEF LifeInv, LifeKinds, IoNodeInv, SndInv, RcvInv, ListedInv, E!Live
  <2>3. FdInv' /\ StayInv'
    BY <1>1, <1>4 DEF LifeInv, LifeKinds, FdInv, StayInv, OwnFd
  <2>4. CalmInv'
    BY <1>1, <1>3, <1>4 DEF LifeInv, LifeKinds, CalmInv, CallInv, Asks
  <2> QED
    BY <2>1, <2>2, <2>3, <2>4 DEF LifeInv
<1>5. CASE /\ ioNod[s].mem # "none" /\ reader' = [reader EXCEPT ![s] = "flag"]
           /\ ioNod' = [ioNod EXCEPT ![s].prpc = FALSE] /\ bad' = bad \cup IF E!Live(s) THEN {} ELSE {"read"}
  <2>1. E!Live(s)
    BY <1>1, <1>5 DEF LifeInv, LifeKinds, IoNode, IoNodeInv, E!Live
  <2>2. bad' = bad
    BY <1>5, <2>1
  <2>3. /\ ioNod' \in [Clients -> IoNode] /\ \A t \in Clients \ {s} : ioNod'[t] = ioNod[t]
        /\ ioNod'[s].mem = ioNod[s].mem /\ ioNod'[s].prpc = FALSE
        /\ ioNod'[s].need_write = ioNod[s].need_write /\ ioNod'[s].freeflag = ioNod[s].freeflag
    BY <1>5, FieldSet DEF LifeInv
  <2>4. LifeKinds'
    BY <1>1, <1>5, <2>2, <2>3 DEF LifeInv, LifeKinds
  <2>5. IoNodeInv'
    BY <1>1, <1>5, <2>3 DEF LifeInv, LifeKinds, IoNodeInv
  <2>9. \A t \in Clients : /\ ioNod'[t].mem = ioNod[t].mem /\ ioNod'[t].freeflag = ioNod[t].freeflag
                           /\ ioNod'[t].need_write = ioNod[t].need_write
    BY <2>3
  <2>6. SndInv' /\ RcvInv' /\ ListedInv'
    <3>1. SndInv'
      BY <1>1, <2>9 DEF LifeInv, LifeKinds, SndInv, E!Live
    <3>2. RcvInv'
      BY <1>1, <2>9 DEF LifeInv, LifeKinds, RcvInv
    <3>3. ListedInv'
      BY <1>1, <2>2, <2>9 DEF LifeInv, ListedInv, E!Live
    <3> QED
      BY <3>1, <3>2, <3>3
  <2>7. FdInv' /\ StayInv'
    BY <1>1, <1>5, <2>2 DEF LifeInv, LifeKinds, FdInv, StayInv, OwnFd
  <2>8. CalmInv'
    <3>1. \A t \in Clients : Asks(t)' <=> Asks(t)
      BY <2>9 DEF Asks
    <3>2. ~ manner.unplug /\ ~ manner.hasty => CallInv /\ peer[s] = "gone" /\ bad \subseteq {"notify"}
      BY <1>3 DEF LifeInv, CalmInv
    <3>3. CallInv => ~ ioNod[s].freeflag
      BY <1>1 DEF CallInv
    <3>4. /\ reader'[s] = "flag" /\ \A t \in Clients \ {s} : reader'[t] = reader[t]
      BY <1>5 DEF LifeInv, LifeKinds
    <3>5. ASSUME CallInv, peer[s] = "gone" PROVE CallInv'
      <4>1. ioSnd.pc # "scan" => ioSnd.node \in Clients
        BY DEF LifeInv, LifeKinds
      <4> QED
        BY <1>1, <2>9, <3>1, <3>3, <3>4, <3>5, <4>1 DEF CallInv
    <3> QED
      BY <1>1, <2>2, <3>2, <3>5 DEF CalmInv
  <2> QED
    BY <2>4, <2>5, <2>6, <2>7, <2>8 DEF LifeInv
<1> QED
  BY <1>2, <1>4, <1>5

LEMMA EndFlagStep == ASSUME LifeInv, NEW s \in Clients, E!EndFlag(s) PROVE LifeInv'
<1>1. /\ reader[s] = "flag" /\ reader' = [reader EXCEPT ![s] = "notify"]
      /\ ioNod' = [ioNod EXCEPT ![s].freeflag = TRUE] /\ bad' = bad \cup IF E!Live(s) THEN {} ELSE {"flag"}
      /\ UNCHANGED <<peer, fd, fds, ioList, ioSnd, ioRcv, ioTo, ioFrom, ioPlug, ioCls, manner>>
  BY DEF E!EndFlag, E!Becomes, E!Uses, E!client, E!threads, E!wires, E!ends
<1>2. /\ ioNod' \in [Clients -> IoNode]
      /\ \A t \in Clients : /\ ioNod'[t].mem = ioNod[t].mem
                            /\ (ioNod'[t].freeflag <=> ioNod[t].freeflag \/ t = s)
                            /\ (ioNod'[t].need_write <=> ioNod[t].need_write)
                            /\ (ioNod'[t].prpc <=> ioNod[t].prpc)
  BY <1>1, FieldSet DEF LifeInv
<1>3. bad' = bad \/ bad' = bad \cup {"flag"}
  BY <1>1
<1>4. LifeKinds'
  BY <1>1, <1>2, <1>3 DEF LifeInv, LifeKinds, IoNode
<1>5. IoNodeInv' /\ SndInv' /\ RcvInv' /\ ListedInv'
  BY <1>1, <1>2, <1>3 DEF LifeInv, LifeKinds, IoNode, IoNodeInv, SndInv, RcvInv, ListedInv, E!Live
<1>6. FdInv' /\ StayInv'
  BY <1>1, <1>3 DEF LifeInv, LifeKinds, IoNode, FdInv, StayInv, OwnFd
<1>7. CalmInv'
  <2>1. ~ manner.unplug /\ ~ manner.hasty => E!Live(s)
    BY <1>1 DEF LifeInv, LifeKinds, IoNode, IoNodeInv, CalmInv, CallInv, E!Live
  <2> QED
    BY <1>1, <1>2, <2>1 DEF LifeInv, LifeKinds, IoNode, CalmInv, CallInv, Asks
<1> QED
  BY <1>4, <1>5, <1>6, <1>7 DEF LifeInv

LEMMA EndNotifyStep == ASSUME LifeInv, NEW s \in Clients, E!EndNotify(s) PROVE LifeInv'
<1>1. /\ reader[s] = "notify" /\ reader' = [reader EXCEPT ![s] = "close"]
      /\ bad' = bad \cup IF E!Live(s) THEN {} ELSE {"notify"}
      /\ UNCHANGED <<peer, fd, fds, ioNod, ioList, ioSnd, ioRcv, ioTo, ioFrom, ioPlug, ioCls, manner>>
  BY DEF E!EndNotify, E!Becomes, E!Uses, E!client, E!nodes, E!threads, E!wires, E!ends
<1>2. bad' = bad \/ bad' = bad \cup {"notify"}
  BY <1>1
<1>3. LifeKinds'
  BY <1>1, <1>2 DEF LifeInv, LifeKinds, IoNode
<1>4. IoNodeInv' /\ SndInv' /\ RcvInv' /\ ListedInv'
  BY <1>1, <1>2 DEF LifeInv, LifeKinds, IoNode, IoNodeInv, SndInv, RcvInv, ListedInv, E!Live
<1>5. FdInv' /\ StayInv'
  BY <1>1, <1>2 DEF LifeInv, LifeKinds, IoNode, FdInv, StayInv, OwnFd
<1>6. CalmInv'
  BY <1>1, <1>2 DEF LifeInv, LifeKinds, IoNode, CalmInv, CallInv, Asks
<1> QED
  BY <1>3, <1>4, <1>5, <1>6 DEF LifeInv

LEMMA EndCloseStep == ASSUME LifeInv, NEW s \in Clients, E!EndClose(s) PROVE LifeInv'
<1>1. /\ reader[s] = "close" /\ reader' = [reader EXCEPT ![s] = "done"]
      /\ fds' = [fds EXCEPT ![fd[s]] = "none"]
      /\ bad' = bad \cup IF fds[fd[s]] \in Clients \ {s} THEN {"fd"} ELSE {}
      /\ UNCHANGED <<peer, fd, ioNod, ioList, ioSnd, ioRcv, ioTo, ioFrom, ioPlug, ioCls, manner>>
  BY DEF E!EndClose, E!Becomes, E!None, E!nodes, E!threads, E!wires, E!ends
<1>2. bad' = bad \/ bad' = bad \cup {"fd"}
  BY <1>1
<1>3. ~ manner.unplug => bad' = bad
  BY <1>1 DEF LifeInv, LifeKinds, IoNode, StayInv, OwnFd
<1>4. LifeKinds'
  BY <1>1, <1>2 DEF LifeInv, LifeKinds, IoNode
<1>5. IoNodeInv' /\ SndInv' /\ RcvInv' /\ ListedInv'
  BY <1>1, <1>2 DEF LifeInv, LifeKinds, IoNode, IoNodeInv, SndInv, RcvInv, ListedInv, E!Live
<1>6. FdInv'
  BY <1>1 DEF LifeInv, LifeKinds, IoNode, FdInv
<1>7. StayInv'
  BY <1>1, <1>3 DEF LifeInv, LifeKinds, IoNode, FdInv, StayInv, OwnFd
<1>8. CalmInv'
  BY <1>1, <1>3 DEF LifeInv, LifeKinds, IoNode, CalmInv, CallInv, Asks
<1> QED
  BY <1>4, <1>5, <1>6, <1>7, <1>8 DEF LifeInv

LEMMA ListedFacts ==
  ASSUME LifeInv, E!Listed
  PROVE  /\ bad' = bad \/ bad' = bad \cup {"listed"}
         /\ CalmInv => (~ manner.unplug /\ ~ manner.hasty => bad' = bad)
<1>1. bad' = bad \cup IF \A s \in ToSet(ioList) : E!Live(s) THEN {} ELSE {"listed"}
  BY SameSets DEF E!Listed
<1>2. ToSet(ioList) \subseteq Clients
  BY Elements DEF LifeInv, LifeKinds
<1>3. ASSUME ~ manner.unplug, ~ manner.hasty PROVE \A s \in ToSet(ioList) : E!Live(s)
  BY <1>2, <1>3 DEF LifeInv, CalmInv, ListedInv
<1> QED
  BY <1>1, <1>3

LEMMA ScanStep == ASSUME LifeInv, E!Scan PROVE LifeInv'
<1>1. /\ ioSnd.pc = "scan" /\ E!Listed
      /\ UNCHANGED <<peer, fd, fds, reader, ioNod, ioRcv, ioTo, ioFrom, ioPlug, ioCls, manner>>
  BY DEF E!Scan, E!SendUnchanged, E!client
<1>2. PICK s \in ToSet(ioList) :
        /\ E!Live(s)
        /\ \/ ioNod[s].freeflag /\ ioSnd' = [pc |-> "deinit", node |-> s] /\ ioList' = E!RemoveFirst(ioList, s)
           \/ /\ ~ ioNod[s].freeflag /\ ioNod[s].need_write /\ ioSnd' = [pc |-> "again", node |-> s]
              /\ ioList' = ioList
  BY SameSets DEF E!Scan, E!SendGoes, E!DelNod
<1>3. /\ bad' = bad \/ bad' = bad \cup {"listed"}
      /\ ~ manner.unplug /\ ~ manner.hasty => bad' = bad
  BY <1>1, ListedFacts DEF LifeInv
<1>4. ioList \in Seq(Clients) /\ IsInjective(ioList) /\ s \in Clients
  BY Elements DEF LifeInv, LifeKinds, ListedInv
<1>5. FdInv' /\ StayInv' /\ RcvInv'
  BY <1>1, <1>3, PartsStay
<1>6. CASE ioNod[s].freeflag /\ ioSnd' = [pc |-> "deinit", node |-> s] /\ ioList' = E!RemoveFirst(ioList, s)
  <2>1. ioList' \in Seq(Clients) /\ IsInjective(ioList') /\ ToSet(ioList') = ToSet(ioList) \ {s}
    <3>1. PICK q : q = E!RemoveFirst(ioList, s)
      OBVIOUS
    <3>2. q \in Seq(Clients) /\ IsInjective(q) /\ ToSet(q) = ToSet(ioList) \ {s}
      BY <1>4, <3>1, WithoutFacts, Zenon
    <3> QED
      BY <1>6, <3>1, <3>2, Zenon
  <2>2. ioSnd'.pc = "deinit" /\ ioSnd'.node = s
    BY <1>6
  <2>3. LifeKinds'
    BY <1>1, <1>3, <1>4, <1>6, <2>1 DEF LifeInv, LifeKinds
  <2>4. IoNodeInv' /\ SndInv'
    BY <1>1, <1>2, <1>6, <2>1, <2>2 DEF LifeInv, IoNodeInv, SndInv, E!Live
  <2>5. ListedInv'
    BY <1>1, <1>2, <1>3, <2>1, <2>2 DEF LifeInv, ListedInv, E!Live
  <2>6. CalmInv'
    BY <1>1, <1>3, <2>1, <2>2 DEF LifeInv, CalmInv, CallInv, Asks
  <2> QED
    BY <1>5, <2>3, <2>4, <2>5, <2>6 DEF LifeInv
<1>7. CASE /\ ~ ioNod[s].freeflag /\ ioNod[s].need_write /\ ioSnd' = [pc |-> "again", node |-> s]
           /\ ioList' = ioList
  <2>1. ioSnd'.pc = "again" /\ ioSnd'.node = s
    BY <1>7
  <2>2. LifeKinds'
    BY <1>1, <1>3, <1>4, <1>7 DEF LifeInv, LifeKinds
  <2>3. IoNodeInv' /\ SndInv'
    BY <1>1, <1>2, <1>7, <2>1 DEF LifeInv, IoNodeInv, SndInv, E!Live
  <2>4. ListedInv'
    BY <1>1, <1>3, <1>7, <2>1 DEF LifeInv, ListedInv, E!Live
  <2>5. CalmInv'
    BY <1>1, <1>3, <1>7, <2>1 DEF LifeInv, CalmInv, CallInv, Asks
  <2> QED
    BY <1>5, <2>2, <2>3, <2>4, <2>5 DEF LifeInv
<1> QED
  BY <1>2, <1>6, <1>7

LEMMA AgainStep == ASSUME LifeInv, E!Again PROVE LifeInv'
<1>1. /\ ioSnd.pc = "again"
      /\ ioSnd' = [pc |-> IF ioNod[ioSnd.node].freeflag THEN "deinit" ELSE "make", node |-> ioSnd.node]
      /\ UNCHANGED <<peer, fd, fds, reader, ioNod, ioList, ioRcv, ioTo, ioFrom, ioPlug, ioCls, manner, bad>>
  BY DEF E!Again, E!SendGoes, E!SendUnchanged, E!nodes, E!client
<1>2. PICK s \in Clients : s = ioSnd.node /\ E!Live(s)
  BY <1>1 DEF LifeInv, LifeKinds, SndInv
<1>3. /\ ioSnd'.node = s /\ ioSnd'.pc \in {"deinit", "make"} /\ (ioSnd'.pc = "deinit" => ioNod[s].freeflag)
      /\ ioSnd' \in [pc : {"scan", "again", "make", "deinit"}, node : Clients \cup {"none"}]
  BY <1>1, <1>2
<1>4. FdInv' /\ StayInv' /\ RcvInv' /\ IoNodeInv'
  BY <1>1, PartsStay
<1>5. LifeKinds'
  BY <1>1, <1>3 DEF LifeInv, LifeKinds
<1>6. SndInv'
  BY <1>1, <1>2, <1>3 DEF SndInv, E!Live
<1>7. ListedInv'
  BY <1>1, <1>2, <1>3 DEF LifeInv, ListedInv, E!Live
<1>8. CalmInv'
  <2>1. ~ manner.unplug /\ ~ manner.hasty => ~ ioNod[s].freeflag
    BY <1>1, <1>2 DEF LifeInv, CalmInv, CallInv
  <2> QED
    BY <1>1, <1>3, <2>1 DEF LifeInv, CalmInv, CallInv, Asks
<1> QED
  BY <1>4, <1>5, <1>6, <1>7, <1>8 DEF LifeInv

LEMMA PackMakeStep == ASSUME LifeInv, E!PackMake PROVE LifeInv'
<1>1. ioSnd.pc = "make"
  BY DEF E!PackMake
<1>2. PICK s \in Clients : s = ioSnd.node /\ E!Live(s)
  BY <1>1 DEF LifeInv, LifeKinds, SndInv
<1>3. /\ bad' = bad
      /\ UNCHANGED <<peer, fd, fds, reader, ioList, ioRcv, ioFrom, ioPlug, ioCls, manner>>
  BY <1>2 DEF E!PackMake, E!Uses, E!SendUnchanged, E!client
<1>4. \/ /\ ioNod[s].need_write /\ ioNod' = [ioNod EXCEPT ![s].need_write = FALSE]
         /\ ioSnd' = [pc |-> "make", node |-> s] /\ ioTo' = IF ioPlug = "in" THEN Append(ioTo, s) ELSE ioTo
      \/ ioSnd' = [pc |-> "scan", node |-> "none"] /\ ioNod' = ioNod /\ ioTo' = ioTo
  BY <1>2 DEF E!PackMake, E!SendGoes, E!None
<1>5. FdInv' /\ StayInv'
  BY <1>3, PartsStay
<1>6. CASE ioSnd' = [pc |-> "scan", node |-> "none"] /\ ioNod' = ioNod /\ ioTo' = ioTo
  <2>1. ioSnd'.pc = "scan" /\ ioSnd' \in [pc : {"scan", "again", "make", "deinit"}, node : Clients \cup {"none"}]
    BY <1>6
  <2>2. RcvInv' /\ IoNodeInv'
    BY <1>3, <1>6, PartsStay
  <2>3. LifeKinds'
    BY <1>3, <1>6, <2>1 DEF LifeInv, LifeKinds
  <2>4. SndInv' /\ ListedInv'
    BY <1>1, <1>3, <1>6, <2>1 DEF LifeInv, SndInv, ListedInv, E!Live
  <2>5. CalmInv'
    BY <1>3, <1>6, <2>1 DEF LifeInv, CalmInv, CallInv, Asks
  <2> QED
    BY <1>5, <2>2, <2>3, <2>4, <2>5 DEF LifeInv
<1>7. CASE /\ ioNod[s].need_write /\ ioNod' = [ioNod EXCEPT ![s].need_write = FALSE]
           /\ ioSnd' = [pc |-> "make", node |-> s] /\ ioTo' = IF ioPlug = "in" THEN Append(ioTo, s) ELSE ioTo
  <2>1. ioSnd' = ioSnd
    BY <1>1, <1>2, <1>7 DEF LifeInv, LifeKinds
  <2>2. /\ ioNod' \in [Clients -> IoNode] /\ \A t \in Clients \ {s} : ioNod'[t] = ioNod[t]
        /\ ioNod'[s].mem = ioNod[s].mem /\ ioNod'[s].prpc = ioNod[s].prpc
        /\ ioNod'[s].need_write = FALSE /\ ioNod'[s].freeflag = ioNod[s].freeflag
    BY <1>7, FieldSet DEF LifeInv
  <2>3. /\ Append(ioTo, s) \in Seq(Clients) /\ ToSet(Append(ioTo, s)) = ToSet(ioTo) \cup {s}
    BY AppendFacts DEF LifeInv, LifeKinds
  <2>4. ioTo' \in Seq(Clients)
    BY <1>7, <2>3 DEF LifeInv, LifeKinds
  <2>5. LifeKinds'
    BY <1>3, <2>1, <2>2, <2>4 DEF LifeInv, LifeKinds
  <2>6. IoNodeInv' /\ SndInv' /\ RcvInv' /\ ListedInv'
    <3>1. \A t \in Clients : /\ ioNod'[t].mem = ioNod[t].mem /\ ioNod'[t].freeflag = ioNod[t].freeflag
                             /\ ioNod'[t].prpc = ioNod[t].prpc
      BY <2>2
    <3>2. IoNodeInv'
      BY <1>3, <3>1 DEF LifeInv, IoNodeInv
    <3>3. SndInv' /\ RcvInv'
      BY <1>1, <1>3, <2>1, <3>1 DEF LifeInv, LifeKinds, SndInv, RcvInv, E!Live
    <3>4. ListedInv'
      BY <1>3, <2>1, <3>1 DEF LifeInv, ListedInv, E!Live
    <3> QED
      BY <3>2, <3>3, <3>4
  <2>7. ASSUME ~ manner.unplug, ~ manner.hasty PROVE CallInv'
    <3>1. CallInv /\ ioTo' = Append(ioTo, s)
      BY <1>7, <2>7 DEF LifeInv, CalmInv, StayInv
    <3>2. /\ s \notin ToSet(ioTo) /\ s \notin ToSet(ioFrom) /\ (ioRcv.pc = "idle" \/ ioRcv.node # s)
          /\ peer[s] = "called" /\ ioNod[s].mem # "none"
      BY <1>7, <3>1 DEF CallInv, Asks
    <3>3. IsInjective(Append(ioTo, s))
      <4>1. ioTo \in Seq(Clients) /\ IsInjective(ioTo)
        BY <3>1 DEF LifeInv, LifeKinds, CallInv
      <4> QED
        BY <3>2, <4>1, DifferentFacts, Zenon
    <3>4. IsInjective(ioTo)' /\ ToSet(ioTo)' = ToSet(ioTo) \cup {s}
      BY <2>3, <3>1, <3>3
    <3>5. ~ Asks(s)' /\ \A t \in Clients \ {s} : Asks(t)' <=> Asks(t)
      BY <2>2 DEF Asks
    <3>6. ASSUME NEW t \in Clients
          PROVE  /\ \/ Asks(t)' \/ t \in ToSet(ioTo)' \/ t \in ToSet(ioFrom)
                    \/ (ioRcv.pc # "idle" /\ ioRcv.node = t)
                    => peer[t] = "called" /\ ioNod'[t].mem # "none"
                 /\ Asks(t)' => t \notin ToSet(ioTo)'
                 /\ Asks(t)' \/ t \in ToSet(ioTo)' => t \notin ToSet(ioFrom)
                 /\ Asks(t)' \/ t \in ToSet(ioTo)' \/ t \in ToSet(ioFrom) => ioRcv.pc = "idle" \/ ioRcv.node # t
      <4>1. CASE t = s
        BY <2>2, <3>2, <3>4, <3>5, <4>1
      <4>2. CASE t # s
        BY <2>2, <3>1, <3>4, <3>5, <4>2 DEF CallInv
      <4> QED
        BY <4>1, <4>2
    <3>7. ASSUME NEW t \in Clients
          PROVE  ioNod'[t].freeflag => reader[t] \in {"notify", "close", "done"}
      BY <2>2, <3>1 DEF CallInv
    <3> QED
      BY <1>1, <1>3, <2>1, <3>1, <3>4, <3>6, <3>7 DEF CallInv, Asks
  <2>8. CalmInv'
    BY <1>3, <2>7 DEF LifeInv, CalmInv
  <2> QED
    BY <1>5, <2>5, <2>6, <2>8 DEF LifeInv
<1> QED
  BY <1>4, <1>6, <1>7

LEMMA DeinitStep == ASSUME LifeInv, E!Deinit PROVE LifeInv'
<1>1. ioSnd.pc = "deinit" /\ ioSnd' = [pc |-> "scan", node |-> "none"]
  BY DEF E!Deinit, E!SendGoes, E!None
<1>2. PICK s \in Clients : s = ioSnd.node
  BY <1>1 DEF LifeInv, LifeKinds
<1>3. /\ ioNod' = [ioNod EXCEPT ![s].mem = "freed"]
      /\ bad' = bad \cup IF s \in ToSet(ioList) THEN {"listed"} ELSE {}
      /\ UNCHANGED <<peer, fd, fds, reader, ioList, ioRcv, ioTo, ioFrom, ioPlug, manner>>
  BY <1>2, SameSets DEF E!Deinit, E!SendUnchanged, E!client
<1>4. ioNod[s].freeflag /\ E!Live(s)
  BY <1>1, <1>2 DEF LifeInv, SndInv
<1>5. /\ ioNod' \in [Clients -> IoNode] /\ \A t \in Clients \ {s} : ioNod'[t] = ioNod[t]
      /\ ioNod'[s].mem = "freed" /\ ioNod'[s].prpc = ioNod[s].prpc
      /\ ioNod'[s].need_write = ioNod[s].need_write /\ ioNod'[s].freeflag = ioNod[s].freeflag
  <2>1. ioNod \in [Clients -> IoNode]
    BY DEF LifeInv, LifeKinds
  <2>2. PICK x : x = ioNod[s]
    OBVIOUS
  <2>3. /\ x.mem \in {"none", "live", "freed"}
        /\ x.prpc \in BOOLEAN /\ x.need_write \in BOOLEAN /\ x.freeflag \in BOOLEAN
        /\ x = [mem |-> x.mem, prpc |-> x.prpc, need_write |-> x.need_write, freeflag |-> x.freeflag]
    BY <2>1, <2>2 DEF IoNode
  <2>4. PICK m : m = [mem |-> "freed", prpc |-> x.prpc, need_write |-> x.need_write, freeflag |-> x.freeflag]
    OBVIOUS
  <2>5. /\ m \in IoNode /\ m.mem = "freed" /\ m.prpc = x.prpc /\ m.need_write = x.need_write
        /\ m.freeflag = x.freeflag
    BY <2>3, <2>4 DEF IoNode
  <2>6. m = [ioNod[s] EXCEPT !.mem = "freed"]
    BY <2>2, <2>3, <2>4
  <2>7. ioNod' = [ioNod EXCEPT ![s] = m]
    BY <1>3, <2>6
  <2> QED
    BY <2>1, <2>2, <2>5, <2>7
<1>6. bad' = bad \/ bad' = bad \cup {"listed"}
  BY <1>3
<1>7. ioSnd'.pc = "scan" /\ ioSnd' \in [pc : {"scan", "again", "make", "deinit"}, node : Clients \cup {"none"}]
  BY <1>1
<1>8. FdInv' /\ StayInv'
  BY <1>3, <1>6, PartsStay
<1>9. LifeKinds'
  BY <1>3, <1>5, <1>6, <1>7 DEF LifeInv, LifeKinds
<1>10. IoNodeInv'
  BY <1>3, <1>4, <1>5 DEF LifeInv, LifeKinds, IoNodeInv, E!Live
<1>11. SndInv' /\ RcvInv'
  BY <1>3, <1>4, <1>5, <1>7 DEF LifeInv, LifeKinds, SndInv, RcvInv, E!Live
<1>12. ListedInv'
  <2>1. IsInjective(ioList)'
    BY <1>3 DEF LifeInv, ListedInv
  <2>2. ASSUME bad' \subseteq {"notify"}, NEW t \in Clients PROVE E!Live(t)' <=> t \in ToSet(ioList)
    <3>1. s \notin ToSet(ioList) /\ bad \subseteq {"notify"}
      BY <1>3, <2>2
    <3>2. CASE t = s
      BY <1>5, <3>1, <3>2 DEF E!Live
    <3>3. CASE t # s
      BY <1>1, <1>2, <1>5, <3>1, <3>3 DEF LifeInv, ListedInv, E!Live
    <3> QED
      BY <3>2, <3>3
  <2> QED
    BY <1>3, <1>7, <2>1, <2>2 DEF ListedInv
<1>13. CalmInv'
  <2>1. ~ manner.unplug /\ ~ manner.hasty => s \notin ToSet(ioList) /\ CallInv /\ bad \subseteq {"notify"}
    BY <1>1, <1>2 DEF LifeInv, CalmInv, CallInv
  <2>2. \A t \in Clients : /\ (Asks(t)' <=> Asks(t)) /\ (ioNod'[t].freeflag <=> ioNod[t].freeflag)
                           /\ (ioNod[t].mem # "none" => ioNod'[t].mem # "none")
    BY <1>5 DEF Asks
  <2> QED
    BY <1>3, <1>7, <2>1, <2>2 DEF CalmInv, CallInv
<1> QED
  BY <1>8, <1>9, <1>10, <1>11, <1>12, <1>13 DEF LifeInv

LEMMA RecvFindStep == ASSUME LifeInv, E!RecvFind PROVE LifeInv'
<1>1. /\ ioRcv.pc = "idle" /\ ioFrom # <<>> /\ ioFrom' = Tail(ioFrom) /\ E!Listed
      /\ ioRcv' = IF Head(ioFrom) \in ToSet(ioList) /\ E!Live(Head(ioFrom))
                  THEN [pc |-> "proc", node |-> Head(ioFrom)] ELSE ioRcv
      /\ UNCHANGED <<peer, fd, fds, reader, ioNod, ioList, ioSnd, ioTo, ioPlug, ioCls, manner>>
  BY SameSets DEF E!RecvFind, E!client, E!nodes, E!ends
<1>2. /\ bad' = bad \/ bad' = bad \cup {"listed"}
      /\ ~ manner.unplug /\ ~ manner.hasty => bad' = bad
  BY <1>1, ListedFacts DEF LifeInv
<1>3. /\ Head(ioFrom) \in Clients /\ ioFrom' \in Seq(Clients)
      /\ ToSet(ioFrom) = {Head(ioFrom)} \cup ToSet(ioFrom')
  BY <1>1, QueueFacts DEF LifeInv, LifeKinds
<1>4. PICK h \in Clients : h = Head(ioFrom)
  BY <1>3
<1>5. \/ ioRcv' = [pc |-> "proc", node |-> h] /\ E!Live(h)
      \/ ioRcv' = ioRcv
  BY <1>1, <1>4
<1>6. FdInv' /\ StayInv' /\ IoNodeInv' /\ SndInv'
  BY <1>1, <1>2, PartsStay
<1>7. LifeKinds'
  <2>1. ioRcv' \in [pc : {"idle", "proc", "reply"}, node : Clients \cup {"none"}]
    BY <1>5 DEF LifeInv, LifeKinds
  <2>2. ioRcv'.pc # "idle" => ioRcv'.node \in Clients
    BY <1>5 DEF LifeInv, LifeKinds
  <2> QED
    BY <1>1, <1>2, <1>3, <2>1, <2>2 DEF LifeInv, LifeKinds
<1>8. RcvInv'
  BY <1>1, <1>5 DEF LifeInv, RcvInv, E!Live
<1>9. ListedInv'
  BY <1>1, <1>2 DEF LifeInv, ListedInv, E!Live
<1>10. CalmInv'
  <2>1. ASSUME CallInv PROVE CallInv'
    <3>1. IsInjective(ioFrom') /\ h \notin ToSet(ioFrom')
      <4>1. ioFrom \in Seq(Clients) /\ IsInjective(ioFrom)
        BY <2>1 DEF LifeInv, LifeKinds, CallInv
      <4>2. IsInjective(Tail(ioFrom)) /\ Head(ioFrom) \notin ToSet(Tail(ioFrom))
        BY <1>1, <4>1, DifferentFacts, Zenon
      <4> QED
        BY <1>1, <1>4, <4>2, Zenon
    <3>2. ToSet(ioFrom) = {h} \cup ToSet(ioFrom')
      BY <1>3, <1>4
    <3>3. ioRcv'.pc # "idle" => ioRcv'.node = h
      BY <1>1, <1>5
    <3>4. \A t \in Clients : Asks(t)' <=> Asks(t)
      BY <1>1 DEF Asks
    <3>5. ioSnd.pc # "scan" => ioSnd.node \in Clients
      BY DEF LifeInv, LifeKinds
    <3> QED
      BY <1>1, <2>1, <3>1, <3>2, <3>3, <3>4, <3>5 DEF CallInv
  <2> QED
    BY <1>1, <1>2, <2>1 DEF LifeInv, CalmInv
<1> QED
  BY <1>6, <1>7, <1>8, <1>9, <1>10 DEF LifeInv

LEMMA RecvProcStep == ASSUME LifeInv, E!RecvProc PROVE LifeInv'
<1>1. ioRcv.pc = "proc"
  BY DEF E!RecvProc
<1>2. PICK s \in Clients : s = ioRcv.node
  BY <1>1 DEF LifeInv, LifeKinds
<1>3. /\ bad' = bad \cup IF E!Live(s) THEN {} ELSE {"proc"}
      /\ UNCHANGED <<peer, fd, fds, reader, ioList, ioSnd, ioTo, ioFrom, ioPlug, ioCls, manner>>
  BY <1>2 DEF E!RecvProc, E!Uses, E!client, E!wires, E!ends
<1>4. \/ /\ ioNod[s].prpc /\ ioRcv' = [ioRcv EXCEPT !.pc = "reply"]
         /\ ioNod' = [ioNod EXCEPT ![s].need_write = FALSE]
      \/ /\ ~ ioNod[s].prpc /\ ioRcv' = [pc |-> "idle", node |-> "none"]
         /\ ioNod' = [ioNod EXCEPT ![s].freeflag = TRUE]
  BY <1>2 DEF E!RecvProc, E!None
<1>5. bad' = bad \/ bad' = bad \cup {"proc"}
  BY <1>3
<1>6. FdInv' /\ StayInv'
  BY <1>3, <1>5, PartsStay
<1>7. ioNod[s].mem # "none"
  BY <1>1, <1>2 DEF LifeInv, RcvInv
<1>8. CASE /\ ioNod[s].prpc /\ ioRcv' = [ioRcv EXCEPT !.pc = "reply"]
           /\ ioNod' = [ioNod EXCEPT ![s].need_write = FALSE]
  <2>1. /\ ioNod' \in [Clients -> IoNode] /\ \A t \in Clients \ {s} : ioNod'[t] = ioNod[t]
        /\ ioNod'[s].mem = ioNod[s].mem /\ ioNod'[s].prpc = ioNod[s].prpc
        /\ ioNod'[s].need_write = FALSE /\ ioNod'[s].freeflag = ioNod[s].freeflag
    BY <1>8, FieldSet DEF LifeInv
  <2>2. \A t \in Clients : /\ ioNod'[t].mem = ioNod[t].mem /\ ioNod'[t].freeflag = ioNod[t].freeflag
                           /\ ioNod'[t].prpc = ioNod[t].prpc
    BY <2>1
  <2>3. /\ ioRcv'.pc = "reply" /\ ioRcv'.node = s
        /\ ioRcv' \in [pc : {"idle", "proc", "reply"}, node : Clients \cup {"none"}]
    BY <1>2, <1>8 DEF LifeInv, LifeKinds
  <2>4. LifeKinds'
    BY <1>3, <1>5, <2>1, <2>3 DEF LifeInv, LifeKinds
  <2>5. IoNodeInv'
    BY <1>3, <2>2 DEF LifeInv, IoNodeInv
  <2>6. SndInv' /\ RcvInv'
    BY <1>3, <1>7, <2>2, <2>3 DEF LifeInv, LifeKinds, SndInv, RcvInv, E!Live
  <2>7. ListedInv'
    BY <1>3, <1>5, <2>2 DEF LifeInv, ListedInv, E!Live
  <2>8. ASSUME ~ manner.unplug, ~ manner.hasty PROVE CallInv' /\ bad' = bad
    <3>1. CallInv
      BY <2>8 DEF LifeInv, CalmInv
    <3>2. peer[s] = "called" /\ ~ Asks(s) /\ s \notin ToSet(ioTo) /\ s \notin ToSet(ioFrom)
      BY <1>1, <1>2, <3>1 DEF CallInv
    <3>3. E!Live(s)
      <4>1. ~ ioNod[s].freeflag
        BY <3>1, <3>2 DEF CallInv
      <4> QED
        BY <1>7, <4>1 DEF LifeInv, LifeKinds, IoNode, IoNodeInv, E!Live
    <3>4. \A t \in Clients : Asks(t)' => Asks(t)
      BY <2>1 DEF Asks
    <3>5. \A t \in Clients \ {s} : Asks(t)' <=> Asks(t)
      BY <2>1 DEF Asks
    <3>6. ioSnd.pc = "again" => ioSnd.node \in Clients \ {s}
      BY <3>1, <3>2 DEF LifeInv, LifeKinds, CallInv
    <3> QED
      BY <1>1, <1>2, <1>3, <2>2, <2>3, <3>1, <3>2, <3>3, <3>4, <3>5, <3>6 DEF CallInv
  <2>9. CalmInv'
    BY <1>3, <2>8 DEF LifeInv, CalmInv
  <2> QED
    BY <1>6, <2>4, <2>5, <2>6, <2>7, <2>9 DEF LifeInv
<1>9. CASE /\ ~ ioNod[s].prpc /\ ioRcv' = [pc |-> "idle", node |-> "none"]
           /\ ioNod' = [ioNod EXCEPT ![s].freeflag = TRUE]
  <2>1. /\ ioNod' \in [Clients -> IoNode] /\ \A t \in Clients \ {s} : ioNod'[t] = ioNod[t]
        /\ ioNod'[s].mem = ioNod[s].mem /\ ioNod'[s].prpc = ioNod[s].prpc
        /\ ioNod'[s].need_write = ioNod[s].need_write /\ ioNod'[s].freeflag = TRUE
    BY <1>9, FieldSet DEF LifeInv
  <2>2. \A t \in Clients : /\ ioNod'[t].mem = ioNod[t].mem /\ (ioNod[t].freeflag => ioNod'[t].freeflag)
                           /\ ioNod'[t].prpc = ioNod[t].prpc
    BY <2>1
  <2>3. /\ ioRcv'.pc = "idle" /\ ioRcv' \in [pc : {"idle", "proc", "reply"}, node : Clients \cup {"none"}]
    BY <1>9
  <2>4. LifeKinds'
    BY <1>3, <1>5, <2>1, <2>3 DEF LifeInv, LifeKinds
  <2>5. IoNodeInv'
    BY <1>3, <1>7, <1>9, <2>1, <2>2 DEF LifeInv, IoNodeInv
  <2>6. SndInv' /\ RcvInv'
    BY <1>3, <2>2, <2>3 DEF LifeInv, LifeKinds, SndInv, RcvInv, E!Live
  <2>7. ListedInv'
    BY <1>3, <1>5, <2>2 DEF LifeInv, ListedInv, E!Live
  <2>8. manner.unplug \/ manner.hasty
    <3> SUFFICES ASSUME ~ manner.unplug, ~ manner.hasty PROVE FALSE
      BY <2>1 DEF LifeInv, LifeKinds
    <3>1. CallInv
      BY DEF LifeInv, CalmInv
    <3>2. peer[s] = "called"
      BY <1>1, <1>2, <3>1 DEF CallInv
    <3>3. reader[s] = "read"
      BY <3>1, <3>2 DEF CallInv
    <3> QED
      BY <1>7, <1>9, <3>3 DEF LifeInv, IoNodeInv
  <2>9. CalmInv'
    BY <1>3, <2>8 DEF CalmInv
  <2> QED
    BY <1>6, <2>4, <2>5, <2>6, <2>7, <2>9 DEF LifeInv
<1> QED
  BY <1>4, <1>8, <1>9

LEMMA RecvReplyStep == ASSUME LifeInv, E!RecvReply PROVE LifeInv'
<1>1. ioRcv.pc = "reply" /\ ioRcv' = [pc |-> "idle", node |-> "none"]
  BY DEF E!RecvReply, E!None
<1>2. PICK s \in Clients : s = ioRcv.node
  BY <1>1 DEF LifeInv, LifeKinds
<1>3. /\ bad' = bad \cup IF reader[s] \in {"close", "done"} THEN {"reply"} ELSE {}
      /\ peer' = [peer EXCEPT ![s] = IF peer[s] = "called" THEN "served" ELSE peer[s]]
      /\ UNCHANGED <<fd, fds, reader, ioNod, ioList, ioSnd, ioTo, ioFrom, ioPlug, ioCls, manner>>
  BY <1>2 DEF E!RecvReply, E!nodes, E!wires, E!ends
<1>4. bad' = bad \/ bad' = bad \cup {"reply"}
  BY <1>3
<1>5. ioRcv'.pc = "idle" /\ ioRcv' \in [pc : {"idle", "proc", "reply"}, node : Clients \cup {"none"}]
  BY <1>1
<1>6. FdInv' /\ StayInv' /\ IoNodeInv' /\ SndInv'
  BY <1>3, <1>4, PartsStay
<1>7. PICK v : v = IF peer[s] = "called" THEN "served" ELSE peer[s]
  OBVIOUS
<1>8. /\ peer' \in [Clients -> {"idle", "on", "called", "served", "gone"}]
      /\ \A t \in Clients \ {s} : peer'[t] = peer[t]
      /\ peer'[s] = v
  <2>1. v \in {"idle", "on", "called", "served", "gone"}
    BY <1>7 DEF LifeInv, LifeKinds
  <2>2. peer' = [peer EXCEPT ![s] = v]
    BY <1>3, <1>7
  <2> QED
    BY <2>1, <2>2 DEF LifeInv, LifeKinds
<1>9. LifeKinds'
  BY <1>3, <1>4, <1>5, <1>8 DEF LifeInv, LifeKinds
<1>10. RcvInv' /\ ListedInv'
  BY <1>3, <1>4, <1>5 DEF LifeInv, RcvInv, ListedInv, E!Live
<1>11. ASSUME ~ manner.unplug, ~ manner.hasty PROVE CallInv' /\ bad' = bad
  <2>1. CallInv
    BY <1>11 DEF LifeInv, CalmInv
  <2>2. peer[s] = "called" /\ ~ Asks(s) /\ s \notin ToSet(ioTo) /\ s \notin ToSet(ioFrom)
    BY <1>1, <1>2, <2>1 DEF CallInv
  <2>3. reader[s] = "read" /\ peer'[s] = "served"
    BY <1>7, <1>8, <2>1, <2>2 DEF CallInv
  <2>4. bad' = bad
    BY <1>3, <2>3
  <2>5. \A t \in Clients : Asks(t)' <=> Asks(t)
    BY <1>3 DEF Asks
  <2>6. ioSnd.pc # "scan" => ioSnd.node \in Clients
    BY DEF LifeInv, LifeKinds
  <2>7. CallInv'
    BY <1>1, <1>2, <1>3, <1>5, <1>8, <2>1, <2>2, <2>3, <2>5, <2>6 DEF CallInv
  <2> QED
    BY <2>4, <2>7
<1>12. CalmInv'
  BY <1>3, <1>11 DEF LifeInv, CalmInv
<1> QED
  BY <1>6, <1>9, <1>10, <1>12 DEF LifeInv

LEMMA ReplyStep == ASSUME LifeInv, E!Reply PROVE LifeInv'
<1>1. /\ ioTo # <<>> /\ ioTo' = Tail(ioTo) /\ ioFrom' = Append(ioFrom, Head(ioTo))
      /\ UNCHANGED <<peer, fd, fds, reader, ioNod, ioList, ioSnd, ioRcv, ioPlug, ioCls, manner, bad>>
  BY DEF E!Reply, E!client, E!nodes, E!threads, E!ends
<1>2. /\ Head(ioTo) \in Clients /\ ioTo' \in Seq(Clients) /\ ToSet(ioTo) = {Head(ioTo)} \cup ToSet(ioTo')
  BY <1>1, QueueFacts DEF LifeInv, LifeKinds
<1>3. PICK h \in Clients : h = Head(ioTo)
  BY <1>2
<1>4. ioFrom' \in Seq(Clients) /\ ToSet(ioFrom') = ToSet(ioFrom) \cup {h}
  BY <1>1, <1>3, AppendFacts DEF LifeInv, LifeKinds
<1>5. FdInv' /\ StayInv' /\ IoNodeInv' /\ SndInv' /\ RcvInv' /\ ListedInv'
  BY <1>1, PartsStay
<1>6. LifeKinds'
  BY <1>1, <1>2, <1>4 DEF LifeInv, LifeKinds
<1>7. ASSUME CallInv PROVE CallInv'
  <2>1. /\ ioTo \in Seq(Clients) /\ IsInjective(ioTo) /\ ioFrom \in Seq(Clients) /\ IsInjective(ioFrom)
        /\ h \in ToSet(ioTo)
    BY <1>2, <1>3, <1>7 DEF LifeInv, LifeKinds, CallInv
  <2>2. h \notin ToSet(ioFrom) /\ peer[h] = "called" /\ ~ Asks(h)
    BY <1>7, <2>1 DEF CallInv
  <2>3. IsInjective(ioTo') /\ h \notin ToSet(ioTo')
    <3>1. IsInjective(Tail(ioTo)) /\ Head(ioTo) \notin ToSet(Tail(ioTo))
      BY <1>1, <2>1, DifferentFacts, Zenon
    <3> QED
      BY <1>1, <1>3, <3>1, Zenon
  <2>4. IsInjective(ioFrom')
    <3>1. IsInjective(Append(ioFrom, h))
      BY <2>1, <2>2, DifferentFacts, Zenon
    <3> QED
      BY <1>1, <1>3, <3>1, Zenon
  <2>5. \A t \in Clients : Asks(t)' <=> Asks(t)
    BY <1>1 DEF Asks
  <2>6. ioSnd.pc # "scan" => ioSnd.node \in Clients
    BY DEF LifeInv, LifeKinds
  <2> QED
    BY <1>1, <1>2, <1>3, <1>4, <1>7, <2>1, <2>2, <2>3, <2>4, <2>5, <2>6 DEF CallInv
<1>8. CalmInv'
  BY <1>1, <1>7 DEF LifeInv, CalmInv
<1> QED
  BY <1>5, <1>6, <1>8 DEF LifeInv

LEMMA UnplugStep == ASSUME LifeInv, E!Unplug PROVE LifeInv'
<1>1. /\ manner.unplug /\ ioPlug' = "out" /\ ioTo' = <<>> /\ ioFrom' = <<>>
      /\ UNCHANGED <<peer, fd, fds, reader, ioNod, ioList, ioSnd, ioRcv, ioCls, manner, bad>>
  BY DEF E!Unplug, E!client, E!nodes, E!threads
<1>2. FdInv' /\ IoNodeInv' /\ SndInv' /\ RcvInv' /\ ListedInv'
  BY <1>1, PartsStay
<1>3. LifeKinds'
  BY <1>1, EmptyFacts DEF LifeInv, LifeKinds
<1>4. StayInv' /\ CalmInv'
  BY <1>1 DEF StayInv, CalmInv
<1> QED
  BY <1>2, <1>3, <1>4 DEF LifeInv

LEMMA TearDownStep == ASSUME LifeInv, E!TearDown PROVE LifeInv'
<1>1. /\ ioPlug = "out" /\ ioPlug' = "teardown" /\ E!Listed
      /\ UNCHANGED <<peer, fd, reader, ioNod, ioList, ioSnd, ioRcv, ioTo, ioFrom, manner>>
  BY DEF E!TearDown, E!nodes, E!threads, E!wires
<1>2. DOMAIN fds' = DOMAIN fds /\ \A n \in DOMAIN fds : fds'[n] = "none" \/ fds'[n] = fds[n]
  BY DEF E!TearDown, E!None
<1>3. fds' \in [1 .. Cardinality(Clients) -> Clients \cup {"none"}]
  <2>1. fds' = [n \in DOMAIN fds |-> fds'[n]]
    BY DEF E!TearDown
  <2> QED
    BY <1>2, <2>1 DEF LifeInv, LifeKinds
<1>4. bad' = bad \/ bad' = bad \cup {"listed"}
  BY <1>1, ListedFacts
<1>5. manner.unplug
  BY <1>1 DEF LifeInv, StayInv
<1>6. LifeKinds'
  BY <1>1, <1>3, <1>4 DEF LifeInv, LifeKinds
<1>7. IoNodeInv' /\ SndInv' /\ RcvInv'
  BY <1>1, PartsStay
<1>8. ListedInv'
  BY <1>1, <1>4 DEF LifeInv, ListedInv, E!Live
<1>9. FdInv'
  BY <1>1, <1>2 DEF LifeInv, LifeKinds, FdInv
<1>10. StayInv' /\ CalmInv'
  BY <1>1, <1>5 DEF StayInv, CalmInv
<1> QED
  BY <1>6, <1>7, <1>8, <1>9, <1>10 DEF LifeInv

LEMMA TearDownDoneStep == ASSUME LifeInv, E!TearDownDone PROVE LifeInv'
<1>1. /\ ioPlug = "teardown" /\ ioPlug' = "stopped"
      /\ UNCHANGED <<peer, fd, fds, reader, ioNod, ioList, ioSnd, ioRcv, ioTo, ioFrom, manner, bad>>
  BY DEF E!TearDownDone, E!client, E!nodes, E!threads, E!wires
<1>2. IoNodeInv' /\ SndInv' /\ RcvInv' /\ ListedInv' /\ FdInv'
  BY <1>1, PartsStay
<1>3. LifeKinds'
  BY <1>1 DEF LifeInv, LifeKinds
<1>4. manner.unplug
  BY <1>1 DEF LifeInv, StayInv
<1>5. StayInv' /\ CalmInv'
  BY <1>1, <1>4 DEF StayInv, CalmInv
<1> QED
  BY <1>2, <1>3, <1>5 DEF LifeInv

LEMMA LifeNext == ASSUME LifeInv, E!Next PROVE LifeInv'
<1>1. ASSUME NEW s \in Clients, E!Start(s) \/ E!Thread(s) \/ E!HangUp(s) PROVE LifeInv'
  BY <1>1, StartConnStep, ReadStep, EndUnlinkStep, EndFlagStep, EndNotifyStep, EndCloseStep, HangUpStep
     DEF E!Thread
<1>2. ASSUME E!Send \/ E!Recv PROVE LifeInv'
  BY <1>2, ScanStep, AgainStep, PackMakeStep, DeinitStep, RecvFindStep, RecvProcStep, RecvReplyStep
     DEF E!Send, E!Recv
<1>3. ASSUME E!Reply \/ E!Unplug \/ E!Poll PROVE LifeInv'
  BY <1>3, ReplyStep, UnplugStep, TearDownStep, TearDownDoneStep DEF E!Poll
<1> QED
  BY <1>1, <1>2, <1>3 DEF E!Next

LEMMA LifeImplies == ASSUME LifeInv PROVE E!LifeSafe
<1>1. bad \subseteq {"notify"} \cup (IF manner.hasty \/ manner.unplug THEN {"flag", "proc", "reply", "listed"} ELSE {})
                    \cup (IF manner.unplug THEN {"fd"} ELSE {})
  <2>1. bad \subseteq {"notify", "flag", "proc", "reply", "listed", "fd"}
    BY DEF LifeInv, LifeKinds
  <2>2. CASE manner.unplug
    BY <2>1, <2>2
  <2>3. CASE ~ manner.unplug /\ manner.hasty
    BY <2>1, <2>3 DEF LifeInv, StayInv
  <2>4. CASE ~ manner.unplug /\ ~ manner.hasty
    BY <2>4 DEF LifeInv, CalmInv
  <2> QED
    BY <2>2, <2>3, <2>4
<1>2. bad \subseteq {"notify"} =>
        \A s \in Clients : /\ E!Live(s) <=> s \in E!ToSet(ioList) \/ (ioSnd.pc = "deinit" /\ ioSnd.node = s)
                           /\ E!Live(s) /\ reader[s] \in {"close", "done"} => ioNod[s].freeflag
  BY SameSets DEF LifeInv, ListedInv, IoNodeInv, E!Live
<1> QED
  BY <1>1, <1>2 DEF E!LifeSafe

-----------------------------------------------------------------------------
(* Requests that come while the daemon starts, its log, and the nodes of   *)
(* its ioctl connections, for all clients and all bounds (DaemonSafe):     *)
(* what a client was answered of the platform is so, bytes of the log are  *)
(* written once and in their order, and a node is used after it was freed  *)
(* only where a client hangs up early, the device is unplugged, or the end *)
(* of a connection wakes up a list that let go of its node                 *)
(* (daemon/normal_node.c, com/bg_proc.c).                                  *)
THEOREM Daemon == PartsSpec => []DaemonSafe
<1>1. PartsInit => DaemonInv
  BY StartInit, LogInit, LifeInit DEF PartsInit, DaemonInv
<1>2. DaemonInv /\ [PartsNext]_allVars => DaemonInv'
  <2> SUFFICES ASSUME DaemonInv, [PartsNext]_allVars PROVE DaemonInv'
    OBVIOUS
  <2>1. StartInv /\ LogInv /\ LifeInv
    BY DEF DaemonInv
  <2>2. \/ B!Next \/ UNCHANGED startVars
    BY DEF PartsNext, OfNodes, OfStart, OfLog, OfLife, allVars
  <2>3. \/ L!Next \/ UNCHANGED logVars
    BY DEF PartsNext, OfNodes, OfStart, OfLog, OfLife, allVars
  <2>4. \/ E!Next \/ UNCHANGED lifeVars
    BY DEF PartsNext, OfNodes, OfStart, OfLog, OfLife, allVars
  <2>5. StartInv'
    BY <2>1, <2>2, StartNext, StartStill
  <2>6. LogInv'
    BY <2>1, <2>3, LogNext, LogStill
  <2>7. LifeInv'
    BY <2>1, <2>4, LifeNext, LifeStill
  <2> QED
    BY <2>5, <2>6, <2>7 DEF DaemonInv
<1>3. DaemonInv => DaemonSafe
  BY StartImplies, LogImplies, LifeImplies DEF DaemonInv, DaemonSafe
<1> QED
  BY <1>1, <1>2, <1>3, PTL DEF PartsSpec
=============================================================================
