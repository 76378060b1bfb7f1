----------------------------- MODULE ServerProofs -----------------------------
(***************************************************************************)
(* What modules Server and CmdLine keep for any number of connections,     *)
(* clients, devices and calls, stated of the specification MCServer        *)
(* checks.                                                                 *)
(*                                                                         *)
(* The rpc server.  ServerInv is inductive: ids are given once and the     *)
(* event that is sent is about the device that came or went last           *)
(* (DevsInv); who is to be sent it is in the list of subscribers once      *)
(* (HotInv); the thread of a connection and the call at its other end have *)
(* come equally far (LinkOf); what a subscriber has been sent are events   *)
(* about ids of the past and at most one answer, no event twice, and at    *)
(* its end the events it has to get (ToldOf); and a list that is given out *)
(* is one the devices had, and a device that was looked up is there or     *)
(* went away since (ListOf).                                               *)
(*                                                                         *)
(* The command line.  LineInv is inductive: a client points to the node    *)
(* exactly while it is in its list or has just left that (HeldInv); once a *)
(* node off the list has let its clients go, who has a pointer to it had   *)
(* one then (FreedInv); what was typed is at the device or waits, in its   *)
(* order (CellsInv), with room for what is about to be typed (RoomInv);    *)
(* and the device is told the number of clients there are (ToldInv).       *)
(***************************************************************************)
EXTENDS MCServer, SequenceTheorems, FiniteSetTheorems, TLAPS

-----------------------------------------------------------------------------
(* The rpc server.                                                         *)

\* The types.
Pcs == Requests \cup {"none", "recv", "served", "ids", "serial", "start", "ack", "end"}
Entries == Seq(Int)
Kinds == {"test", "plat", "list", "mac", "open", "node", "ack", "event"}
ConnRec == [pc : Pcs, prpc : {"none", "hotplug"}, sz : Int]
CallRec == [st : {"idle", "wait", "on", "done"}, req : Requests, id : Nat,
            res : {"none", "ok", "mac", "refused", "timeout"}, ids : Entries]
MsgRec == [kind : Kinds, sta : Int, ids : Entries]

ServerKinds ==
  /\ work \in Seq(Nat) /\ nxt_working_id \in 0 .. MaxDevs
  /\ poll \in {"scan", "free", "check", "send"} /\ evt \in [id : Nat, status : {0, 1}]
  /\ left \in Seq(Conns) /\ hot \in Seq(Conns)
  /\ conn \in [Conns -> ConnRec] /\ call \in [Conns -> CallRec] /\ calls \in 0 .. MaxCalls
  /\ toCli \in [Conns -> Seq(MsgRec)] /\ closed \in [Conns -> BOOLEAN]
  /\ got \in [Conns -> Seq(Entries)] /\ due \in [Conns -> Seq(Entries)]
  /\ shrunk \in [Conns -> BOOLEAN]

\* Ids are given once, and the event is about the device that came or went last.
DevsInv ==
  /\ IsInjective(work) /\ \A i \in ToSet(work) : i < nxt_working_id
  /\ poll # "scan" => /\ evt.id < nxt_working_id
                      /\ evt.status = 1 <=> evt.id \in ToSet(work)

\* The subscribers, and who of them has to be sent the event.
HotInv ==
  /\ IsInjective(hot) /\ IsInjective(left) /\ ToSet(left) \subseteq ToSet(hot)
  /\ poll = "send" <=> left # <<>>
  /\ \A c \in Conns : c \in ToSet(hot) <=> conn[c].prpc = "hotplug"

\* How far the thread of a connection has come, and how far its client.
Asking == Requests \cup {"recv", "ids", "serial", "start"}
LinkOf(c) ==
  /\ call[c].st = "idle" => conn[c].pc = "none"
  /\ conn[c].pc = "none" => call[c].st \in {"idle", "done"} /\ conn[c].prpc = "none"
  /\ conn[c].pc = "end" => call[c].st = "done"
  /\ closed[c] <=> call[c].st = "done"
  /\ call[c].st \in {"idle", "done"} => toCli[c] = <<>> /\ got[c] = <<>>
  /\ call[c].st = "on" => conn[c].prpc = "hotplug" /\ conn[c].pc = "recv"
  /\ call[c].st # "on" => due[c] = <<>>
  /\ conn[c].pc \in Requests => conn[c].pc = call[c].req /\ conn[c].prpc = "none"
  /\ conn[c].pc \in {"ids", "serial", "start"} =>
       call[c].req \in {"list", "mac", "bind"} /\ conn[c].prpc = "none"
  /\ conn[c].pc = "ack" => conn[c].prpc = "hotplug"
  /\ conn[c].prpc = "hotplug" => conn[c].pc \in {"recv", "ack", "end"} /\ call[c].req = "hotplug"
  /\ conn[c].prpc = "none" /\ conn[c].pc \in Asking =>
       toCli[c] = <<>> /\ got[c] = <<>> /\ call[c].res # "ok"
  /\ call[c].req # "hotplug" => got[c] = <<>> /\ Len(toCli[c]) <= 1

\* What a subscriber is sent: at most one answer, and each event once.
Pair == <<evt.id, evt.status>>
IsEvent(e) == /\ Len(e) = 2 /\ e[1] \in 0 .. nxt_working_id - 1
              /\ e[2] = 0 => e[1] \notin ToSet(work)
Said(g, t) == g \o [i \in DOMAIN t |-> t[i].ids]
Ends(s, t) == Len(s) <= Len(t) /\ \A k \in 1 .. Len(s) : s[Len(s) - k + 1] = t[Len(t) - k + 1]
MsgOf(c, m) == \/ m.kind = "ack" /\ m.ids = <<>>
                  /\ call[c].st = "wait" /\ conn[c].pc = "recv" /\ conn[c].prpc = "hotplug"
               \/ m.kind = "event" /\ IsEvent(m.ids)
ToldOf(c) ==
  /\ \A i \in DOMAIN toCli[c] : MsgOf(c, toCli[c][i])
  /\ \A i \in DOMAIN got[c] : IsEvent(got[c][i])
  /\ poll \in {"free", "check"} \/ c \in ToSet(left) => Pair \notin ToSet(Said(got[c], toCli[c]))
  /\ call[c].st = "on" =>
       Ends(due[c], IF c \in ToSet(left) THEN Append(Said(got[c], toCli[c]), Pair)
                                         ELSE Said(got[c], toCli[c]))

\* The list of the devices, and the device a connection is bound to.
TrueList(ids, gone_) == /\ \A i, j \in DOMAIN ids : i # j /\ ids[i] = ids[j] => ids[i] = Junk
                        /\ Junk \in ToSet(ids) => gone_
ListOf(c) ==
  /\ conn[c].pc = "ids" => conn[c].sz \in Nat /\ (conn[c].sz <= Len(work) \/ shrunk[c])
  /\ call[c].req = "list" => /\ \A i \in DOMAIN toCli[c] : TrueList(toCli[c][i].ids, shrunk[c])
                             /\ call[c].res = "ok" => TrueList(call[c].ids, shrunk[c])
  /\ conn[c].pc \in {"start", "serial"} => c \in held \/ call[c].id \in ToSet(work)

ConnOf(c) ==
  /\ LinkOf(c) /\ ListOf(c)
  /\ IsInjective(Said(got[c], toCli[c]))
  /\ call[c].req = "hotplug" => ToldOf(c)

ServerInv == ServerKinds /\ DevsInv /\ HotInv /\ stale \subseteq held /\ \A c \in Conns : ConnOf(c)
-----------------------------------------------------------------------------
(* Lists and messages.                                                     *)

(* The first of a list and the rest of it.                                 *)
LEMMA QueueFacts ==
  ASSUME NEW T, NEW q \in Seq(T), q # <<>>
  PROVE  /\ Head(q) \in T /\ Tail(q) \in Seq(T) /\ ToSet(q) = {Head(q)} \cup ToSet(Tail(q))
         /\ Len(Tail(q)) = Len(q) - 1 /\ Len(q) \in Nat \ {0}
         /\ 1 \in DOMAIN q /\ Head(q) = q[1]
         /\ \A k \in DOMAIN Tail(q) : k + 1 \in DOMAIN q /\ Tail(q)[k] = q[k + 1]
<1>1. /\ Head(q) \in T /\ Head(q) = q[1] /\ 1 \in DOMAIN q
      /\ Tail(q) \in Seq(T) /\ Len(Tail(q)) = Len(q) - 1 /\ Len(q) \in Nat \ {0}
      /\ \A k \in DOMAIN Tail(q) : k + 1 \in DOMAIN q /\ Tail(q)[k] = q[k + 1]
      /\ \A k \in DOMAIN q : k = 1 \/ (k - 1 \in DOMAIN Tail(q) /\ Tail(q)[k - 1] = q[k])
  OBVIOUS
<1>2. ASSUME NEW x \in ToSet(q) PROVE x = Head(q) \/ x \in ToSet(Tail(q))
  BY <1>1 DEF ToSet
<1>3. ASSUME NEW x \in ToSet(Tail(q)) PROVE x \in ToSet(q)
  BY <1>1 DEF ToSet
<1>4. Head(q) \in ToSet(q)
  BY <1>1 DEF ToSet
<1> QED
  BY <1>1, <1>2, <1>3, <1>4

(* The first of a list of different elements is not in the rest.           *)
LEMMA HeadOnce ==
  ASSUME NEW T, NEW q \in Seq(T), q # <<>>, IsInjective(q)
  PROVE  IsInjective(Tail(q)) /\ Head(q) \notin ToSet(Tail(q))
<1>1. /\ 1 \in DOMAIN q /\ Head(q) = q[1]
      /\ \A k \in DOMAIN Tail(q) : k \in Nat \ {0} /\ k + 1 \in DOMAIN q /\ Tail(q)[k] = q[k + 1]
  OBVIOUS
<1>2. ASSUME NEW j \in DOMAIN Tail(q), NEW k \in DOMAIN Tail(q), Tail(q)[j] = Tail(q)[k]
      PROVE  j = k
  <2>1. j + 1 = k + 1
    BY <1>1, <1>2 DEF IsInjective
  <2> QED
    BY <1>1, <2>1
<1>3. ASSUME NEW k \in DOMAIN Tail(q) PROVE Tail(q)[k] # Head(q)
  <2>1. k + 1 # 1
    BY <1>1
  <2> QED
    BY <1>1, <2>1 DEF IsInjective
<1> QED
  BY <1>2, <1>3 DEF IsInjective, ToSet

(* A list with one element more at its end.                                *)
LEMMA AppendFacts ==
  ASSUME NEW T, NEW q \in Seq(T), NEW x \in T
  PROVE  /\ Append(q, x) \in Seq(T) /\ ToSet(Append(q, x)) = ToSet(q) \cup {x}
         /\ Len(Append(q, x)) = Len(q) + 1 /\ Append(q, x) # <<>>
         /\ Len(q) + 1 \in DOMAIN Append(q, x) /\ Append(q, x)[Len(q) + 1] = x
         /\ \A k \in DOMAIN q : k \in DOMAIN Append(q, x) /\ Append(q, x)[k] = q[k]
         /\ \A k \in DOMAIN Append(q, x) : k = Len(q) + 1 \/ k \in DOMAIN q
<1>1. /\ Append(q, x) \in Seq(T) /\ Len(Append(q, x)) = Len(q) + 1
      /\ Len(q) + 1 \in DOMAIN Append(q, x) /\ Append(q, x)[Len(q) + 1] = x
      /\ \A k \in DOMAIN q : k \in DOMAIN Append(q, x) /\ Append(q, x)[k] = q[k]
      /\ \A k \in DOMAIN Append(q, x) : k = Len(q) + 1 \/ k \in DOMAIN q
  OBVIOUS
<1>2. ASSUME NEW y \in ToSet(Append(q, x)) PROVE y = x \/ y \in ToSet(q)
  BY <1>1 DEF ToSet
<1>3. ASSUME NEW y \in ToSet(q) PROVE y \in ToSet(Append(q, x))
  BY <1>1 DEF ToSet
<1>4. x \in ToSet(Append(q, x))
  BY <1>1 DEF ToSet
<1>5. Append(q, x) # <<>>
  BY <1>1
<1> QED
  BY <1>1, <1>2, <1>3, <1>4, <1>5

(* A new element at the end of a list of different ones.                   *)
LEMMA AppendOnce ==
  ASSUME NEW T, NEW q \in Seq(T), NEW x \in T, IsInjective(q), x \notin ToSet(q)
  PROVE  IsInjective(Append(q, x))
<1>1. /\ \A k \in DOMAIN q : Append(q, x)[k] = q[k] /\ q[k] # x
      /\ Append(q, x)[Len(q) + 1] = x
      /\ \A k \in DOMAIN Append(q, x) : k = Len(q) + 1 \/ k \in DOMAIN q
  BY AppendFacts DEF ToSet
<1>2. ASSUME NEW j \in DOMAIN Append(q, x), NEW k \in DOMAIN Append(q, x),
             Append(q, x)[j] = Append(q, x)[k]
      PROVE  j = k
  <2>1. CASE j \in DOMAIN q /\ k \in DOMAIN q
    BY <1>1, <1>2, <2>1 DEF IsInjective
  <2>2. CASE ~ (j \in DOMAIN q /\ k \in DOMAIN q)
    BY <1>1, <1>2, <2>2
  <2> QED
    BY <2>1, <2>2
<1> QED
  BY <1>2 DEF IsInjective

(* Nothing is in the empty list.                                           *)
LEMMA EmptyFacts ==
  /\ \A T : <<>> \in Seq(T)
  /\ Len(<<>>) = 0 /\ DOMAIN <<>> = {} /\ ToSet(<<>>) = {} /\ IsInjective(<<>>)
<1> QED
  BY DEF ToSet, IsInjective

(* A list without one of its nodes.                                        *)
LEMMA RemoveFacts ==
  ASSUME NEW T, NEW q \in Seq(T), IsInjective(q), NEW i \in DOMAIN q
  PROVE  /\ RemoveAt(q, i) \in Seq(T) /\ IsInjective(RemoveAt(q, i))
         /\ ToSet(RemoveAt(q, i)) = ToSet(q) \ {q[i]}
         /\ Len(RemoveAt(q, i)) = Len(q) - 1
<1> DEFINE a == SubSeq(q, 1, i - 1)
           b == SubSeq(q, i + 1, Len(q))
           c == a \o b
<1>1. /\ i \in 1 .. Len(q) /\ Len(q) \in Nat /\ DOMAIN q = 1 .. Len(q)
  OBVIOUS
<1>2. /\ a \in Seq(T) /\ Len(a) = i - 1 /\ \A k \in 1 .. i - 1 : a[k] = q[k]
  BY <1>1
<1>3. /\ b \in Seq(T) /\ Len(b) = Len(q) - i /\ \A k \in 1 .. Len(q) - i : b[k] = q[k + i]
  BY <1>1
<1> HIDE DEF a, b
<1>4. /\ c \in Seq(T) /\ Len(c) = Len(q) - 1 /\ DOMAIN c = 1 .. Len(q) - 1
      /\ \A k \in 1 .. Len(q) - 1 : c[k] = IF k < i THEN q[k] ELSE q[k + 1]
  <2>1. /\ c \in Seq(T) /\ Len(c) = Len(a) + Len(b)
        /\ \A k \in 1 .. Len(a) + Len(b) : c[k] = IF k <= Len(a) THEN a[k] ELSE b[k - Len(a)]
    BY <1>2, <1>3, ConcatProperties
  <2>2. Len(c) = Len(q) - 1
    BY <1>1, <1>2, <1>3, <2>1
  <2>3. ASSUME NEW k \in 1 .. Len(q) - 1 PROVE c[k] = IF k < i THEN q[k] ELSE q[k + 1]
    <3>1. CASE k < i
      <4>1. k \in 1 .. i - 1 /\ k <= Len(a) /\ k \in 1 .. Len(a) + Len(b)
        BY <1>1, <1>2, <1>3, <3>1
      <4>2. c[k] = a[k]
        BY <2>1, <4>1
      <4> QED
        BY <1>2, <3>1, <4>1, <4>2
    <3>2. CASE ~ k < i
      <4>1. /\ ~ k <= Len(a) /\ k \in 1 .. Len(a) + Len(b) /\ k - (i - 1) \in 1 .. Len(q) - i
            /\ k - (i - 1) + i = k + 1
        BY <1>1, <1>2, <1>3, <3>2
      <4>2. c[k] = b[k - (i - 1)]
        BY <1>2, <2>1, <4>1
      <4>3. b[k - (i - 1)] = q[k - (i - 1) + i]
        BY <1>3, <4>1
      <4> QED
        BY <3>2, <4>1, <4>2, <4>3
    <3> QED
      BY <3>1, <3>2
  <2> QED
    BY <2>1, <2>2, <2>3
<1>5. RemoveAt(q, i) = c
  BY DEF RemoveAt, a, b
<1> HIDE DEF c
<1>6. ASSUME NEW j \in 1 .. Len(q) - 1, NEW k \in 1 .. Len(q) - 1, c[j] = c[k] PROVE j = k
  <2>1. PICK u \in DOMAIN q : c[j] = q[u] /\ u = IF j < i THEN j ELSE j + 1
    BY <1>1, <1>4
  <2>2. PICK v \in DOMAIN q : c[k] = q[v] /\ v = IF k < i THEN k ELSE k + 1
    BY <1>1, <1>4
  <2>3. u = v
    BY <1>6, <2>1, <2>2 DEF IsInjective
  <2> QED
    BY <1>1, <2>1, <2>2, <2>3
<1>7. ASSUME NEW x \in ToSet(c) PROVE x \in ToSet(q) /\ x # q[i]
  <2>1. PICK k \in 1 .. Len(q) - 1 : c[k] = x
    BY <1>4 DEF ToSet
  <2> QED
    BY <1>1, <1>4, <2>1 DEF ToSet, IsInjective
<1>8. ASSUME NEW x \in ToSet(q), x # q[i] PROVE x \in ToSet(c)
  <2>1. PICK k \in 1 .. Len(q) : q[k] = x /\ k # i
    BY <1>1, <1>8 DEF ToSet
  <2>2. CASE k < i
    BY <1>1, <1>4, <2>1, <2>2 DEF ToSet
  <2>3. CASE k > i
    <3>1. k - 1 \in 1 .. Len(q) - 1 /\ c[k - 1] = x
      BY <1>1, <1>4, <2>1, <2>3
    <3> QED
      BY <1>4, <3>1 DEF ToSet
  <2> QED
    BY <1>1, <2>1, <2>2, <2>3
<1> QED
  BY <1>4, <1>5, <1>6, <1>7, <1>8 DEF IsInjective

(* A list with one more node at its head.                                  *)
LEMMA ConsFacts ==
  ASSUME NEW T, NEW q \in Seq(T), IsInjective(q), NEW x \in T, x \notin ToSet(q)
  PROVE  /\ <<x>> \o q \in Seq(T) /\ IsInjective(<<x>> \o q)
         /\ ToSet(<<x>> \o q) = ToSet(q) \cup {x}
         /\ Len(<<x>> \o q) = Len(q) + 1
<1> DEFINE c == <<x>> \o q
<1>1. /\ c \in Seq(T) /\ Len(q) \in Nat /\ DOMAIN q = 1 .. Len(q) /\ DOMAIN c = 1 .. Len(q) + 1
      /\ c[1] = x /\ \A k \in 1 .. Len(q) : c[k + 1] = q[k]
      /\ \A k \in 1 .. Len(q) + 1 : k = 1 \/ (k - 1 \in 1 .. Len(q) /\ c[k] = q[k - 1])
  OBVIOUS
<1>2. \A k \in 1 .. Len(q) : q[k] # x
  BY <1>1 DEF ToSet
<1> HIDE DEF c
<1>3. ASSUME NEW j \in 1 .. Len(q) + 1, NEW k \in 1 .. Len(q) + 1, c[j] = c[k] PROVE j = k
  <2>1. ASSUME NEW l \in 1 .. Len(q) + 1, l # 1
        PROVE  l - 1 \in 1 .. Len(q) /\ c[l] = q[l - 1] /\ c[l] # x
    BY <1>1, <1>2, <2>1
  <2>2. j = 1 <=> k = 1
    BY <1>1, <1>3, <2>1
  <2>3. CASE j # 1 /\ k # 1
    <3>1. /\ j - 1 \in DOMAIN q /\ k - 1 \in DOMAIN q /\ q[j - 1] = q[k - 1]
          /\ j \in Int /\ k \in Int
      BY <1>1, <1>3, <2>1, <2>3
    <3>2. j - 1 = k - 1
      BY <3>1 DEF IsInjective
    <3> QED
      BY <3>1, <3>2
  <2> QED
    BY <2>2, <2>3
<1>4. ASSUME NEW y \in ToSet(c) PROVE y = x \/ y \in ToSet(q)
  BY <1>1 DEF ToSet
<1>5. ASSUME NEW y \in ToSet(q) PROVE y \in ToSet(c)
  <2>1. PICK k \in 1 .. Len(q) : q[k] = y
    BY <1>1 DEF ToSet
  <2>2. k + 1 \in DOMAIN c /\ c[k + 1] = y
    BY <1>1, <2>1
  <2> QED
    BY <2>2 DEF ToSet
<1>6. x \in ToSet(c)
  BY <1>1 DEF ToSet
<1> QED
  BY <1>1, <1>3, <1>4, <1>5, <1>6 DEF c, IsInjective

(* The elements of a sequence.                                             *)
LEMMA Elements ==
  ASSUME NEW T, NEW q \in Seq(T)
  PROVE  /\ ToSet(q) \subseteq T
         /\ \A i \in DOMAIN q : q[i] \in T /\ q[i] \in ToSet(q)
<1> QED
  BY DEF ToSet

(* A function on the first n numbers is a list.                            *)
LEMMA FunctionIsList ==
  ASSUME NEW T, NEW n \in Nat, NEW f \in [1 .. n -> T]
  PROVE  f \in Seq(T) /\ Len(f) = n
<1>1. f \in Seq(T)
  OBVIOUS
<1> QED
  BY <1>1

(* What a message carries.                                                 *)
LEMMA MsgCarries ==
  ASSUME NEW m \in MsgRec
  PROVE  m.ids \in Entries
BY DEF MsgRec

(* What a connection has been sent: what its client has received, then     *)
(* what is on its way.                                                     *)
LEMMA SaidFacts ==
  ASSUME NEW g \in Seq(Entries), NEW t \in Seq(MsgRec)
  PROVE  /\ Said(g, t) \in Seq(Entries) /\ Len(Said(g, t)) = Len(g) + Len(t)
         /\ DOMAIN Said(g, t) = 1 .. Len(g) + Len(t)
         /\ \A i \in 1 .. Len(g) : Said(g, t)[i] = g[i]
         /\ \A i \in 1 .. Len(t) : Said(g, t)[Len(g) + i] = t[i].ids
<1> DEFINE u == [i \in DOMAIN t |-> t[i].ids]
<1>1. Len(g) \in Nat /\ Len(t) \in Nat /\ DOMAIN t = 1 .. Len(t) /\ DOMAIN g = 1 .. Len(g)
  BY LenProperties
<1>2. \A i \in DOMAIN t : t[i] \in MsgRec /\ t[i].ids \in Entries
  BY Elements, MsgCarries
<1>3. u \in [1 .. Len(t) -> Entries]
  BY <1>1, <1>2
<1>4. u \in Seq(Entries) /\ Len(u) = Len(t)
  BY <1>1, <1>3, FunctionIsList
<1>5. \A i \in 1 .. Len(t) : u[i] = t[i].ids
  BY <1>1
<1> HIDE DEF u
<1>6. /\ g \o u \in Seq(Entries) /\ Len(g \o u) = Len(g) + Len(u)
      /\ \A i \in 1 .. Len(g) + Len(u) : (g \o u)[i] = IF i <= Len(g) THEN g[i] ELSE u[i - Len(g)]
  BY <1>4, ConcatProperties
<1>7. /\ g \o u \in Seq(Entries) /\ Len(g \o u) = Len(g) + Len(t)
      /\ \A i \in 1 .. Len(g) + Len(t) : (g \o u)[i] = IF i <= Len(g) THEN g[i] ELSE u[i - Len(g)]
  BY <1>4, <1>6
<1>8. Said(g, t) = g \o u
  BY DEF Said, u
<1>9. /\ Said(g, t) \in Seq(Entries) /\ Len(Said(g, t)) = Len(g) + Len(t)
      /\ \A i \in 1 .. Len(g) + Len(t) :
           Said(g, t)[i] = IF i <= Len(g) THEN g[i] ELSE u[i - Len(g)]
  BY <1>7, <1>8
<1>10. DOMAIN Said(g, t) = 1 .. Len(g) + Len(t)
  BY <1>9, LenProperties
<1>11. \A i \in 1 .. Len(g) : Said(g, t)[i] = g[i]
  BY <1>1, <1>9
<1>12. ASSUME NEW i \in 1 .. Len(t) PROVE Said(g, t)[Len(g) + i] = t[i].ids
  <2>1. Len(g) + i \in 1 .. Len(g) + Len(t) /\ ~ (Len(g) + i <= Len(g)) /\ Len(g) + i - Len(g) = i
    BY <1>1
  <2> QED
    BY <1>5, <1>9, <2>1
<1> QED
  BY <1>9, <1>10, <1>11, <1>12

(* Every entry of it has been received or is on its way.                   *)
LEMMA SaidElements ==
  ASSUME NEW g \in Seq(Entries), NEW t \in Seq(MsgRec), NEW x \in ToSet(Said(g, t))
  PROVE  (\E i \in DOMAIN g : x = g[i]) \/ (\E i \in DOMAIN t : x = t[i].ids)
<1>1. PICK k \in 1 .. Len(g) + Len(t) : x = Said(g, t)[k]
  BY SaidFacts DEF ToSet
<1>2. Len(g) \in Nat /\ Len(t) \in Nat /\ DOMAIN t = 1 .. Len(t) /\ DOMAIN g = 1 .. Len(g)
  BY LenProperties
<1>3. CASE k <= Len(g)
  <2>1. k \in 1 .. Len(g)
    BY <1>2, <1>3
  <2>2. Said(g, t)[k] = g[k]
    BY <2>1, SaidFacts
  <2> QED
    BY <1>1, <1>2, <2>1, <2>2
<1>4. CASE ~ k <= Len(g)
  <2>1. k - Len(g) \in 1 .. Len(t) /\ Len(g) + (k - Len(g)) = k
    BY <1>2, <1>4
  <2>2. Said(g, t)[Len(g) + (k - Len(g))] = t[k - Len(g)].ids
    BY <2>1, SaidFacts
  <2> QED
    BY <1>1, <1>2, <2>1, <2>2
<1> QED
  BY <1>3, <1>4

(* Two lists of entries are the same if they are of one length and agree.  *)
LEMMA SameEntries ==
  ASSUME NEW s \in Seq(Entries), NEW t \in Seq(Entries), NEW n \in Nat,
         Len(s) = n, Len(t) = n, \A i \in 1 .. n : s[i] = t[i]
  PROVE  s = t
BY SeqEqual

(* A message more is sent.                                                 *)
LEMMA SaidAppend ==
  ASSUME NEW g \in Seq(Entries), NEW t \in Seq(MsgRec), NEW m \in MsgRec
  PROVE  Said(g, Append(t, m)) = Append(Said(g, t), m.ids) /\ m.ids \in Entries
<1> DEFINE a == Said(g, Append(t, m))
           b == Append(Said(g, t), m.ids)
           n == Len(g) + Len(t) + 1
<1>1. Len(g) \in Nat /\ Len(t) \in Nat /\ m.ids \in Entries
  BY LenProperties DEF MsgRec
<1>2. /\ Append(t, m) \in Seq(MsgRec) /\ Len(Append(t, m)) = Len(t) + 1
      /\ \A i \in 1 .. Len(t) : Append(t, m)[i] = t[i]
      /\ Append(t, m)[Len(t) + 1] = m
  BY AppendProperties
<1>3. /\ a \in Seq(Entries) /\ Len(a) = n
      /\ \A i \in 1 .. Len(g) : a[i] = g[i]
      /\ \A i \in 1 .. Len(t) + 1 : a[Len(g) + i] = Append(t, m)[i].ids
  <2> DEFINE w == Append(t, m)
  <2>1. w \in Seq(MsgRec) /\ Len(w) = Len(t) + 1
    BY <1>2
  <2> HIDE DEF w
  <2>2. /\ Said(g, w) \in Seq(Entries) /\ Len(Said(g, w)) = Len(g) + Len(w)
        /\ DOMAIN Said(g, w) = 1 .. Len(g) + Len(w)
        /\ \A i \in 1 .. Len(g) : Said(g, w)[i] = g[i]
        /\ \A i \in 1 .. Len(w) : Said(g, w)[Len(g) + i] = w[i].ids
    BY <2>1, SaidFacts
  <2>3. Len(g) + Len(w) = n
    BY <1>1, <2>1
  <2> QED
    BY <2>1, <2>2, <2>3 DEF w
<1>4. /\ Said(g, t) \in Seq(Entries) /\ Len(Said(g, t)) = Len(g) + Len(t)
      /\ \A i \in 1 .. Len(g) : Said(g, t)[i] = g[i]
      /\ \A i \in 1 .. Len(t) : Said(g, t)[Len(g) + i] = t[i].ids
  BY SaidFacts
<1>5. /\ b \in Seq(Entries) /\ Len(b) = n
      /\ \A i \in 1 .. Len(g) + Len(t) : b[i] = Said(g, t)[i]
      /\ b[n] = m.ids
  BY <1>1, <1>4, AppendProperties
<1> HIDE DEF a, b
<1>6. ASSUME NEW i \in 1 .. n PROVE a[i] = b[i]
  <2>1. CASE i <= Len(g)
    <3>1. i \in 1 .. Len(g) /\ i \in 1 .. Len(g) + Len(t)
      BY <1>1, <2>1
    <3> QED
      BY <1>3, <1>4, <1>5, <3>1
  <2>2. CASE ~ i <= Len(g) /\ i # n
    <3>1. /\ i - Len(g) \in 1 .. Len(t) /\ i - Len(g) \in 1 .. Len(t) + 1
          /\ Len(g) + (i - Len(g)) = i /\ i \in 1 .. Len(g) + Len(t)
      BY <1>1, <2>2
    <3>2. /\ a[Len(g) + (i - Len(g))] = Append(t, m)[i - Len(g)].ids
          /\ Said(g, t)[Len(g) + (i - Len(g))] = t[i - Len(g)].ids
      BY <1>3, <1>4, <3>1
    <3> QED
      BY <1>2, <1>5, <3>1, <3>2
  <2>3. CASE i = n
    <3>1. Len(t) + 1 \in 1 .. Len(t) + 1 /\ Len(g) + (Len(t) + 1) = n
      BY <1>1
    <3>2. a[Len(g) + (Len(t) + 1)] = Append(t, m)[Len(t) + 1].ids
      BY <1>3, <3>1
    <3> QED
      BY <1>2, <1>5, <2>3, <3>1, <3>2
  <2> QED
    BY <2>1, <2>2, <2>3
<1>7. n \in Nat
  BY <1>1
<1> HIDE DEF n
<1>8. a = b
  BY <1>3, <1>5, <1>6, <1>7, SameEntries
<1> QED
  BY <1>1, <1>8 DEF a, b

(* An event is received.                                                   *)
LEMMA SaidMoves ==
  ASSUME NEW g \in Seq(Entries), NEW t \in Seq(MsgRec), t # <<>>
  PROVE  Said(Append(g, Head(t).ids), Tail(t)) = Said(g, t)
<1> DEFINE h == Append(g, Head(t).ids)
           a == Said(h, Tail(t))
           b == Said(g, t)
           n == Len(g) + Len(t)
<1>1. /\ Len(g) \in Nat /\ Len(t) \in Nat \ {0} /\ Head(t) \in MsgRec /\ Head(t) = t[1]
      /\ Tail(t) \in Seq(MsgRec) /\ Len(Tail(t)) = Len(t) - 1 /\ Head(t).ids \in Entries
      /\ \A i \in 1 .. Len(t) - 1 : Tail(t)[i] = t[i + 1]
  BY LenProperties, EmptySeq, HeadTailProperties, MsgCarries
<1>2. /\ h \in Seq(Entries) /\ Len(h) = Len(g) + 1
      /\ \A i \in 1 .. Len(g) : h[i] = g[i]
      /\ h[Len(g) + 1] = Head(t).ids
  BY <1>1, AppendProperties
<1> HIDE DEF h
<1>3. /\ a \in Seq(Entries) /\ Len(a) = n
      /\ \A i \in 1 .. Len(g) + 1 : a[i] = h[i]
      /\ \A i \in 1 .. Len(t) - 1 : a[Len(g) + 1 + i] = Tail(t)[i].ids
  <2> DEFINE w == Tail(t)
  <2>1. w \in Seq(MsgRec) /\ Len(w) = Len(t) - 1
    BY <1>1
  <2> HIDE DEF w
  <2>2. /\ Said(h, w) \in Seq(Entries) /\ Len(Said(h, w)) = Len(h) + Len(w)
        /\ DOMAIN Said(h, w) = 1 .. Len(h) + Len(w)
        /\ \A i \in 1 .. Len(h) : Said(h, w)[i] = h[i]
        /\ \A i \in 1 .. Len(w) : Said(h, w)[Len(h) + i] = w[i].ids
    BY <1>2, <2>1, SaidFacts
  <2>3. Len(h) + Len(w) = n
    BY <1>1, <1>2, <2>1
  <2> QED
    BY <1>1, <1>2, <2>1, <2>2, <2>3 DEF w
<1>4. /\ b \in Seq(Entries) /\ Len(b) = n
      /\ \A i \in 1 .. Len(g) : b[i] = g[i]
      /\ \A i \in 1 .. Len(t) : b[Len(g) + i] = t[i].ids
  BY SaidFacts
<1> HIDE DEF a, b
<1>5. ASSUME NEW i \in 1 .. n PROVE a[i] = b[i]
  <2>1. CASE i <= Len(g)
    <3>1. i \in 1 .. Len(g) /\ i \in 1 .. Len(g) + 1
      BY <1>1, <2>1
    <3> QED
      BY <1>2, <1>3, <1>4, <3>1
  <2>2. CASE i = Len(g) + 1
    <3>1. i \in 1 .. Len(g) + 1 /\ 1 \in 1 .. Len(t)
      BY <1>1, <2>2
    <3> QED
      BY <1>1, <1>2, <1>3, <1>4, <2>2, <3>1
  <2>3. CASE i > Len(g) + 1
    <3>1. /\ i - (Len(g) + 1) \in 1 .. Len(t) - 1 /\ Len(g) + 1 + (i - (Len(g) + 1)) = i
          /\ i - Len(g) \in 1 .. Len(t) /\ Len(g) + (i - Len(g)) = i
          /\ (i - (Len(g) + 1)) + 1 = i - Len(g)
      BY <1>1, <2>3
    <3>2. /\ a[Len(g) + 1 + (i - (Len(g) + 1))] = Tail(t)[i - (Len(g) + 1)].ids
          /\ b[Len(g) + (i - Len(g))] = t[i - Len(g)].ids
          /\ Tail(t)[i - (Len(g) + 1)] = t[(i - (Len(g) + 1)) + 1]
      BY <1>1, <1>3, <1>4, <3>1
    <3> QED
      BY <3>1, <3>2
  <2> QED
    BY <1>1, <2>1, <2>2, <2>3
<1>6. n \in Nat
  BY <1>1
<1> HIDE DEF n
<1>7. a = b
  BY <1>3, <1>4, <1>5, <1>6, SameEntries
<1> QED
  BY <1>7 DEF a, b, h

(* The answer is received: what is left is different still.                *)
LEMMA SaidDrops ==
  ASSUME NEW g \in Seq(Entries), NEW t \in Seq(MsgRec), t # <<>>, IsInjective(Said(g, t))
  PROVE  /\ IsInjective(Said(g, Tail(t)))
         /\ ToSet(Said(g, Tail(t))) \subseteq ToSet(Said(g, t))
<1> DEFINE a == Said(g, Tail(t))
           b == Said(g, t)
           n == Len(g) + Len(t)
           Was(i) == IF i <= Len(g) THEN i ELSE i + 1
<1>1. /\ Len(g) \in Nat /\ Len(t) \in Nat \ {0}
      /\ Tail(t) \in Seq(MsgRec) /\ Len(Tail(t)) = Len(t) - 1
      /\ \A i \in 1 .. Len(t) - 1 : Tail(t)[i] = t[i + 1]
  BY LenProperties, EmptySeq, HeadTailProperties
<1>2. /\ DOMAIN a = 1 .. n - 1
      /\ \A i \in 1 .. Len(g) : a[i] = g[i]
      /\ \A i \in 1 .. Len(t) - 1 : a[Len(g) + i] = Tail(t)[i].ids
  <2> DEFINE w == Tail(t)
  <2>1. w \in Seq(MsgRec) /\ Len(w) = Len(t) - 1
    BY <1>1
  <2> HIDE DEF w
  <2>2. /\ Said(g, w) \in Seq(Entries) /\ Len(Said(g, w)) = Len(g) + Len(w)
        /\ DOMAIN Said(g, w) = 1 .. Len(g) + Len(w)
        /\ \A i \in 1 .. Len(g) : Said(g, w)[i] = g[i]
        /\ \A i \in 1 .. Len(w) : Said(g, w)[Len(g) + i] = w[i].ids
    BY <2>1, SaidFacts
  <2>3. Len(g) + Len(w) = n - 1
    BY <1>1, <2>1
  <2> QED
    BY <2>1, <2>2, <2>3 DEF w
<1>3. /\ DOMAIN b = 1 .. n
      /\ \A i \in 1 .. Len(g) : b[i] = g[i]
      /\ \A i \in 1 .. Len(t) : b[Len(g) + i] = t[i].ids
  BY SaidFacts
<1> HIDE DEF a, b
<1>4. ASSUME NEW i \in DOMAIN a
      PROVE  i \in Nat /\ Was(i) \in DOMAIN b /\ a[i] = b[Was(i)]
  <2>1. i \in 1 .. n - 1
    BY <1>2
  <2>2. CASE i <= Len(g)
    <3>1. i \in 1 .. Len(g) /\ i \in 1 .. n
      BY <1>1, <2>1, <2>2
    <3> QED
      BY <1>2, <1>3, <2>2, <3>1
  <2>3. CASE ~ i <= Len(g)
    <3>1. /\ i - Len(g) \in 1 .. Len(t) - 1 /\ Len(g) + (i - Len(g)) = i
          /\ (i - Len(g)) + 1 \in 1 .. Len(t) /\ Len(g) + ((i - Len(g)) + 1) = i + 1
          /\ i + 1 \in 1 .. n /\ i \in Nat
      BY <1>1, <2>1, <2>3
    <3>2. /\ a[Len(g) + (i - Len(g))] = Tail(t)[i - Len(g)].ids
          /\ Tail(t)[i - Len(g)] = t[(i - Len(g)) + 1]
          /\ b[Len(g) + ((i - Len(g)) + 1)] = t[(i - Len(g)) + 1].ids
      BY <1>1, <1>2, <1>3, <3>1
    <3> QED
      BY <1>3, <2>3, <3>1, <3>2
  <2> QED
    BY <2>2, <2>3
<1>5. ASSUME NEW i \in DOMAIN a, NEW j \in DOMAIN a, a[i] = a[j] PROVE i = j
  <2>1. Was(i) = Was(j)
    <3>1. /\ Was(i) \in DOMAIN b /\ Was(j) \in DOMAIN b /\ b[Was(i)] = b[Was(j)]
      BY <1>4, <1>5
    <3>2. IsInjective(b)
      BY DEF b
    <3> HIDE DEF Was
    <3> QED
      BY <3>1, <3>2 DEF IsInjective
  <2> QED
    BY <1>1, <1>4, <2>1
<1>6. IsInjective(a)
  BY <1>5 DEF IsInjective
<1>7. ASSUME NEW x \in ToSet(a) PROVE x \in ToSet(b)
  <2>1. PICK i \in DOMAIN a : x = a[i]
    BY DEF ToSet
  <2>2. Was(i) \in DOMAIN b /\ b[Was(i)] = x
    BY <1>4, <2>1
  <2> HIDE DEF Was
  <2> QED
    BY <2>2 DEF ToSet
<1> QED
  BY <1>6, <1>7 DEF a, b

(* Where nothing has been received there is at most one entry.             *)
LEMMA SaidAlone ==
  ASSUME NEW g \in Seq(Entries), Len(g) = 0, NEW t \in Seq(MsgRec), Len(t) <= 1
  PROVE  IsInjective(Said(g, t))
<1>1. Len(t) \in Nat
  BY LenProperties
<1>2. DOMAIN Said(g, t) = 1 .. Len(g) + Len(t)
  BY SaidFacts
<1>3. \A i, j \in DOMAIN Said(g, t) : i = j
  BY <1>1, <1>2
<1> QED
  BY <1>3 DEF IsInjective

(* Nothing has been sent.                                                  *)
LEMMA SaidNothing ==
  /\ DOMAIN Said(<<>>, <<>>) = {} /\ ToSet(Said(<<>>, <<>>)) = {}
  /\ IsInjective(Said(<<>>, <<>>))
<1>1. <<>> \in Seq(Entries) /\ <<>> \in Seq(MsgRec) /\ Len(<<>>) = 0
  BY EmptyFacts
<1>2. DOMAIN Said(<<>>, <<>>) = 1 .. Len(<<>>) + Len(<<>>)
  BY <1>1, SaidFacts
<1>3. DOMAIN Said(<<>>, <<>>) = {}
  BY <1>1, <1>2
<1> QED
  BY <1>3 DEF IsInjective, ToSet

(* The end of a list grows with it, and is what is meant by a suffix.      *)
LEMMA EndsAppend ==
  ASSUME NEW T, NEW s \in Seq(T), NEW t \in Seq(T), NEW x \in T, Ends(s, t)
  PROVE  Ends(Append(s, x), Append(t, x))
<1>1. /\ Len(s) \in Nat /\ Len(t) \in Nat /\ Len(s) <= Len(t)
      /\ Len(Append(s, x)) = Len(s) + 1 /\ Len(Append(t, x)) = Len(t) + 1
      /\ \A i \in 1 .. Len(s) : Append(s, x)[i] = s[i]
      /\ \A i \in 1 .. Len(t) : Append(t, x)[i] = t[i]
      /\ Append(s, x)[Len(s) + 1] = x /\ Append(t, x)[Len(t) + 1] = x
  BY LenProperties, AppendProperties DEF Ends
<1>2. ASSUME NEW k \in 1 .. Len(s) + 1
      PROVE  Append(s, x)[Len(s) + 1 - k + 1] = Append(t, x)[Len(t) + 1 - k + 1]
  <2>1. CASE k = 1
    <3>1. Len(s) + 1 - k + 1 = Len(s) + 1 /\ Len(t) + 1 - k + 1 = Len(t) + 1
      BY <1>1, <2>1
    <3> QED
      BY <1>1, <3>1
  <2>2. CASE k # 1
    <3>1. /\ k - 1 \in 1 .. Len(s)
          /\ Len(s) + 1 - k + 1 = Len(s) - (k - 1) + 1 /\ Len(t) + 1 - k + 1 = Len(t) - (k - 1) + 1
          /\ Len(s) - (k - 1) + 1 \in 1 .. Len(s) /\ Len(t) - (k - 1) + 1 \in 1 .. Len(t)
      BY <1>1, <2>2
    <3>2. s[Len(s) - (k - 1) + 1] = t[Len(t) - (k - 1) + 1]
      BY <3>1 DEF Ends
    <3> QED
      BY <1>1, <3>1, <3>2
  <2> QED
    BY <2>1, <2>2
<1> QED
  BY <1>1, <1>2 DEF Ends

(* Every list ends with nothing.                                           *)
LEMMA EndsEmpty ==
  ASSUME NEW T, NEW t \in Seq(T)
  PROVE  Ends(<<>>, t)
<1>1. Len(t) \in Nat /\ Len(<<>>) = 0 /\ 1 .. 0 = {}
  BY LenProperties
<1> QED
  BY <1>1 DEF Ends

(* What Ends says is what IsSuffix says.                                   *)
LEMMA EndsSuffix ==
  ASSUME NEW T, NEW s \in Seq(T), NEW t \in Seq(T), Ends(s, t)
  PROVE  IsSuffix(s, t)
<1> DEFINE a == Reverse(s)
           b == Reverse(t)
<1>1. Len(s) \in Nat /\ Len(t) \in Nat /\ Len(s) <= Len(t)
  BY LenProperties DEF Ends
<1>2. /\ a = [i \in 1 .. Len(s) |-> s[(Len(s) - i) + 1]]
      /\ b = [i \in 1 .. Len(t) |-> t[(Len(t) - i) + 1]]
  BY DEF Reverse
<1>3. /\ \A i \in 1 .. Len(s) : s[(Len(s) - i) + 1] \in T
      /\ \A i \in 1 .. Len(t) : t[(Len(t) - i) + 1] \in T
  <2>1. /\ \A i \in 1 .. Len(s) : (Len(s) - i) + 1 \in 1 .. Len(s)
        /\ \A i \in 1 .. Len(t) : (Len(t) - i) + 1 \in 1 .. Len(t)
    BY <1>1
  <2> QED
    BY <2>1, ElementOfSeq
<1>4. a \in [1 .. Len(s) -> T] /\ b \in [1 .. Len(t) -> T]
  BY <1>2, <1>3
<1>5. a \in Seq(T) /\ Len(a) = Len(s) /\ b \in Seq(T) /\ Len(b) = Len(t)
  BY <1>1, <1>4, FunctionIsList
<1>6. \A i \in 1 .. Len(s) : a[i] = b[i]
  BY <1>1, <1>2 DEF Ends
<1> HIDE DEF a, b
<1>7. SubSeq(a, 1, Len(s)) = SubSeq(b, 1, Len(s))
  <2> DEFINE u == SubSeq(a, 1, Len(s))
             v == SubSeq(b, 1, Len(s))
  <2>1. u \in Seq(T) /\ Len(u) = Len(s) /\ \A i \in 1 .. Len(s) : u[i] = a[i]
    BY <1>1, <1>5
  <2>2. v \in Seq(T) /\ Len(v) = Len(s) /\ \A i \in 1 .. Len(s) : v[i] = b[i]
    BY <1>1, <1>5
  <2> HIDE DEF u, v
  <2>3. u = v
    BY <1>6, <2>1, <2>2, SeqEqual
  <2> QED
    BY <2>3 DEF u, v
<1> QED
  BY <1>1, <1>5, <1>7 DEF IsSuffix, IsPrefix, a, b

-----------------------------------------------------------------------------
(* What a step leaves alone.                                               *)
Same(d) ==
  /\ conn'[d] = conn[d] /\ call'[d] = call[d] /\ toCli'[d] = toCli[d] /\ closed'[d] = closed[d]
  /\ got'[d] = got[d] /\ due'[d] = due[d] /\ shrunk'[d] = shrunk[d]
  /\ d \in held => d \in held'

(* The kinds of what a connection has.                                     *)
LEMMA KindsOf ==
  ASSUME ServerKinds, NEW c \in Conns
  PROVE  /\ conn[c] \in ConnRec /\ conn[c].pc \in Pcs /\ conn[c].sz \in Int
         /\ conn[c].prpc \in {"none", "hotplug"}
         /\ call[c] \in CallRec /\ call[c].st \in {"idle", "wait", "on", "done"}
         /\ call[c].req \in Requests /\ call[c].ids \in Entries
         /\ toCli[c] \in Seq(MsgRec) /\ closed[c] \in BOOLEAN
         /\ got[c] \in Seq(Entries) /\ due[c] \in Seq(Entries) /\ shrunk[c] \in BOOLEAN
<1>1. conn[c] \in ConnRec /\ call[c] \in CallRec
  BY DEF ServerKinds
<1>2. /\ conn[c].pc \in Pcs /\ conn[c].sz \in Int /\ conn[c].prpc \in {"none", "hotplug"}
      /\ call[c].st \in {"idle", "wait", "on", "done"} /\ call[c].req \in Requests
      /\ call[c].ids \in Entries
  BY <1>1 DEF ConnRec, CallRec
<1> QED
  BY <1>1, <1>2 DEF ServerKinds

(* A connection that the step leaves alone, the devices and the poll       *)
(* thread with it.                                                         *)
LEMMA OtherConn ==
  ASSUME NEW d, ConnOf(d), Same(d), UNCHANGED <<devs, polls>>
  PROVE  ConnOf(d)'
<1>1. LinkOf(d)'
  BY DEF ConnOf, Same, LinkOf
<1>2. ListOf(d)'
  BY DEF ConnOf, Same, ListOf, devs, polls
<1>3. IsInjective(Said(got'[d], toCli'[d]))
  BY DEF ConnOf, Same
<1>4. ASSUME ToldOf(d) PROVE ToldOf(d)'
  BY <1>4 DEF Same, ToldOf, MsgOf, IsEvent, Pair, devs, polls
<1> QED
  BY <1>1, <1>2, <1>3, <1>4 DEF ConnOf, Same

(* A step about one connection.                                            *)
LEMMA OneConn ==
  ASSUME ServerInv, NEW c \in Conns, UNCHANGED <<devs, polls>>,
         ServerKinds', HotInv', stale' \subseteq held', ConnOf(c)', \A d \in Conns \ {c} : Same(d)
  PROVE  ServerInv'
<1>1. \A d \in Conns : ConnOf(d)'
  BY OtherConn DEF ServerInv
<1>2. DevsInv'
  BY DEF ServerInv, DevsInv, devs, polls
<1> QED
  BY <1>1, <1>2 DEF ServerInv

(* The subscribers are the same.                                           *)
LEMMA HotKept ==
  ASSUME HotInv, UNCHANGED <<hot, left, poll>>, \A d \in Conns : conn'[d].prpc = conn[d].prpc
  PROVE  HotInv'
BY DEF HotInv

(* A thread goes on to another place of its code.                          *)
LEMMA GotoEffect ==
  ASSUME ServerKinds, NEW c \in Conns, NEW p \in Pcs, Goto(c, p)
  PROVE  /\ conn' \in [Conns -> ConnRec]
         /\ conn'[c].pc = p /\ conn'[c].prpc = conn[c].prpc /\ conn'[c].sz = conn[c].sz
         /\ \A d \in Conns \ {c} : conn'[d] = conn[d]
<1>1. conn \in [Conns -> ConnRec] /\ conn[c] \in ConnRec
  BY DEF ServerKinds
<1>2. conn' = [conn EXCEPT ![c] = [conn[c] EXCEPT !.pc = p]]
  BY <1>1 DEF Goto
<1>3. /\ [conn[c] EXCEPT !.pc = p] \in ConnRec /\ [conn[c] EXCEPT !.pc = p].pc = p
      /\ [conn[c] EXCEPT !.pc = p].prpc = conn[c].prpc /\ [conn[c] EXCEPT !.pc = p].sz = conn[c].sz
  BY <1>1 DEF ConnRec
<1> QED
  BY <1>1, <1>2, <1>3

(* A message is sent, unless the client is gone.                           *)
LEMMA SendEffect ==
  ASSUME ServerKinds, NEW c \in Conns, NEW m \in MsgRec, SendTo(c, m)
  PROVE  /\ toCli' \in [Conns -> Seq(MsgRec)]
         /\ toCli'[c] = IF closed[c] THEN toCli[c] ELSE Append(toCli[c], m)
         /\ \A d \in Conns \ {c} : toCli'[d] = toCli[d]
<1>1. /\ toCli \in [Conns -> Seq(MsgRec)] /\ toCli[c] \in Seq(MsgRec)
      /\ Append(toCli[c], m) \in Seq(MsgRec)
  BY AppendProperties DEF ServerKinds
<1>2. toCli' = IF closed[c] THEN toCli ELSE [toCli EXCEPT ![c] = Append(toCli[c], m)]
  BY DEF SendTo
<1> QED
  BY <1>1, <1>2

(* The thread of a connection goes on while its client has been sent       *)
(* nothing.                                                                *)
LEMMA GotoStep ==
  ASSUME ServerInv, NEW c \in Conns, NEW p \in Pcs \ {"none", "ids", "ack", "recv"}, Goto(c, p),
         toCli[c] = <<>>, got[c] = <<>>, conn[c].pc # "none",
         UNCHANGED <<devs, polls, hot, call, calls, toCli, closed, hist>>,
         p = "end" => call[c].st = "done",
         conn[c].prpc = "hotplug" => p = "end",
         p \in Requests \cup {"serial", "start"} => call[c].res # "ok",
         p \in Requests => p = call[c].req,
         p \in {"serial", "start"} => call[c].req \in {"mac", "bind"} /\ call[c].id \in ToSet(work)
  PROVE  ServerInv'
<1>1. /\ ServerKinds /\ HotInv /\ ConnOf(c) /\ stale \subseteq held
  BY DEF ServerInv
<1>2. /\ conn' \in [Conns -> ConnRec]
      /\ conn'[c].pc = p /\ conn'[c].prpc = conn[c].prpc /\ conn'[c].sz = conn[c].sz
      /\ \A d \in Conns \ {c} : conn'[d] = conn[d]
  BY <1>1, GotoEffect
<1>3. /\ work' = work /\ nxt_working_id' = nxt_working_id /\ poll' = poll /\ evt' = evt
      /\ left' = left /\ hot' = hot /\ call' = call /\ calls' = calls /\ toCli' = toCli
      /\ closed' = closed /\ got' = got /\ due' = due /\ shrunk' = shrunk
      /\ stale' = stale /\ held' = held
  BY DEF devs, polls, hist
<1>4. ServerKinds'
  BY <1>1, <1>2, <1>3 DEF ServerKinds
<1>5. HotInv'
  BY <1>1, <1>2, <1>3, HotKept
<1>6. conn[c].prpc \in {"none", "hotplug"}
  BY <1>1, KindsOf
<1>7. LinkOf(c)'
  BY <1>1, <1>2, <1>3, <1>6 DEF ConnOf, LinkOf, Asking, Requests
<1>8. ListOf(c)'
  BY <1>1, <1>2, <1>3 DEF ConnOf, ListOf
<1>9. ToldOf(c) => ToldOf(c)'
  <2>1. DOMAIN toCli'[c] = {}
    BY <1>3
  <2> QED
    BY <1>3, <2>1 DEF ToldOf, IsEvent, Pair
<1>10. ConnOf(c)'
  BY <1>1, <1>3, <1>7, <1>8, <1>9 DEF ConnOf
<1> QED
  BY <1>1, <1>2, <1>3, <1>4, <1>5, <1>10, OneConn DEF Same, devs, polls

(* A request is answered: the only message the client is ever sent.        *)
LEMMA ReplyStep ==
  ASSUME ServerInv, NEW c \in Conns, NEW m \in MsgRec, Reply(c, m, "served"),
         conn[c].pc \in Asking \ {"recv", "hotplug"}, conn[c].prpc = "none",
         UNCHANGED <<devs, polls, hot, call, calls, closed, got, due, shrunk, held>>, stale' \subseteq held',
         call[c].req = "list" => TrueList(m.ids, shrunk[c])
  PROVE  ServerInv'
<1>1. /\ ServerKinds /\ HotInv /\ ConnOf(c) /\ LinkOf(c) /\ ListOf(c)
  BY DEF ServerInv, ConnOf
<1>2. /\ conn' \in [Conns -> ConnRec]
      /\ conn'[c].pc = "served" /\ conn'[c].prpc = conn[c].prpc /\ conn'[c].sz = conn[c].sz
      /\ \A d \in Conns \ {c} : conn'[d] = conn[d]
  BY <1>1, GotoEffect DEF Reply, Pcs
<1>3. /\ toCli' \in [Conns -> Seq(MsgRec)]
      /\ toCli'[c] = IF closed[c] THEN toCli[c] ELSE Append(toCli[c], m)
      /\ \A d \in Conns \ {c} : toCli'[d] = toCli[d]
  BY <1>1, SendEffect DEF Reply
<1>4. /\ work' = work /\ nxt_working_id' = nxt_working_id /\ poll' = poll /\ evt' = evt
      /\ left' = left /\ hot' = hot /\ call' = call /\ calls' = calls
      /\ closed' = closed /\ got' = got /\ due' = due /\ shrunk' = shrunk
  BY DEF devs, polls
<1>5. ServerKinds'
  BY <1>1, <1>2, <1>3, <1>4 DEF ServerKinds
<1>6. HotInv'
  BY <1>1, <1>2, <1>4, HotKept
<1>7. toCli[c] = <<>> /\ got[c] = <<>> /\ call[c].req # "hotplug"
  BY <1>1 DEF LinkOf, Asking
<1>8. /\ Len(toCli'[c]) <= 1
      /\ \A i \in DOMAIN toCli'[c] : ~ closed[c] /\ toCli'[c][i] = m
  BY <1>3, <1>7
<1>9. closed[c] => toCli'[c] = <<>>
  BY <1>3, <1>7
<1>10. LinkOf(c)'
  BY <1>1, <1>2, <1>4, <1>7, <1>8, <1>9 DEF LinkOf, Asking, Requests
<1>11. ListOf(c)'
  BY <1>1, <1>2, <1>4, <1>8 DEF ListOf
<1>12. IsInjective(Said(got'[c], toCli'[c]))
  <2>1. toCli'[c] \in Seq(MsgRec) /\ got'[c] \in Seq(Entries) /\ Len(got'[c]) = 0
    BY <1>3, <1>4, <1>7, EmptyFacts
  <2> QED
    BY <1>8, <2>1, SaidAlone
<1>13. ConnOf(c)'
  BY <1>4, <1>7, <1>10, <1>11, <1>12 DEF ConnOf
<1> QED
  BY <1>2, <1>3, <1>4, <1>5, <1>6, <1>13, OneConn DEF Same, devs, polls

(* A call of a client ends.                                                *)
LEMMA FinishEffect ==
  ASSUME ServerKinds, NEW c \in Conns, NEW r \in {"ok", "mac", "refused", "timeout"},
         NEW l \in Entries, Finish(c, r, l)
  PROVE  /\ call' \in [Conns -> CallRec] /\ closed' \in [Conns -> BOOLEAN]
         /\ toCli' \in [Conns -> Seq(MsgRec)]
         /\ got' \in [Conns -> Seq(Entries)] /\ due' \in [Conns -> Seq(Entries)]
         /\ call'[c].st = "done" /\ call'[c].res = r /\ call'[c].ids = l
         /\ call'[c].req = call[c].req /\ call'[c].id = call[c].id
         /\ closed'[c] = TRUE /\ toCli'[c] = <<>> /\ got'[c] = <<>> /\ due'[c] = <<>>
         /\ \A d \in Conns \ {c} :
              /\ call'[d] = call[d] /\ closed'[d] = closed[d] /\ toCli'[d] = toCli[d]
              /\ got'[d] = got[d] /\ due'[d] = due[d]
<1> DEFINE k == [call[c] EXCEPT !.st = "done", !.res = r, !.ids = l]
<1>1. /\ call \in [Conns -> CallRec] /\ call[c] \in CallRec /\ closed \in [Conns -> BOOLEAN]
      /\ toCli \in [Conns -> Seq(MsgRec)] /\ got \in [Conns -> Seq(Entries)]
      /\ due \in [Conns -> Seq(Entries)]
      /\ <<>> \in Seq(MsgRec) /\ <<>> \in Seq(Entries)
  BY EmptyFacts DEF ServerKinds
<1>2. /\ k \in CallRec /\ k.st = "done" /\ k.res = r /\ k.ids = l
      /\ k.req = call[c].req /\ k.id = call[c].id
  BY <1>1 DEF CallRec
<1>3. /\ call' = [call EXCEPT ![c] = k] /\ closed' = [closed EXCEPT ![c] = TRUE]
      /\ toCli' = [toCli EXCEPT ![c] = <<>>] /\ got' = [got EXCEPT ![c] = <<>>]
      /\ due' = [due EXCEPT ![c] = <<>>]
  BY <1>1 DEF Finish
<1> HIDE DEF k
<1>4. /\ call' \in [Conns -> CallRec] /\ call'[c] = k
      /\ \A d \in Conns \ {c} : call'[d] = call[d]
  BY <1>1, <1>2, <1>3
<1>5. /\ closed' \in [Conns -> BOOLEAN] /\ closed'[c] = TRUE
      /\ \A d \in Conns \ {c} : closed'[d] = closed[d]
  BY <1>1, <1>3
<1>6. /\ toCli' \in [Conns -> Seq(MsgRec)] /\ toCli'[c] = <<>>
      /\ \A d \in Conns \ {c} : toCli'[d] = toCli[d]
  BY <1>1, <1>3
<1>7. /\ got' \in [Conns -> Seq(Entries)] /\ got'[c] = <<>>
      /\ \A d \in Conns \ {c} : got'[d] = got[d]
  BY <1>1, <1>3
<1>8. /\ due' \in [Conns -> Seq(Entries)] /\ due'[c] = <<>>
      /\ \A d \in Conns \ {c} : due'[d] = due[d]
  BY <1>1, <1>3
<1> QED
  BY <1>2, <1>4, <1>5, <1>6, <1>7, <1>8

(* The application got its answer, gave up, or left.                       *)
LEMMA FinishStep ==
  ASSUME ServerInv, NEW c \in Conns, NEW r \in {"ok", "mac", "refused", "timeout"},
         NEW l \in Entries, Finish(c, r, l), call[c].st \in {"wait", "on"},
         UNCHANGED <<devs, polls, hot, conn, calls>>,
         r = "ok" => toCli[c] # <<>> \/ call[c].st = "on",
         call[c].req = "list" /\ r = "ok" => TrueList(l, shrunk[c])
  PROVE  ServerInv'
<1>1. /\ ServerKinds /\ HotInv /\ ConnOf(c) /\ LinkOf(c) /\ ListOf(c)
      /\ stale \subseteq held
  BY DEF ServerInv, ConnOf
<1>2. /\ call' \in [Conns -> CallRec] /\ closed' \in [Conns -> BOOLEAN]
      /\ toCli' \in [Conns -> Seq(MsgRec)]
      /\ got' \in [Conns -> Seq(Entries)] /\ due' \in [Conns -> Seq(Entries)]
      /\ call'[c].st = "done" /\ call'[c].res = r /\ call'[c].ids = l
      /\ call'[c].req = call[c].req /\ call'[c].id = call[c].id
      /\ closed'[c] = TRUE /\ toCli'[c] = <<>> /\ got'[c] = <<>> /\ due'[c] = <<>>
      /\ \A d \in Conns \ {c} :
           /\ call'[d] = call[d] /\ closed'[d] = closed[d] /\ toCli'[d] = toCli[d]
           /\ got'[d] = got[d] /\ due'[d] = due[d]
  BY <1>1, FinishEffect
<1>3. /\ work' = work /\ nxt_working_id' = nxt_working_id /\ poll' = poll /\ evt' = evt
      /\ left' = left /\ hot' = hot /\ conn' = conn /\ calls' = calls
      /\ shrunk' = shrunk /\ stale' = stale /\ held' = held
  BY DEF devs, polls, Finish
<1>4. ServerKinds'
  BY <1>1, <1>2, <1>3 DEF ServerKinds
<1>5. HotInv'
  BY <1>1, <1>3, HotKept
<1>6. LinkOf(c)'
  <2>1. conn[c].pc # "none"
    BY <1>1 DEF LinkOf
  <2>2. conn[c].prpc = "none" /\ conn[c].pc \in Asking => r # "ok"
    BY <1>1 DEF LinkOf
  <2>3. Len(toCli'[c]) <= 1
    BY <1>2, EmptyFacts
  <2> QED
    BY <1>1, <1>2, <1>3, <2>1, <2>2, <2>3 DEF LinkOf
<1>7. DOMAIN toCli'[c] = {} /\ DOMAIN got'[c] = {}
  BY <1>2
<1>8. ListOf(c)'
  BY <1>1, <1>2, <1>3, <1>7 DEF ListOf
<1>9. /\ DOMAIN Said(got'[c], toCli'[c]) = {} /\ ToSet(Said(got'[c], toCli'[c])) = {}
      /\ IsInjective(Said(got'[c], toCli'[c]))
  BY <1>2, SaidNothing
<1>10. ToldOf(c)'
  BY <1>2, <1>7, <1>9 DEF ToldOf
<1>11. ConnOf(c)'
  BY <1>6, <1>8, <1>9, <1>10 DEF ConnOf
<1> QED
  BY <1>1, <1>2, <1>3, <1>4, <1>5, <1>11, OneConn DEF Same, devs, polls

-----------------------------------------------------------------------------
(* The steps of a client.                                                  *)

(* A new connection.                                                       *)
LEMMA ConnectStep == ASSUME ServerInv, NEW c \in Conns, Connect(c) PROVE ServerInv'
<1>1. /\ ServerKinds /\ HotInv /\ ConnOf(c) /\ LinkOf(c) /\ ListOf(c)
      /\ stale \subseteq held
      /\ call[c].st = "idle" /\ conn[c].pc = "none"
  BY DEF ServerInv, ConnOf, Connect, Has
<1>2. PICK q \in May[c] :
        \E i \in IF q \in {"open", "mac", "bind"} THEN Ids ELSE {0} :
          call' = [call EXCEPT ![c] = [NoCall EXCEPT !.st = "wait", !.req = q, !.id = i]]
  BY DEF Connect
<1>3. PICK i \in IF q \in {"open", "mac", "bind"} THEN Ids ELSE {0} :
        call' = [call EXCEPT ![c] = [NoCall EXCEPT !.st = "wait", !.req = q, !.id = i]]
  BY <1>2
<1> DEFINE k == [NoCall EXCEPT !.st = "wait", !.req = q, !.id = i]
           n == [Idle EXCEPT !.pc = "recv"]
<1>4. q \in Requests /\ i \in Nat
  <2>1. q \in Requests
    BY <1>2, ServerBounds
  <2>2. i \in Ids \/ i = 0
    BY <1>3
  <2> QED
    BY <2>1, <2>2, ServerBounds DEF Ids
<1>5. k \in CallRec /\ k.st = "wait" /\ k.req = q /\ k.res = "none"
  BY <1>4, EmptyFacts DEF CallRec, NoCall, Entries
<1>6. n \in ConnRec /\ n.pc = "recv" /\ n.prpc = "none" /\ n.sz = 0
  BY DEF ConnRec, Idle, Pcs
<1>7. /\ call' = [call EXCEPT ![c] = k] /\ conn' = [conn EXCEPT ![c] = n]
      /\ calls' \in 0 .. MaxCalls
  <2>1. calls \in 0 .. MaxCalls /\ calls < MaxCalls /\ calls' = calls + 1
    BY <1>1 DEF Connect, ServerKinds
  <2>2. calls' \in 0 .. MaxCalls
    BY <2>1, ServerBounds
  <2> QED
    BY <1>3, <2>2 DEF Connect
<1> HIDE DEF k, n
<1>8. /\ call' \in [Conns -> CallRec] /\ call'[c] = k
      /\ \A d \in Conns \ {c} : call'[d] = call[d]
  BY <1>1, <1>5, <1>7 DEF ServerKinds
<1>9. /\ conn' \in [Conns -> ConnRec] /\ conn'[c] = n
      /\ \A d \in Conns \ {c} : conn'[d] = conn[d]
  BY <1>1, <1>6, <1>7 DEF ServerKinds
<1>10. /\ work' = work /\ nxt_working_id' = nxt_working_id /\ poll' = poll /\ evt' = evt
       /\ left' = left /\ hot' = hot /\ toCli' = toCli /\ closed' = closed /\ got' = got
       /\ due' = due /\ shrunk' = shrunk /\ stale' = stale /\ held' = held
  BY DEF Connect, devs, polls, hist
<1>11. ServerKinds'
  BY <1>1, <1>7, <1>8, <1>9, <1>10 DEF ServerKinds
<1>12. conn[c].prpc = "none"
  BY <1>1 DEF LinkOf
<1>13. HotInv'
  BY <1>1, <1>6, <1>9, <1>10, <1>12, HotKept
<1>14. toCli[c] = <<>> /\ got[c] = <<>> /\ due[c] = <<>> /\ ~ closed[c]
  BY <1>1, KindsOf DEF LinkOf
<1>15. Len(toCli'[c]) <= 1
  BY <1>10, <1>14, EmptyFacts
<1>16. LinkOf(c)'
  BY <1>5, <1>6, <1>8, <1>9, <1>10, <1>14, <1>15 DEF LinkOf, Requests
<1>17. DOMAIN toCli'[c] = {} /\ DOMAIN got'[c] = {}
  BY <1>10, <1>14
<1>18. ListOf(c)'
  BY <1>5, <1>6, <1>8, <1>9, <1>17 DEF ListOf
<1>19. /\ ToSet(Said(got'[c], toCli'[c])) = {} /\ IsInjective(Said(got'[c], toCli'[c]))
  BY <1>10, <1>14, SaidNothing
<1>20. ToldOf(c)'
  BY <1>5, <1>8, <1>17, <1>19 DEF ToldOf
<1>21. ConnOf(c)'
  BY <1>16, <1>18, <1>19, <1>20 DEF ConnOf
<1> QED
  BY <1>1, <1>8, <1>9, <1>10, <1>11, <1>13, <1>21, OneConn DEF Same, devs, polls

(* The answers the library waits for.                                      *)
LEMMA AnswerStep ==
  ASSUME ServerInv, NEW c \in Conns, Answered(c)
  PROVE  ServerInv'
<1>1. /\ ServerKinds /\ ListOf(c) /\ <<>> \in Entries
  BY EmptyFacts DEF ServerInv, ConnOf, Entries
<1>2. ASSUME toCli[c] # <<>>, call[c].st = "wait", UNCHANGED <<devs, polls, hot, conn, calls>>,
             NEW r \in {"ok", "mac", "refused", "timeout"}, Finish(c, r, <<>>), call[c].req # "list"
      PROVE  ServerInv'
  BY <1>1, <1>2, FinishStep
<1>3. CASE HostConnected(c)
  BY <1>2, <1>3 DEF HostConnected, Answer, Ok, NoIds, Has
<1>4. CASE ListGot(c)
  <2>1. /\ toCli[c] # <<>> /\ call[c].st = "wait" /\ call[c].req = "list"
        /\ Finish(c, "ok", Head(toCli[c]).ids)
        /\ UNCHANGED <<devs, polls, hot, conn, calls>>
    BY <1>4 DEF ListGot, Answer, Ok, MsgIds, Has
  <2>2. /\ Head(toCli[c]) \in MsgRec /\ 1 \in DOMAIN toCli[c] /\ Head(toCli[c]) = toCli[c][1]
    BY <1>1, <2>1, KindsOf, QueueFacts
  <2>3. Head(toCli[c]).ids \in Entries
    BY <2>2, MsgCarries
  <2>4. TrueList(Head(toCli[c]).ids, shrunk[c])
    BY <1>1, <2>1, <2>2 DEF ListOf
  <2> QED
    BY <2>1, <2>3, <2>4, FinishStep
<1>5. CASE InfoGot(c)
  <2>1. PICK r \in {"mac", "ok"} : Finish(c, r, <<>>)
    BY <1>5 DEF InfoGot, Answer, NoIds
  <2> QED
    BY <1>2, <1>5, <2>1 DEF InfoGot, Answer, Has
<1>6. CASE WorkidTested(c)
  <2>1. PICK r \in {"ok", "refused"} : Finish(c, r, <<>>)
    BY <1>6 DEF WorkidTested, Answer, NoIds, Accepts
  <2> QED
    BY <1>2, <1>6, <2>1 DEF WorkidTested, Answer, Has
<1>7. CASE PlatAnswered(c)
  BY <1>2, <1>7 DEF PlatAnswered, Answer, Ok, NoIds, Has
<1>8. CASE BindAnswered(c)
  BY <1>2, <1>8 DEF BindAnswered, Answer, Ok, NoIds, Has
<1> QED
  BY <1>3, <1>4, <1>5, <1>6, <1>7, <1>8 DEF Answered

(* The answer did not come in time.                                        *)
LEMMA GiveUpStep == ASSUME ServerInv, NEW c \in Conns, GiveUp(c) PROVE ServerInv'
<1>1. /\ <<>> \in Entries /\ call[c].st = "wait" /\ Finish(c, "timeout", <<>>)
      /\ UNCHANGED <<devs, polls, hot, conn, calls>>
  BY EmptyFacts DEF GiveUp, Has, Entries
<1> QED
  BY <1>1, FinishStep

(* The subscriber leaves.                                                  *)
LEMMA DisconnectStep == ASSUME ServerInv, NEW c \in Conns, Disconnect(c) PROVE ServerInv'
<1>1. /\ <<>> \in Entries /\ call[c].st = "on" /\ Finish(c, "ok", <<>>)
      /\ UNCHANGED <<devs, polls, hot, conn, calls>>
  BY EmptyFacts DEF Disconnect, Has, Entries
<1>2. call[c].req # "list"
  BY <1>1 DEF ServerInv, ConnOf, LinkOf
<1> QED
  BY <1>1, <1>2, FinishStep

(* Both sides have closed.                                                 *)
LEMMA ForgetStep == ASSUME ServerInv, NEW c \in Conns, Forget(c) PROVE ServerInv'
<1>1. /\ ServerKinds /\ HotInv /\ ConnOf(c) /\ LinkOf(c) /\ ListOf(c)
      /\ stale \subseteq held
      /\ call[c].st = "done" /\ conn[c].pc = "none"
  BY DEF ServerInv, ConnOf, Forget, Has
<1>2. NoCall \in CallRec /\ NoCall.st = "idle" /\ NoCall.req = "test"
  BY EmptyFacts DEF CallRec, NoCall, Entries, Requests
<1>3. /\ call' = [call EXCEPT ![c] = NoCall] /\ closed' = [closed EXCEPT ![c] = FALSE]
      /\ shrunk' = [shrunk EXCEPT ![c] = FALSE]
      /\ held' = held \ {c} /\ stale' = stale \ {c}
  BY DEF Forget
<1>4. /\ call' \in [Conns -> CallRec] /\ call'[c] = NoCall
      /\ \A d \in Conns \ {c} : call'[d] = call[d]
  BY <1>1, <1>2, <1>3 DEF ServerKinds
<1>5. /\ closed' \in [Conns -> BOOLEAN] /\ ~ closed'[c]
      /\ \A d \in Conns \ {c} : closed'[d] = closed[d]
  BY <1>1, <1>3 DEF ServerKinds
<1>6. /\ shrunk' \in [Conns -> BOOLEAN]
      /\ \A d \in Conns \ {c} : shrunk'[d] = shrunk[d]
  BY <1>1, <1>3 DEF ServerKinds
<1>7. /\ work' = work /\ nxt_working_id' = nxt_working_id /\ poll' = poll /\ evt' = evt
      /\ left' = left /\ hot' = hot /\ conn' = conn /\ calls' = calls /\ toCli' = toCli
      /\ got' = got /\ due' = due
  BY DEF Forget, devs, polls
<1>8. ServerKinds'
  BY <1>1, <1>4, <1>5, <1>6, <1>7 DEF ServerKinds
<1>9. HotInv'
  BY <1>1, <1>7, HotKept
<1>10. toCli[c] = <<>> /\ got[c] = <<>> /\ due[c] = <<>> /\ conn[c].prpc = "none"
  BY <1>1 DEF LinkOf
<1>11. Len(toCli'[c]) <= 1
  BY <1>7, <1>10, EmptyFacts
<1>12. LinkOf(c)'
  BY <1>1, <1>2, <1>4, <1>5, <1>7, <1>10, <1>11 DEF LinkOf, Asking, Requests
<1>13. ListOf(c)'
  BY <1>1, <1>2, <1>4, <1>7 DEF ListOf
<1>14. IsInjective(Said(got'[c], toCli'[c]))
  BY <1>7, <1>10, SaidNothing
<1>15. ConnOf(c)'
  BY <1>2, <1>4, <1>12, <1>13, <1>14 DEF ConnOf
<1> QED
  BY <1>1, <1>3, <1>4, <1>5, <1>6, <1>7, <1>8, <1>9, <1>15, OneConn DEF Same, devs, polls

(* A subscriber receives its answer, or an event.                          *)
LEMMA HotplugEffect ==
  ASSUME ServerKinds, NEW c \in Conns, Hotplug(c)
  PROVE  /\ toCli[c] # <<>> /\ toCli' \in [Conns -> Seq(MsgRec)] /\ toCli'[c] = Tail(toCli[c])
         /\ call' \in [Conns -> CallRec] /\ got' \in [Conns -> Seq(Entries)]
         /\ call'[c].req = call[c].req
         /\ Head(toCli[c]).kind = "ack" => call'[c].st = "on" /\ got'[c] = got[c]
         /\ Head(toCli[c]).kind # "ack" => /\ call'[c] = call[c]
                                           /\ got'[c] = Append(got[c], Head(toCli[c]).ids)
         /\ \A d \in Conns \ {c} :
              call'[d] = call[d] /\ toCli'[d] = toCli[d] /\ got'[d] = got[d]
<1> DEFINE m == Head(toCli[c])
           k == [call[c] EXCEPT !.st = "on"]
<1>1. /\ toCli \in [Conns -> Seq(MsgRec)] /\ toCli[c] # <<>> /\ m \in MsgRec
      /\ Tail(toCli[c]) \in Seq(MsgRec)
  BY QueueFacts DEF Hotplug, ServerKinds
<1>2. /\ call \in [Conns -> CallRec] /\ call[c] \in CallRec
      /\ got \in [Conns -> Seq(Entries)] /\ Append(got[c], m.ids) \in Seq(Entries)
  BY <1>1, MsgCarries, AppendFacts DEF ServerKinds
<1>3. k \in CallRec /\ k.st = "on" /\ k.req = call[c].req
  BY <1>2 DEF CallRec
<1>4. toCli' = [toCli EXCEPT ![c] = Tail(toCli[c])]
  BY <1>1 DEF Hotplug
<1>5. IF m.kind = "ack" THEN call' = [call EXCEPT ![c] = k] /\ got' = got
      ELSE call' = call /\ got' = [got EXCEPT ![c] = Append(got[c], m.ids)]
  BY <1>2 DEF Hotplug
<1> HIDE DEF m, k
<1>6. /\ toCli' \in [Conns -> Seq(MsgRec)] /\ toCli'[c] = Tail(toCli[c])
      /\ \A d \in Conns \ {c} : toCli'[d] = toCli[d]
  BY <1>1, <1>4
<1>7. /\ call' \in [Conns -> CallRec] /\ got' \in [Conns -> Seq(Entries)]
      /\ call'[c].req = call[c].req
      /\ m.kind = "ack" => call'[c].st = "on" /\ got'[c] = got[c]
      /\ m.kind # "ack" => call'[c] = call[c] /\ got'[c] = Append(got[c], m.ids)
      /\ \A d \in Conns \ {c} : call'[d] = call[d] /\ got'[d] = got[d]
  <2>1. CASE m.kind = "ack"
    BY <1>2, <1>3, <1>5, <2>1
  <2>2. CASE m.kind # "ack"
    BY <1>2, <1>5, <2>2
  <2> QED
    BY <2>1, <2>2
<1> QED
  BY <1>1, <1>6, <1>7 DEF m

(* The subscriber receives the answer or an event: it moves from what is   *)
(* on its way to what was received, or is dropped.                         *)
LEMMA HotplugStep == ASSUME ServerInv, NEW c \in Conns, Hotplug(c) PROVE ServerInv'
<1> DEFINE m == Head(toCli[c])
<1>1. /\ ServerKinds /\ HotInv /\ ConnOf(c) /\ LinkOf(c) /\ ListOf(c) /\ ToldOf(c)
      /\ stale \subseteq held
      /\ call[c].req = "hotplug" /\ call[c].st \in {"wait", "on"}
  BY DEF ServerInv, ConnOf, Hotplug
<1>2. /\ toCli[c] # <<>> /\ toCli' \in [Conns -> Seq(MsgRec)] /\ toCli'[c] = Tail(toCli[c])
      /\ call' \in [Conns -> CallRec] /\ got' \in [Conns -> Seq(Entries)]
      /\ call'[c].req = call[c].req
      /\ m.kind = "ack" => call'[c].st = "on" /\ got'[c] = got[c]
      /\ m.kind # "ack" => call'[c] = call[c] /\ got'[c] = Append(got[c], m.ids)
      /\ \A d \in Conns \ {c} :
           call'[d] = call[d] /\ toCli'[d] = toCli[d] /\ got'[d] = got[d]
  BY <1>1, HotplugEffect
<1>3. /\ work' = work /\ nxt_working_id' = nxt_working_id /\ poll' = poll /\ evt' = evt
      /\ left' = left /\ hot' = hot /\ conn' = conn /\ calls' = calls /\ closed' = closed
      /\ due' = due /\ shrunk' = shrunk /\ stale' = stale /\ held' = held
  BY DEF Hotplug, devs, polls
<1>4. ServerKinds'
  BY <1>1, <1>2, <1>3 DEF ServerKinds
<1>5. HotInv'
  BY <1>1, <1>3, HotKept
<1>6. /\ toCli[c] \in Seq(MsgRec) /\ got[c] \in Seq(Entries) /\ m \in MsgRec
      /\ 1 \in DOMAIN toCli[c] /\ m = toCli[c][1]
      /\ \A k \in DOMAIN Tail(toCli[c]) :
           k \in Nat \ {0} /\ k + 1 \in DOMAIN toCli[c] /\ Tail(toCli[c])[k] = toCli[c][k + 1]
  <2>1. toCli[c] \in Seq(MsgRec) /\ got[c] \in Seq(Entries)
    BY <1>1, KindsOf
  <2>2. Tail(toCli[c]) \in Seq(MsgRec)
    BY <1>2, <2>1, QueueFacts
  <2>3. DOMAIN Tail(toCli[c]) \subseteq Nat \ {0}
    BY <2>2, LenProperties
  <2> QED
    BY <1>2, <2>1, <2>3, QueueFacts
<1>7. MsgOf(c, m) /\ \A k \in DOMAIN toCli'[c] : MsgOf(c, toCli'[c][k])
  BY <1>1, <1>2, <1>6 DEF ToldOf
<1>8. /\ IsInjective(Said(got'[c], toCli'[c]))
      /\ ToSet(Said(got'[c], toCli'[c])) \subseteq ToSet(Said(got[c], toCli[c]))
      /\ m.kind # "ack" => Said(got'[c], toCli'[c]) = Said(got[c], toCli[c])
  <2>1. IsInjective(Said(got[c], toCli[c]))
    BY <1>1 DEF ConnOf
  <2>2. CASE m.kind = "ack"
    BY <1>2, <1>6, <2>1, <2>2, SaidDrops
  <2>3. CASE m.kind # "ack"
    <3>1. Said(got'[c], toCli'[c]) = Said(got[c], toCli[c])
      BY <1>2, <1>6, <2>3, SaidMoves
    <3> QED
      BY <2>1, <2>3, <3>1
  <2> QED
    BY <2>2, <2>3
<1>9. m.kind = "ack" => /\ m.ids = <<>> /\ call[c].st = "wait" /\ conn[c].pc = "recv"
                        /\ conn[c].prpc = "hotplug"
  BY <1>7 DEF MsgOf
<1>10. LinkOf(c)'
  BY <1>1, <1>2, <1>3, <1>9 DEF LinkOf
<1>11. ListOf(c)'
  BY <1>1, <1>2, <1>3, <1>9 DEF ListOf
<1>12. (\A k \in DOMAIN toCli[c] : MsgOf(c, toCli[c][k]))'
  <2>1. CASE m.kind # "ack"
    BY <1>2, <1>3, <1>7, <2>1 DEF MsgOf, IsEvent
  <2>2. CASE m.kind = "ack"
    <3>1. ASSUME NEW k \in DOMAIN toCli'[c] PROVE toCli'[c][k].kind # "ack"
      <4>1. SUFFICES ASSUME toCli'[c][k].kind = "ack" PROVE FALSE
        OBVIOUS
      <4>2. /\ k + 1 \in DOMAIN toCli[c] /\ toCli[c][k + 1] = toCli'[c][k]
        BY <1>2, <1>6
      <4>3. k \in Nat \ {0}
        BY <1>2, <1>6
      <4>4. toCli[c][k + 1].ids = toCli[c][1].ids
        BY <1>6, <1>7, <1>9, <2>2, <4>1, <4>2 DEF MsgOf
      <4>5. /\ Len(got[c]) \in Nat /\ DOMAIN toCli[c] = 1 .. Len(toCli[c])
            /\ Len(toCli[c]) \in Nat
        BY <1>6, LenProperties
      <4>6. /\ Len(got[c]) + (k + 1) \in DOMAIN Said(got[c], toCli[c])
            /\ Len(got[c]) + 1 \in DOMAIN Said(got[c], toCli[c])
            /\ Said(got[c], toCli[c])[Len(got[c]) + (k + 1)] = toCli[c][k + 1].ids
            /\ Said(got[c], toCli[c])[Len(got[c]) + 1] = toCli[c][1].ids
        <5>1. /\ DOMAIN Said(got[c], toCli[c]) = 1 .. Len(got[c]) + Len(toCli[c])
              /\ \A i \in 1 .. Len(toCli[c]) :
                   Said(got[c], toCli[c])[Len(got[c]) + i] = toCli[c][i].ids
          BY <1>6, SaidFacts
        <5>2. k + 1 \in 1 .. Len(toCli[c]) /\ 1 \in 1 .. Len(toCli[c])
          BY <1>6, <4>2, <4>5
        <5>3. /\ Len(got[c]) + (k + 1) \in 1 .. Len(got[c]) + Len(toCli[c])
              /\ Len(got[c]) + 1 \in 1 .. Len(got[c]) + Len(toCli[c])
          <6> DEFINE g == Len(got[c])
                     t == Len(toCli[c])
          <6>1. g \in Nat /\ t \in Nat /\ k + 1 \in 1 .. t /\ 1 \in 1 .. t
            BY <4>5, <5>2
          <6> HIDE DEF g, t
          <6>2. g + (k + 1) \in 1 .. g + t /\ g + 1 \in 1 .. g + t
            BY <4>3, <6>1
          <6> QED
            BY <6>2 DEF g, t
        <5> QED
          BY <5>1, <5>2, <5>3
      <4>7. Len(got[c]) + (k + 1) = Len(got[c]) + 1
        BY <1>1, <4>4, <4>6 DEF ConnOf, IsInjective
      <4> QED
        <5> DEFINE g == Len(got[c])
        <5>1. g \in Nat /\ g + (k + 1) = g + 1
          BY <4>5, <4>7
        <5> HIDE DEF g
        <5> QED
          BY <4>3, <5>1
    <3> QED
      BY <1>3, <1>7, <3>1 DEF MsgOf, IsEvent
  <2> QED
    BY <2>1, <2>2
<1>13. \A k \in DOMAIN got'[c] : IsEvent(got'[c][k])
  <2>1. CASE m.kind = "ack"
    BY <1>1, <1>2, <2>1 DEF ToldOf
  <2>2. CASE m.kind # "ack"
    <3>1. IsEvent(m.ids) /\ m.ids \in Entries
      BY <1>6, <1>7, <2>2, MsgCarries DEF MsgOf
    <3>2. /\ got'[c][Len(got[c]) + 1] = m.ids
          /\ \A k \in DOMAIN got[c] : got'[c][k] = got[c][k]
          /\ \A k \in DOMAIN got'[c] : k = Len(got[c]) + 1 \/ k \in DOMAIN got[c]
      BY <1>2, <1>6, <2>2, <3>1, AppendFacts
    <3>3. \A k \in DOMAIN got[c] : IsEvent(got[c][k])
      BY <1>1 DEF ToldOf
    <3> QED
      BY <3>1, <3>2, <3>3
  <2> QED
    BY <2>1, <2>2
<1>14. (\A k \in DOMAIN got[c] : IsEvent(got[c][k]))'
  BY <1>3, <1>13 DEF IsEvent
<1>15. (poll' \in {"free", "check"} \/ c \in ToSet(left')) =>
         Pair' \notin ToSet(Said(got'[c], toCli'[c]))
  <2>1. (poll \in {"free", "check"} \/ c \in ToSet(left)) =>
          Pair \notin ToSet(Said(got[c], toCli[c]))
    BY <1>1 DEF ToldOf
  <2>2. Pair' = Pair
    BY <1>3 DEF Pair
  <2> QED
    BY <1>3, <1>8, <2>1, <2>2
<1>16. call'[c].st = "on" =>
         Ends(due'[c], IF c \in ToSet(left') THEN Append(Said(got'[c], toCli'[c]), Pair')
                       ELSE Said(got'[c], toCli'[c]))
  <2>1. CASE m.kind = "ack"
    <3>1. due'[c] = <<>>
      BY <1>1, <1>3, <1>9, <2>1 DEF LinkOf
    <3>2. Said(got'[c], toCli'[c]) \in Seq(Entries) /\ Pair' \in Entries
      <4>1. Said(got'[c], toCli'[c]) \in Seq(Entries)
        BY <1>2, SaidFacts
      <4>2. evt'.id \in Nat /\ evt'.status \in {0, 1}
        BY <1>4 DEF ServerKinds
      <4> QED
        BY <4>1, <4>2 DEF Pair, Entries
    <3>3. Append(Said(got'[c], toCli'[c]), Pair') \in Seq(Entries)
      BY <3>2, AppendFacts
    <3> QED
      BY <3>1, <3>2, <3>3, EndsEmpty
  <2>2. CASE m.kind # "ack"
    <3>1. Pair' = Pair
      BY <1>3 DEF Pair
    <3> QED
      BY <1>1, <1>2, <1>3, <1>8, <2>2, <3>1 DEF ToldOf
  <2> QED
    BY <2>1, <2>2
<1>17. ToldOf(c)'
  BY <1>12, <1>14, <1>15, <1>16 DEF ToldOf
<1>18. ConnOf(c)'
  BY <1>8, <1>10, <1>11, <1>17 DEF ConnOf
<1> QED
  BY <1>1, <1>2, <1>3, <1>4, <1>5, <1>18, OneConn DEF Same, devs, polls

-----------------------------------------------------------------------------
(* The steps of the thread of a connection.                                *)

(* Where a thread asks, nothing has been sent.                             *)
LEMMA AskingFacts ==
  ASSUME ServerInv, NEW c \in Conns, conn[c].pc \in Asking \ {"recv"}
  PROVE  /\ conn[c].prpc = "none" /\ toCli[c] = <<>> /\ got[c] = <<>> /\ call[c].res # "ok"
         /\ conn[c].pc \in Requests => conn[c].pc = call[c].req
<1>1. LinkOf(c)
  BY DEF ServerInv, ConnOf
<1>2. conn[c].prpc = "none"
  BY <1>1 DEF LinkOf, Asking
<1> QED
  BY <1>1, <1>2 DEF LinkOf, Asking

(* The first request, or the end, is received.                             *)
LEMMA RecvStep == ASSUME ServerInv, NEW c \in Conns, Recv(c) PROVE ServerInv'
<1>1. /\ conn[c].pc = "recv" /\ conn[c].prpc = "none" /\ LinkOf(c) /\ call[c].req \in Requests
      /\ UNCHANGED <<devs, polls, hot, call, calls, toCli, closed, hist>>
  BY KindsOf DEF Recv, ServerInv, ConnOf
<1>2. toCli[c] = <<>> /\ got[c] = <<>> /\ call[c].res # "ok"
  BY <1>1 DEF LinkOf, Asking
<1>3. CASE call[c].st = "wait"
  <2>1. Goto(c, call[c].req)
    BY <1>3 DEF Recv
  <2>2. call[c].req \in Pcs \ {"none", "ids", "ack", "recv"} /\ call[c].req # "end"
        /\ call[c].req \notin {"serial", "start"}
    BY <1>1 DEF Pcs, Requests
  <2> QED
    BY <1>1, <1>2, <2>1, <2>2, GotoStep
<1>4. CASE call[c].st # "wait"
  <2>1. Goto(c, "end") /\ call[c].st = "done"
    BY <1>1, <1>4 DEF Recv, LinkOf
  <2>2. "end" \in Pcs \ {"none", "ids", "ack", "recv"} /\ "end" \notin Requests
    BY DEF Pcs, Requests
  <2> QED
    BY <1>1, <1>2, <2>1, <2>2, GotoStep
<1> QED
  BY <1>3, <1>4

(* The client has closed.                                                  *)
LEMMA RecvEndStep == ASSUME ServerInv, NEW c \in Conns, RecvEnd(c) PROVE ServerInv'
<1>1. /\ conn[c].pc \in {"recv", "served"} /\ closed[c] /\ Goto(c, "end") /\ LinkOf(c)
      /\ UNCHANGED <<devs, polls, hot, call, calls, toCli, closed, hist>>
  BY DEF RecvEnd, ServerInv, ConnOf
<1>2. call[c].st = "done" /\ toCli[c] = <<>> /\ got[c] = <<>>
  BY <1>1 DEF LinkOf
<1>3. "end" \in Pcs \ {"none", "ids", "ack", "recv"} /\ "end" \notin Requests
  BY DEF Pcs, Requests
<1> QED
  BY <1>1, <1>2, <1>3, GotoStep

(* A platform request that is not known is not answered.                   *)
LEMMA PlatNoneStep == ASSUME ServerInv, NEW c \in Conns, PlatNone(c) PROVE ServerInv'
<1>1. /\ conn[c].pc = "plat_none" /\ Goto(c, "served")
      /\ UNCHANGED <<devs, polls, hot, call, calls, toCli, closed, hist>>
  BY DEF PlatNone
<1>2. /\ conn[c].pc \in Asking \ {"recv"} /\ "served" \in Pcs \ {"none", "ids", "ack", "recv"}
      /\ "served" \notin Requests
  BY <1>1 DEF Asking, Pcs, Requests
<1>3. conn[c].prpc = "none" /\ toCli[c] = <<>> /\ got[c] = <<>>
  BY <1>2, AskingFacts
<1> QED
  BY <1>1, <1>2, <1>3, GotoStep

(* The answers without a list.                                             *)
LEMMA PlainReply ==
  ASSUME ServerInv, NEW c \in Conns, NEW kind \in Kinds, NEW sta \in Int,
         Reply(c, Msg(kind, sta, <<>>), "served"), conn[c].pc \in Asking \ {"recv", "hotplug"},
         UNCHANGED <<devs, polls, hot, call, calls, closed, got, due, shrunk, held>>,
         stale' \subseteq held'
  PROVE  ServerInv'
<1>1. Msg(kind, sta, <<>>) \in MsgRec /\ Msg(kind, sta, <<>>).ids = <<>>
  BY EmptyFacts DEF Msg, MsgRec, Entries
<1>2. TrueList(<<>>, shrunk[c])
  BY EmptyFacts DEF TrueList
<1>3. conn[c].prpc = "none"
  BY AskingFacts
<1>4. TrueList(Msg(kind, sta, <<>>).ids, shrunk[c])
  BY <1>1, <1>2
<1> DEFINE m == Msg(kind, sta, <<>>)
<1>5. m \in MsgRec /\ Reply(c, m, "served") /\ TrueList(m.ids, shrunk[c])
  BY <1>1, <1>4
<1> HIDE DEF m
<1> QED
  BY <1>3, <1>5, ReplyStep

(* The answers that need nothing.                                          *)
LEMMA TestStep == ASSUME ServerInv, NEW c \in Conns, Test(c) PROVE ServerInv'
<1>1. /\ Reply(c, Msg("test", 0, <<>>), "served") /\ conn[c].pc = "test"
      /\ UNCHANGED <<devs, polls, hot, call, calls, closed, got, due, shrunk, held>>
      /\ stale' = stale /\ held' = held /\ stale \subseteq held
  BY DEF Test, hist, ServerInv, ServerKinds
<1>2. conn[c].pc \in Asking \ {"recv", "hotplug"} /\ "test" \in Kinds
  BY <1>1 DEF Asking, Requests, Kinds
<1> QED
  BY <1>1, <1>2, PlainReply

(* A platform request that is known is answered.                           *)
LEMMA PlatStep == ASSUME ServerInv, NEW c \in Conns, Plat(c) PROVE ServerInv'
<1>1. PICK sta \in {0, -1} : Reply(c, Msg("plat", sta, <<>>), "served")
  BY DEF Plat
<1>2. /\ conn[c].pc = "plat" /\ sta \in Int
      /\ UNCHANGED <<devs, polls, hot, call, calls, closed, got, due, shrunk, held>>
      /\ stale' = stale /\ held' = held /\ stale \subseteq held
  BY DEF Plat, hist, ServerInv, ServerKinds
<1>3. conn[c].pc \in Asking \ {"recv", "hotplug"} /\ "plat" \in Kinds
  BY <1>2 DEF Asking, Requests, Kinds
<1> QED
  BY <1>1, <1>2, <1>3, PlainReply

(* Whether a device is there.                                              *)
LEMMA SelectStep == ASSUME ServerInv, NEW c \in Conns, Select(c) PROVE ServerInv'
<1>1. PICK sta \in {0, -1} : Reply(c, Msg("open", sta, <<>>), "served")
  BY DEF Select
<1>2. /\ conn[c].pc = "open" /\ sta \in Int
      /\ UNCHANGED <<devs, polls, hot, call, calls, closed, got, due, shrunk, held>>
      /\ stale' = stale /\ held' = held /\ stale \subseteq held
  BY DEF Select, hist, ServerInv, ServerKinds
<1>3. conn[c].pc \in Asking \ {"recv", "hotplug"} /\ "open" \in Kinds
  BY <1>2 DEF Asking, Requests, Kinds
<1> QED
  BY <1>1, <1>2, <1>3, PlainReply

(* A device is looked up for what follows without the lock.                *)
LEMMA LookedUp ==
  ASSUME ServerInv, NEW c \in Conns, NEW p \in {"serial", "start"}, GetInfo(c), Goto(c, p),
         conn[c].pc = call[c].req, call[c].req \in {"mac", "bind"},
         UNCHANGED <<devs, polls, hot, call, calls, toCli, closed, hist>>
  PROVE  ServerInv'
<1>1. /\ conn[c].pc \in Asking \ {"recv"} /\ p \in Pcs \ {"none", "ids", "ack", "recv"}
      /\ p \notin Requests /\ p # "end" /\ conn[c].pc # "none" /\ call[c].id \in ToSet(work)
  BY DEF Asking, Pcs, Requests, GetInfo
<1>2. conn[c].prpc = "none" /\ toCli[c] = <<>> /\ got[c] = <<>> /\ call[c].res # "ok"
  BY <1>1, AskingFacts
<1> QED
  BY <1>1, <1>2, GotoStep

(* A device that was looked up stays in the list or is the one that goes   *)
(* away.                                                                   *)
LEMMA GetMacStep == ASSUME ServerInv, NEW c \in Conns, GetMac(c) PROVE ServerInv'
<1>1. /\ conn[c].pc = "mac" /\ UNCHANGED <<devs, polls, hot, call, calls, closed, hist>>
      /\ stale \subseteq held
  BY DEF GetMac, ServerInv, ServerKinds
<1>2. conn[c].pc \in Asking \ {"recv", "hotplug"}
      /\ "mac" \in Kinds /\ -1 \in Int /\ "mac" \in Requests
  BY <1>1 DEF Asking, Requests, Kinds
<1>3. call[c].req = "mac"
  BY <1>1, <1>2, AskingFacts
<1>4. CASE GetInfo(c) /\ Goto(c, "serial") /\ toCli' = toCli
  BY <1>1, <1>3, <1>4, LookedUp
<1>5. CASE Reply(c, Msg("mac", -1, <<>>), "served")
  BY <1>1, <1>2, <1>5, PlainReply DEF hist
<1> QED
  BY <1>4, <1>5 DEF GetMac

(* A connection is bound to the device that was looked up, or refused.     *)
LEMMA BindStep == ASSUME ServerInv, NEW c \in Conns, Bind(c) PROVE ServerInv'
<1>1. /\ conn[c].pc = "bind" /\ UNCHANGED <<devs, polls, hot, call, calls, closed, hist>>
      /\ stale \subseteq held
  BY DEF Bind, ServerInv, ServerKinds
<1>2. /\ conn[c].pc \in Asking \ {"recv", "hotplug"} /\ "open" \in Kinds /\ -1 \in Int
      /\ "bind" \in Requests
  BY <1>1 DEF Asking, Requests, Kinds
<1>3. call[c].req = "bind"
  BY <1>1, <1>2, AskingFacts
<1>4. CASE GetInfo(c) /\ Goto(c, "start") /\ toCli' = toCli
  BY <1>1, <1>3, <1>4, LookedUp
<1>5. CASE Reply(c, Msg("open", -1, <<>>), "served")
  BY <1>1, <1>2, <1>5, PlainReply DEF hist
<1> QED
  BY <1>4, <1>5 DEF Bind, GetPlist

(* The device that was looked up has not been freed, or went away since.   *)
LEMMA NotFreed ==
  ASSUME ServerInv, NEW c \in Conns, conn[c].pc \in {"start", "serial"}
  PROVE  c \in held \/ call[c].id \notin Freed
BY DEF ServerInv, ConnOf, ListOf, Freed

(* The device that was looked up is used.                                  *)
LEMMA FillSerialStep == ASSUME ServerInv, NEW c \in Conns, FillSerial(c) PROVE ServerInv'
<1>1. /\ Reply(c, Msg("mac", 1, <<>>), "served") /\ conn[c].pc = "serial"
      /\ UNCHANGED <<devs, polls, hot, call, calls, closed, got, due, shrunk, held>>
      /\ stale' = (IF call[c].id \in Freed THEN stale \cup {c} ELSE stale) /\ stale \subseteq held
  BY DEF FillSerial, ServerInv, Uses
<1>2. conn[c].pc \in Asking \ {"recv", "hotplug"}
      /\ "mac" \in Kinds
  BY <1>1 DEF Asking, Requests, Kinds
<1>3. stale' \subseteq held'
  BY <1>1, NotFreed
<1> QED
  BY <1>1, <1>2, <1>3, PlainReply

(* The node starts with it.                                                *)
LEMMA StartStep == ASSUME ServerInv, NEW c \in Conns, Start(c) PROVE ServerInv'
<1>1. /\ Reply(c, Msg("node", 0, <<>>), "served") /\ conn[c].pc = "start"
      /\ UNCHANGED <<devs, polls, hot, call, calls, closed, got, due, shrunk, held>>
      /\ stale' = (IF call[c].id \in Freed THEN stale \cup {c} ELSE stale) /\ stale \subseteq held
  BY DEF Start, ServerInv, Uses
<1>2. conn[c].pc \in Asking \ {"recv", "hotplug"} /\ "node" \in Kinds
  BY <1>1 DEF Asking, Requests, Kinds
<1>3. stale' \subseteq held'
  BY <1>1, NotFreed
<1> QED
  BY <1>1, <1>2, <1>3, PlainReply

(* The number of devices, read without the lock: one more than there are   *)
(* only while a device goes away.                                          *)
LEMMA CountFacts ==
  ASSUME ServerKinds, DevsInv
  PROVE  /\ UseCnt \in Nat /\ (~ Locked => UseCnt = Len(work))
         /\ UseCnt <= Len(work) \/ (Locked /\ evt.status = 0)
<1>1. /\ work \in Seq(Nat) /\ Len(work) \in Nat /\ evt.status \in {0, 1}
  BY LenProperties DEF ServerKinds
<1>2. ASSUME poll # "scan", evt.status = 1 PROVE Len(work) # 0
  <2>1. evt.id \in ToSet(work)
    BY <1>2 DEF DevsInv
  <2>2. DOMAIN work # {}
    BY <2>1 DEF ToSet
  <2> QED
    BY <1>1, <2>2, LenProperties
<1> QED
  BY <1>1, <1>2 DEF UseCnt, Locked

(* The list is counted.                                                    *)
LEMMA GetSzStep == ASSUME ServerInv, NEW c \in Conns, GetSz(c) PROVE ServerInv'
<1> DEFINE n == [conn[c] EXCEPT !.pc = "ids", !.sz = GetSzAll]
           b == Locked /\ evt.status = 0
<1>1. /\ ServerKinds /\ DevsInv /\ HotInv /\ ConnOf(c) /\ LinkOf(c) /\ ListOf(c)
      /\ stale \subseteq held
      /\ conn[c].pc = "list"
  BY DEF ServerInv, ConnOf, GetSz
<1>2. GetSzAll \in Nat /\ (GetSzAll <= Len(work) \/ b)
  BY <1>1, CountFacts DEF GetSzAll
<1>3. /\ conn[c] \in ConnRec /\ conn \in [Conns -> ConnRec] /\ shrunk \in [Conns -> BOOLEAN]
      /\ b \in BOOLEAN
  BY <1>1 DEF ServerKinds
<1> HIDE DEF b
<1>4. n \in ConnRec /\ n.pc = "ids" /\ n.prpc = conn[c].prpc /\ n.sz = GetSzAll
  <2> DEFINE g == GetSzAll
  <2>1. g \in Int
    BY <1>2
  <2> HIDE DEF g
  <2>2. /\ [conn[c] EXCEPT !.pc = "ids", !.sz = g] \in ConnRec
        /\ [conn[c] EXCEPT !.pc = "ids", !.sz = g].pc = "ids"
        /\ [conn[c] EXCEPT !.pc = "ids", !.sz = g].prpc = conn[c].prpc
        /\ [conn[c] EXCEPT !.pc = "ids", !.sz = g].sz = g
    BY <1>3, <2>1 DEF ConnRec, Pcs
  <2> QED
    BY <2>2 DEF g
<1>5. conn' = [conn EXCEPT ![c] = n] /\ shrunk' = [shrunk EXCEPT ![c] = b]
  BY <1>3 DEF GetSz, b
<1> HIDE DEF n
<1>6. /\ conn' \in [Conns -> ConnRec] /\ conn'[c] = n
      /\ \A d \in Conns \ {c} : conn'[d] = conn[d]
  BY <1>3, <1>4, <1>5
<1>7. /\ shrunk' \in [Conns -> BOOLEAN] /\ shrunk'[c] = b
      /\ \A d \in Conns \ {c} : shrunk'[d] = shrunk[d]
  BY <1>3, <1>5
<1>8. /\ work' = work /\ nxt_working_id' = nxt_working_id /\ poll' = poll /\ evt' = evt
      /\ left' = left /\ hot' = hot /\ call' = call /\ calls' = calls /\ toCli' = toCli
      /\ closed' = closed /\ got' = got /\ due' = due /\ stale' = stale /\ held' = held
  BY DEF GetSz, devs, polls
<1>9. ServerKinds'
  BY <1>1, <1>6, <1>7, <1>8 DEF ServerKinds
<1>10. HotInv'
  BY <1>1, <1>4, <1>6, <1>8, HotKept
<1>11. conn[c].pc \in Asking \ {"recv"} /\ "list" \in Requests
  BY <1>1 DEF Asking, Requests
<1>12. /\ conn[c].prpc = "none" /\ toCli[c] = <<>> /\ got[c] = <<>> /\ call[c].res # "ok"
       /\ call[c].req = "list"
  BY <1>1, <1>11, AskingFacts
<1>13. LinkOf(c)'
  BY <1>1, <1>4, <1>6, <1>8, <1>12 DEF LinkOf, Requests
<1>14. ListOf(c)'
  <2>1. DOMAIN toCli'[c] = {}
    BY <1>8, <1>12
  <2> QED
    BY <1>2, <1>4, <1>6, <1>7, <1>8, <1>12, <2>1 DEF ListOf
<1>15. ConnOf(c)'
  BY <1>1, <1>8, <1>12, <1>13, <1>14 DEF ConnOf
<1> QED
  BY <1>1, <1>6, <1>7, <1>8, <1>9, <1>10, <1>15, OneConn DEF Same, devs, polls

(* A list as it is made: ids of devices, and no id for the places that are *)
(* left.                                                                   *)
LEMMA IdsFacts ==
  ASSUME ServerKinds, DevsInv, NEW n \in Nat, n > 0 => ~ Locked
  PROVE  /\ GetId(n) \in Entries
         /\ \A i, j \in DOMAIN GetId(n) : i # j /\ GetId(n)[i] = GetId(n)[j] => GetId(n)[i] = Junk
         /\ Junk \in ToSet(GetId(n)) => n > Len(work)
<1> DEFINE k == IF n > UseCnt THEN UseCnt ELSE n
           u == SubSeq(work, 1, k)
           v == [i \in 1 .. n - k |-> Junk]
<1>1. /\ work \in Seq(Nat) /\ Len(work) \in Nat /\ DOMAIN work = 1 .. Len(work)
      /\ \A i \in 1 .. Len(work) : work[i] \in Nat
  BY LenProperties, ElementOfSeq DEF ServerKinds
<1>2. k \in 0 .. Len(work) /\ k <= n /\ n - k \in Nat /\ (n - k > 0 => n > Len(work))
  BY <1>1, CountFacts
<1>3. UsbIds(n) = u
  BY DEF UsbIds
<1> HIDE DEF k
<1>4. u \in Seq(Int) /\ Len(u) = k /\ \A i \in 1 .. k : u[i] = work[i]
  <2>1. u \in Seq(Nat) /\ Len(u) = k /\ \A i \in 1 .. k : u[i] = work[i]
    BY <1>1, <1>2
  <2> HIDE DEF u
  <2>2. u \in Seq(Int)
    BY <2>1, SeqMonotonic
  <2> QED
    BY <2>1, <2>2
<1>5. v \in Seq(Int) /\ Len(v) = n - k /\ \A i \in 1 .. n - k : v[i] = Junk
  <2>1. v \in [1 .. n - k -> Int]
    BY DEF Junk
  <2>2. \A i \in 1 .. n - k : v[i] = Junk
    OBVIOUS
  <2> HIDE DEF v
  <2> QED
    BY <1>2, <2>1, <2>2, FunctionIsList
<1>6. GetId(n) = u \o v
  BY <1>3, <1>4 DEF GetId
<1> HIDE DEF u, v
<1>7. /\ u \o v \in Seq(Int) /\ Len(u \o v) = Len(u) + Len(v)
      /\ \A i \in 1 .. Len(u) + Len(v) : (u \o v)[i] = IF i <= Len(u) THEN u[i] ELSE v[i - Len(u)]
  BY <1>4, <1>5, ConcatProperties
<1>8. DOMAIN (u \o v) = 1 .. Len(u) + Len(v)
  BY <1>7, LenProperties
<1>9. Len(u) + Len(v) = n
  BY <1>2, <1>4, <1>5
<1> DEFINE w == u \o v
<1>10. w \in Entries /\ DOMAIN w = 1 .. n
  BY <1>7, <1>8, <1>9 DEF Entries
<1>11. ASSUME NEW i \in 1 .. n
       PROVE  (i \in 1 .. k /\ w[i] = work[i]) \/ (w[i] = Junk /\ n > Len(work))
  <2>1. w[i] = IF i <= k THEN u[i] ELSE v[i - k]
    BY <1>4, <1>7, <1>9
  <2>2. CASE i <= k
    <3>1. i \in 1 .. k
      BY <1>2, <2>2
    <3> QED
      BY <1>4, <2>1, <2>2, <3>1
  <2>3. CASE ~ i <= k
    <3>1. i - k \in 1 .. n - k /\ n - k > 0
      BY <1>2, <2>3
    <3> QED
      BY <1>2, <1>5, <2>1, <2>3, <3>1
  <2> QED
    BY <2>2, <2>3
<1> HIDE DEF w
<1>12. ASSUME NEW i \in 1 .. n, NEW j \in 1 .. n, i # j, w[i] = w[j]
       PROVE  w[i] = Junk
  <2>1. SUFFICES ASSUME w[i] # Junk PROVE FALSE
    OBVIOUS
  <2>2. i \in 1 .. k /\ w[i] = work[i] /\ j \in 1 .. k /\ w[j] = work[j]
    BY <1>11, <1>12, <2>1
  <2>3. i \in DOMAIN work /\ j \in DOMAIN work
    BY <1>1, <1>2, <2>2
  <2> QED
    BY <1>12, <2>2, <2>3 DEF DevsInv, IsInjective
<1>13. ASSUME Junk \in ToSet(w) PROVE n > Len(work)
  <2>1. PICK i \in 1 .. n : w[i] = Junk
    BY <1>10, <1>13 DEF ToSet
  <2>2. CASE i \in 1 .. k /\ w[i] = work[i]
    <3>1. work[i] \in Nat
      BY <1>1, <1>2, <2>2
    <3> QED
      BY <2>1, <2>2, <3>1 DEF Junk
  <2> QED
    BY <1>11, <2>2
<1>14. GetId(n) = w
  BY <1>6 DEF w
<1> QED
  BY <1>10, <1>12, <1>13, <1>14

(* The list is sent.                                                       *)
LEMMA GetIdAllStep == ASSUME ServerInv, NEW c \in Conns, GetIdAll(c) PROVE ServerInv'
<1> DEFINE n == conn[c].sz
           m == Msg("list", n, GetId(n))
<1>1. /\ ServerKinds /\ DevsInv /\ ListOf(c) /\ stale \subseteq held /\ conn[c].pc = "ids"
      /\ (n > 0 => ~ Locked) /\ Reply(c, m, "served")
      /\ UNCHANGED <<devs, polls, hot, call, calls, closed, got, due, shrunk, held>>
      /\ stale' = stale /\ held' = held
  BY DEF ServerInv, ServerKinds, ConnOf, GetIdAll, hist
<1>2. n \in Nat /\ (n <= Len(work) \/ shrunk[c])
  BY <1>1 DEF ListOf
<1>3. Len(work) \in Nat
  BY <1>1, LenProperties DEF ServerKinds
<1>4. GetId(n) \in Entries /\ TrueList(GetId(n), shrunk[c])
  BY <1>1, <1>2, <1>3, IdsFacts DEF TrueList
<1>5. m \in MsgRec /\ m.ids = GetId(n)
  <2> DEFINE g == GetId(n)
  <2>1. g \in Entries
    BY <1>4
  <2> HIDE DEF g
  <2>2. Msg("list", n, g) \in MsgRec /\ Msg("list", n, g).ids = g
    BY <1>2, <2>1 DEF Msg, MsgRec, Kinds
  <2> QED
    BY <2>2 DEF g
<1>6. TrueList(m.ids, shrunk[c])
  BY <1>4, <1>5
<1>7. conn[c].pc \in Asking \ {"recv", "hotplug"}
  BY <1>1 DEF Asking
<1>8. conn[c].prpc = "none"
  BY <1>7, AskingFacts
<1> HIDE DEF m, n
<1> QED
  BY <1>1, <1>5, <1>6, <1>7, <1>8, ReplyStep

(* A connection becomes a subscriber.                                      *)
LEMMA HotAddStep == ASSUME ServerInv, NEW c \in Conns, HotAdd(c) PROVE ServerInv'
<1> DEFINE n == [conn[c] EXCEPT !.pc = "ack", !.prpc = "hotplug"]
<1>1. /\ ServerKinds /\ HotInv /\ ConnOf(c) /\ LinkOf(c) /\ ListOf(c)
      /\ stale \subseteq held
      /\ conn[c].pc = "hotplug" /\ poll # "send" /\ hot' = Append(hot, c)
  BY DEF ServerInv, ConnOf, HotAdd
<1>2. conn[c].pc \in Asking \ {"recv"} /\ "hotplug" \in Requests
  BY <1>1 DEF Asking, Requests
<1>3. /\ conn[c].prpc = "none" /\ toCli[c] = <<>> /\ got[c] = <<>>
      /\ call[c].req = "hotplug"
  BY <1>1, <1>2, AskingFacts
<1>4. n \in ConnRec /\ n.pc = "ack" /\ n.prpc = "hotplug" /\ conn' = [conn EXCEPT ![c] = n]
  <2>1. conn[c] \in ConnRec /\ conn \in [Conns -> ConnRec]
    BY <1>1 DEF ServerKinds
  <2> QED
    BY <2>1 DEF ConnRec, Pcs, HotAdd
<1> HIDE DEF n
<1>5. /\ conn' \in [Conns -> ConnRec] /\ conn'[c] = n
      /\ \A d \in Conns \ {c} : conn'[d] = conn[d]
  BY <1>1, <1>4 DEF ServerKinds
<1>6. /\ work' = work /\ nxt_working_id' = nxt_working_id /\ poll' = poll /\ evt' = evt
      /\ left' = left /\ call' = call /\ calls' = calls /\ toCli' = toCli /\ closed' = closed
      /\ got' = got /\ due' = due /\ shrunk' = shrunk /\ stale' = stale /\ held' = held
  BY DEF HotAdd, devs, polls, hist
<1>7. c \notin ToSet(hot) /\ left = <<>> /\ hot \in Seq(Conns) /\ IsInjective(hot)
  BY <1>1, <1>3 DEF HotInv, ServerKinds
<1>8. hot' \in Seq(Conns) /\ IsInjective(hot') /\ ToSet(hot') = ToSet(hot) \cup {c}
  BY <1>1, <1>7, AppendFacts, AppendOnce
<1>9. ServerKinds'
  BY <1>1, <1>5, <1>6, <1>8 DEF ServerKinds
<1>10. HotInv'
  BY <1>1, <1>4, <1>5, <1>6, <1>8 DEF HotInv
<1>11. LinkOf(c)'
  BY <1>1, <1>3, <1>4, <1>5, <1>6 DEF LinkOf, Requests
<1>12. ListOf(c)'
  BY <1>3, <1>4, <1>5, <1>6 DEF ListOf
<1>13. call[c].st # "on"
  BY <1>1 DEF LinkOf
<1>14. ToldOf(c)'
  <2>1. DOMAIN toCli'[c] = {} /\ DOMAIN got'[c] = {}
    BY <1>3, <1>6
  <2>2. ToSet(Said(got'[c], toCli'[c])) = {}
    BY <1>3, <1>6, SaidNothing
  <2> QED
    BY <1>6, <1>13, <2>1, <2>2 DEF ToldOf
<1>15. ConnOf(c)'
  BY <1>1, <1>6, <1>11, <1>12, <1>14 DEF ConnOf
<1> QED
  BY <1>1, <1>5, <1>6, <1>9, <1>10, <1>15, OneConn DEF Same, devs, polls

(* An entry of what a subscriber was sent is empty, which is the answer,   *)
(* or an event.                                                            *)
LEMMA SaidEvents ==
  ASSUME ServerKinds, NEW c \in Conns, ToldOf(c), NEW x \in ToSet(Said(got[c], toCli[c]))
  PROVE  IsEvent(x) \/ (x = <<>> /\ \E k \in DOMAIN toCli[c] :
                                      toCli[c][k].kind = "ack" /\ MsgOf(c, toCli[c][k]))
<1>1. toCli[c] \in Seq(MsgRec) /\ got[c] \in Seq(Entries)
  BY KindsOf
<1>2. (\E i \in DOMAIN got[c] : x = got[c][i]) \/ (\E i \in DOMAIN toCli[c] : x = toCli[c][i].ids)
  BY <1>1, SaidElements
<1>3. CASE \E i \in DOMAIN got[c] : x = got[c][i]
  BY <1>3 DEF ToldOf
<1>4. CASE \E i \in DOMAIN toCli[c] : x = toCli[c][i].ids
  <2>1. PICK i \in DOMAIN toCli[c] : x = toCli[c][i].ids
    BY <1>4
  <2>2. MsgOf(c, toCli[c][i])
    BY DEF ToldOf
  <2>3. CASE toCli[c][i].kind = "ack"
    <3>1. x = <<>>
      BY <2>1, <2>2, <2>3 DEF MsgOf
    <3> QED
      BY <2>2, <2>3, <3>1
  <2>4. CASE toCli[c][i].kind # "ack"
    <3>1. IsEvent(toCli[c][i].ids)
      BY <2>2, <2>4 DEF MsgOf
    <3> QED
      BY <2>1, <3>1
  <2> QED
    BY <2>3, <2>4
<1> QED
  BY <1>2, <1>3, <1>4

(* An event is a pair of numbers.                                          *)
LEMMA PairFacts ==
  ASSUME ServerKinds
  PROVE  /\ Pair \in Entries /\ Pair # <<>> /\ Len(Pair) = 2
         /\ Pair[1] = evt.id /\ Pair[2] = evt.status
<1>1. evt.id \in Nat /\ evt.status \in {0, 1}
  BY DEF ServerKinds
<1> QED
  BY <1>1 DEF Pair, Entries

(* The answer to a subscription.                                           *)
LEMMA HotAckStep == ASSUME ServerInv, NEW c \in Conns, HotAck(c) PROVE ServerInv'
<1> DEFINE m == Msg("ack", 0, <<>>)
<1>1. /\ ServerKinds /\ HotInv /\ ConnOf(c) /\ LinkOf(c) /\ ListOf(c)
      /\ stale \subseteq held
      /\ conn[c].pc = "ack" /\ SendTo(c, m) /\ Goto(c, "recv")
  BY DEF ServerInv, ConnOf, HotAck, Reply
<1>2. m \in MsgRec /\ m.kind = "ack" /\ m.ids = <<>>
  BY EmptyFacts DEF Msg, MsgRec, Entries, Kinds
<1>3. /\ conn' \in [Conns -> ConnRec]
      /\ conn'[c].pc = "recv" /\ conn'[c].prpc = conn[c].prpc /\ conn'[c].sz = conn[c].sz
      /\ \A d \in Conns \ {c} : conn'[d] = conn[d]
  BY <1>1, GotoEffect DEF Pcs
<1> HIDE DEF m
<1>4. /\ toCli' \in [Conns -> Seq(MsgRec)]
      /\ toCli'[c] = IF closed[c] THEN toCli[c] ELSE Append(toCli[c], m)
      /\ \A d \in Conns \ {c} : toCli'[d] = toCli[d]
  BY <1>1, <1>2, SendEffect
<1>5. /\ work' = work /\ nxt_working_id' = nxt_working_id /\ poll' = poll /\ evt' = evt
      /\ left' = left /\ hot' = hot /\ call' = call /\ calls' = calls /\ closed' = closed
      /\ got' = got /\ due' = due /\ shrunk' = shrunk /\ stale' = stale /\ held' = held
  BY DEF HotAck, devs, polls, hist
<1>6. ServerKinds'
  BY <1>1, <1>3, <1>4, <1>5 DEF ServerKinds
<1>7. HotInv'
  BY <1>1, <1>3, <1>5, HotKept
<1>8. /\ conn[c].prpc = "hotplug" /\ call[c].req = "hotplug" /\ call[c].st \in {"wait", "done"}
  BY <1>1, KindsOf DEF LinkOf
<1>9. ToldOf(c) /\ IsInjective(Said(got[c], toCli[c]))
  BY <1>1, <1>8 DEF ConnOf
<1>10. toCli[c] \in Seq(MsgRec) /\ got[c] \in Seq(Entries)
  BY <1>1, KindsOf
<1>11. \A k \in DOMAIN toCli[c] : toCli[c][k].kind # "ack" /\ MsgOf(c, toCli[c][k])
  BY <1>1, <1>9 DEF ToldOf, MsgOf
<1>12. \A x \in ToSet(Said(got[c], toCli[c])) : IsEvent(x)
  BY <1>1, <1>9, <1>11, SaidEvents
<1>13. <<>> \notin ToSet(Said(got[c], toCli[c]))
  BY <1>12, EmptyFacts DEF IsEvent
<1>14. CASE closed[c]
  <2>1. toCli'[c] = <<>> /\ call[c].st = "done"
    BY <1>1, <1>4, <1>14 DEF LinkOf
  <2>2. LinkOf(c)'
    BY <1>1, <1>3, <1>4, <1>5, <1>8, <1>14 DEF LinkOf, Requests
  <2>3. ListOf(c)'
    BY <1>3, <1>5, <1>8 DEF ListOf
  <2>4. DOMAIN toCli'[c] = {} /\ toCli'[c] = toCli[c]
    BY <1>4, <1>14, <2>1
  <2>5. ToldOf(c)'
    BY <1>5, <1>9, <2>4 DEF ToldOf, IsEvent, Pair
  <2>6. ConnOf(c)'
    BY <1>5, <1>9, <2>2, <2>3, <2>4, <2>5 DEF ConnOf
  <2> QED
    BY <1>1, <1>3, <1>4, <1>5, <1>6, <1>7, <2>6, OneConn DEF Same, devs, polls
<1>15. CASE ~ closed[c]
  <2>1. toCli'[c] = Append(toCli[c], m) /\ call[c].st = "wait"
    BY <1>1, <1>4, <1>8, <1>15 DEF LinkOf
  <2>2. LinkOf(c)'
    BY <1>1, <1>3, <1>5, <1>8, <2>1 DEF LinkOf, Requests
  <2>3. ListOf(c)'
    BY <1>3, <1>5, <1>8 DEF ListOf
  <2>4. Said(got'[c], toCli'[c]) = Append(Said(got[c], toCli[c]), <<>>) /\ <<>> \in Entries
    BY <1>2, <1>5, <1>10, <2>1, SaidAppend
  <2>5. Said(got[c], toCli[c]) \in Seq(Entries)
    BY <1>10, SaidFacts
  <2>6. IsInjective(Said(got'[c], toCli'[c]))
    BY <1>9, <1>13, <2>4, <2>5, AppendOnce
  <2>7. ToSet(Said(got'[c], toCli'[c])) = ToSet(Said(got[c], toCli[c])) \cup {<<>>}
    BY <2>4, <2>5, AppendFacts
  <2>8. /\ \A k \in DOMAIN toCli'[c] : k = Len(toCli[c]) + 1 \/ k \in DOMAIN toCli[c]
        /\ \A k \in DOMAIN toCli[c] : toCli'[c][k] = toCli[c][k]
        /\ toCli'[c][Len(toCli[c]) + 1] = m
    BY <1>2, <1>10, <2>1, AppendFacts
  <2>9. (\A k \in DOMAIN toCli[c] : MsgOf(c, toCli[c][k]))'
    <3>1. ASSUME NEW k \in DOMAIN toCli'[c]
          PROVE  \/ toCli'[c][k].kind = "ack" /\ toCli'[c][k].ids = <<>>
                 \/ toCli'[c][k].kind = "event" /\ IsEvent(toCli'[c][k].ids)
      BY <1>2, <1>11, <2>8 DEF MsgOf
    <3> QED
      BY <1>3, <1>5, <1>8, <2>1, <3>1 DEF MsgOf, IsEvent
  <2>10. (\A k \in DOMAIN got[c] : IsEvent(got[c][k]))'
    BY <1>5, <1>9 DEF ToldOf, IsEvent
  <2>11. (poll' \in {"free", "check"} \/ c \in ToSet(left')) =>
           Pair' \notin ToSet(Said(got'[c], toCli'[c]))
    <3>1. Pair' = Pair /\ Pair # <<>>
      BY <1>1, <1>5, PairFacts DEF Pair
    <3> QED
      BY <1>5, <1>9, <2>7, <3>1 DEF ToldOf
  <2>12. call'[c].st # "on"
    BY <1>5, <2>1
  <2>13. ToldOf(c)'
    BY <2>9, <2>10, <2>11, <2>12 DEF ToldOf
  <2>14. ConnOf(c)'
    BY <2>2, <2>3, <2>6, <2>13 DEF ConnOf
  <2> QED
    BY <1>1, <1>3, <1>4, <1>5, <1>6, <1>7, <2>14, OneConn DEF Same, devs, polls
<1> QED
  BY <1>14, <1>15

(* A connection is cleaned up.                                             *)
LEMMA EndStep == ASSUME ServerInv, NEW c \in Conns, End(c) PROVE ServerInv'
<1>1. /\ ServerKinds /\ HotInv /\ ConnOf(c) /\ LinkOf(c) /\ ListOf(c)
      /\ stale \subseteq held
      /\ conn[c].pc = "end" /\ conn' = [conn EXCEPT ![c] = Idle]
  BY DEF ServerInv, ConnOf, End
<1>2. Idle \in ConnRec /\ Idle.pc = "none" /\ Idle.prpc = "none"
  BY DEF Idle, ConnRec, Pcs
<1>3. /\ conn' \in [Conns -> ConnRec] /\ conn'[c] = Idle
      /\ \A d \in Conns \ {c} : conn'[d] = conn[d]
  BY <1>1, <1>2 DEF ServerKinds
<1>4. /\ work' = work /\ nxt_working_id' = nxt_working_id /\ poll' = poll /\ evt' = evt
      /\ left' = left /\ call' = call /\ calls' = calls /\ toCli' = toCli /\ closed' = closed
      /\ got' = got /\ due' = due /\ shrunk' = shrunk /\ stale' = stale /\ held' = held
  BY DEF End, devs, polls, hist
<1>5. hot \in Seq(Conns)
  BY <1>1 DEF ServerKinds
<1>6. /\ hot' \in Seq(Conns) /\ IsInjective(hot') /\ ToSet(hot') = ToSet(hot) \ {c}
      /\ ToSet(left') \subseteq ToSet(hot')
  <2>1. CASE conn[c].prpc = "hotplug"
    <3>1. PICK i \in DOMAIN hot : hot[i] = c /\ hot' = RemoveAt(hot, i)
      BY <2>1 DEF End, EndHot
    <3>2. poll # "send"
      BY <2>1 DEF End, EndHot
    <3>3. left' = <<>>
      BY <1>1, <1>4, <3>2 DEF HotInv
    <3> QED
      BY <1>1, <1>5, <3>1, <3>3, RemoveFacts, EmptyFacts DEF HotInv
  <2>2. CASE conn[c].prpc # "hotplug"
    <3>1. hot' = hot /\ c \notin ToSet(hot)
      BY <1>1, <2>2 DEF End, HotInv
    <3> QED
      BY <1>1, <1>4, <1>5, <3>1 DEF HotInv
  <2> QED
    BY <2>1, <2>2
<1>7. ServerKinds'
  BY <1>1, <1>3, <1>4, <1>6 DEF ServerKinds
<1>8. HotInv'
  BY <1>1, <1>2, <1>3, <1>4, <1>6 DEF HotInv
<1>9. call[c].st = "done" /\ toCli[c] = <<>> /\ got[c] = <<>>
  BY <1>1 DEF LinkOf
<1>10. LinkOf(c)'
  BY <1>1, <1>2, <1>3, <1>4, <1>9 DEF LinkOf, Asking, Requests
<1>11. ListOf(c)'
  BY <1>1, <1>2, <1>3, <1>4 DEF ListOf
<1>12. DOMAIN toCli'[c] = {}
  BY <1>4, <1>9
<1>13. ToldOf(c) => ToldOf(c)'
  BY <1>4, <1>12 DEF ToldOf, IsEvent, Pair
<1>14. ConnOf(c)'
  BY <1>1, <1>4, <1>10, <1>11, <1>13 DEF ConnOf
<1> QED
  BY <1>1, <1>3, <1>4, <1>7, <1>8, <1>14, OneConn DEF Same, devs, polls

-----------------------------------------------------------------------------
(* The steps of the poll thread.                                           *)

(* How far a connection has come does not depend on the poll thread.       *)
LEMMA LinkKept ==
  ASSUME NEW d, LinkOf(d), conn'[d] = conn[d], call'[d] = call[d], toCli'[d] = toCli[d],
         closed'[d] = closed[d], got'[d] = got[d], call[d].st # "on" => due'[d] = due[d]
  PROVE  LinkOf(d)'
BY DEF LinkOf

(* An event that is not the one to be sent.                                *)
LEMMA NewEvent ==
  ASSUME ServerKinds, NEW c \in Conns, ToldOf(c), NEW p, Len(p) = 2,
         p[1] \notin 0 .. nxt_working_id - 1 \/ (p[2] = 0 /\ p[1] \in ToSet(work))
  PROVE  p \notin ToSet(Said(got[c], toCli[c]))
<1>1. ~ IsEvent(p)
  BY DEF IsEvent
<1>2. p # <<>>
  BY EmptyFacts
<1> QED
  BY <1>1, <1>2, SaidEvents

(* A new id is in no event yet, and the lists that were given out stay     *)
(* true.                                                                   *)
LEMMA PlugStep == ASSUME ServerInv, Plug PROVE ServerInv'
<1>1. /\ ServerKinds /\ DevsInv /\ HotInv /\ stale \subseteq held /\ \A d \in Conns : ConnOf(d)
      /\ poll = "scan" /\ nxt_working_id < MaxDevs /\ work' = <<nxt_working_id>> \o work
      /\ nxt_working_id' = nxt_working_id + 1 /\ poll' = "check"
      /\ evt' = [id |-> nxt_working_id, status |-> 1]
  BY DEF ServerInv, Plug
<1>2. /\ left' = left /\ hot' = hot /\ conn' = conn /\ call' = call /\ calls' = calls
      /\ toCli' = toCli /\ closed' = closed /\ got' = got /\ due' = due /\ shrunk' = shrunk
      /\ stale' = stale /\ held' = held
  BY DEF Plug, hist
<1>3. /\ nxt_working_id \in Nat /\ nxt_working_id' \in 0 .. MaxDevs
      /\ evt' \in [id : Nat, status : {0, 1}] /\ evt'.id = nxt_working_id /\ evt'.status = 1
  BY <1>1, ServerBounds DEF ServerKinds
<1>4. work \in Seq(Nat) /\ IsInjective(work) /\ nxt_working_id \notin ToSet(work)
  <2>1. \A i \in ToSet(work) : i < nxt_working_id
    BY <1>1 DEF DevsInv
  <2> QED
    BY <1>1, <1>3, <2>1 DEF ServerKinds, DevsInv
<1>5. /\ work' \in Seq(Nat) /\ IsInjective(work') /\ Len(work') = Len(work) + 1
      /\ ToSet(work') = ToSet(work) \cup {nxt_working_id} /\ Len(work) \in Nat
  BY <1>1, <1>3, <1>4, ConsFacts, LenProperties
<1>6. ServerKinds'
  BY <1>1, <1>2, <1>3, <1>5 DEF ServerKinds
<1>7. DevsInv'
  <2>1. \A i \in ToSet(work') : i < nxt_working_id'
    <3>1. \A i \in ToSet(work) : i \in Nat /\ i < nxt_working_id
      BY <1>1, <1>4, Elements DEF DevsInv
    <3>2. ASSUME NEW i \in ToSet(work') PROVE i < nxt_working_id'
      <4>1. nxt_working_id \in Nat /\ nxt_working_id' = nxt_working_id + 1
        BY <1>1, <1>3
      <4>2. CASE i \in ToSet(work)
        BY <3>1, <4>1, <4>2
      <4>3. CASE i = nxt_working_id
        BY <4>1, <4>3
      <4> QED
        BY <1>5, <4>2, <4>3
    <3> QED
      BY <3>2
  <2>2. evt'.id < nxt_working_id' /\ evt'.id \in ToSet(work')
    <3>1. nxt_working_id \in Nat /\ nxt_working_id' = nxt_working_id + 1
      BY <1>1, <1>3
    <3>2. nxt_working_id < nxt_working_id'
      BY <3>1
    <3>3. nxt_working_id \in ToSet(work')
      BY <1>5
    <3> QED
      BY <1>3, <3>2, <3>3
  <2> QED
    BY <1>3, <1>5, <2>1, <2>2 DEF DevsInv
<1>8. HotInv' /\ left = <<>>
  BY <1>1, <1>2 DEF HotInv
<1>9. ASSUME NEW d \in Conns PROVE ConnOf(d)'
  <2>1. LinkOf(d)'
    BY <1>1, <1>2, LinkKept DEF ConnOf
  <2>2. ListOf(d)'
    <3>1. ListOf(d) /\ (conn[d].pc = "ids" => conn[d].sz \in Nat)
      BY <1>1 DEF ConnOf, ListOf
    <3>2. conn[d].pc = "ids" => conn[d].sz <= Len(work') \/ shrunk[d]
      <4> DEFINE n == Len(work)
                 n1 == Len(work')
      <4>1. n \in Nat /\ n1 = n + 1
        BY <1>5
      <4>2. conn[d].pc = "ids" => conn[d].sz \in Nat /\ (conn[d].sz <= n \/ shrunk[d])
        BY <3>1 DEF ListOf
      <4> HIDE DEF n, n1
      <4>3. conn[d].pc = "ids" => conn[d].sz <= n1 \/ shrunk[d]
        BY <4>1, <4>2
      <4> QED
        BY <4>3 DEF n1
    <3>3. conn[d].pc \in {"start", "serial"} => d \in held \/ call[d].id \in ToSet(work')
      BY <1>1, <1>5, <3>1 DEF ListOf
    <3>4. call[d].req = "list" => /\ \A i \in DOMAIN toCli[d] : TrueList(toCli[d][i].ids, shrunk[d])
                                  /\ call[d].res = "ok" => TrueList(call[d].ids, shrunk[d])
      BY <3>1 DEF ListOf
    <3> QED
      BY <1>2, <3>1, <3>2, <3>3, <3>4 DEF ListOf
  <2>3. ASSUME ToldOf(d) PROVE ToldOf(d)'
    <3>1. Pair' \notin ToSet(Said(got[d], toCli[d]))
      <4>1. Len(Pair') = 2 /\ Pair'[1] = nxt_working_id
        BY <1>6, <1>3, PairFacts DEF Pair
      <4>2. nxt_working_id \notin 0 .. nxt_working_id - 1
        BY <1>3
      <4> DEFINE p == Pair'
      <4>3. Len(p) = 2 /\ p[1] \notin 0 .. nxt_working_id - 1
        BY <4>1, <4>2
      <4> HIDE DEF p
      <4>4. p \notin ToSet(Said(got[d], toCli[d]))
        BY <1>1, <2>3, <4>3, NewEvent
      <4> QED
        BY <4>4 DEF p
    <3>2. ASSUME NEW e, IsEvent(e) PROVE IsEvent(e)'
      <4>1. e[1] \in 0 .. nxt_working_id' - 1 /\ e[1] # nxt_working_id
        BY <1>1, <1>3, <3>2 DEF IsEvent
      <4> QED
        BY <1>5, <3>2, <4>1 DEF IsEvent
    <3>3. (\A k \in DOMAIN toCli[d] : MsgOf(d, toCli[d][k]))'
      <4>1. ASSUME NEW k \in DOMAIN toCli[d] PROVE MsgOf(d, toCli[d][k])
        BY <2>3 DEF ToldOf
      <4> QED
        BY <1>2, <3>2, <4>1 DEF MsgOf
    <3>4. (\A k \in DOMAIN got[d] : IsEvent(got[d][k]))'
      BY <1>2, <2>3, <3>2 DEF ToldOf
    <3>5. ToSet(left) = {} /\ ToSet(left') = {}
      BY <1>2, <1>8, EmptyFacts
    <3>6. call[d].st = "on" => Ends(due[d], Said(got[d], toCli[d]))
      BY <2>3, <3>5 DEF ToldOf
    <3> QED
      BY <1>2, <3>1, <3>3, <3>4, <3>5, <3>6 DEF ToldOf
  <2> QED
    BY <1>1, <1>2, <2>1, <2>2, <2>3 DEF ConnOf
<1> QED
  BY <1>1, <1>2, <1>6, <1>7, <1>8, <1>9 DEF ServerInv

(* The event of the device that goes was not sent before: it was in the    *)
(* list.                                                                   *)
LEMMA UnplugStep == ASSUME ServerInv, Unplug PROVE ServerInv'
<1>1. /\ ServerKinds /\ DevsInv /\ HotInv /\ stale \subseteq held /\ \A d \in Conns : ConnOf(d)
      /\ poll = "scan" /\ poll' = "free"
      /\ shrunk' = [c \in Conns |-> conn[c].pc = "ids" \/ shrunk[c]]
  BY DEF ServerInv, Unplug
<1>2. PICK i \in DOMAIN work : work' = RemoveAt(work, i) /\ evt' = [id |-> work[i], status |-> 0]
  BY DEF Unplug
<1>3. /\ nxt_working_id' = nxt_working_id /\ left' = left /\ hot' = hot /\ conn' = conn
      /\ call' = call /\ calls' = calls /\ toCli' = toCli /\ closed' = closed /\ got' = got
      /\ due' = due /\ stale' = stale
      /\ held' = held \cup {c \in Conns : conn[c].pc \in {"start", "serial"} /\ call[c].id = evt'.id}
  BY DEF Unplug
<1>4. /\ work \in Seq(Nat) /\ IsInjective(work) /\ work[i] \in Nat /\ work[i] \in ToSet(work)
  BY <1>1, <1>2, Elements DEF ServerKinds, DevsInv
<1>5. /\ work' \in Seq(Nat) /\ IsInjective(work') /\ ToSet(work') = ToSet(work) \ {work[i]}
  BY <1>2, <1>4, RemoveFacts
<1>6. evt' \in [id : Nat, status : {0, 1}] /\ evt'.id = work[i] /\ evt'.status = 0
  BY <1>2, <1>4
<1>7. /\ shrunk' \in [Conns -> BOOLEAN]
      /\ \A d \in Conns : shrunk'[d] = (conn[d].pc = "ids" \/ shrunk[d])
  BY <1>1 DEF ServerKinds
<1>8. ServerKinds'
  BY <1>1, <1>3, <1>5, <1>6, <1>7 DEF ServerKinds
<1>9. DevsInv'
  BY <1>1, <1>3, <1>4, <1>5, <1>6 DEF DevsInv
<1>10. HotInv' /\ left = <<>>
  BY <1>1, <1>3 DEF HotInv
<1>11. ASSUME NEW d \in Conns PROVE ConnOf(d)'
  <2>1. LinkOf(d)'
    BY <1>1, <1>3, LinkKept DEF ConnOf
  <2>2. ListOf(d)'
    <3>1. shrunk[d] \in BOOLEAN /\ (shrunk[d] => shrunk'[d]) /\ (conn[d].pc = "ids" => shrunk'[d])
      BY <1>1, <1>7, KindsOf
    <3>2. \A l : TrueList(l, shrunk[d]) => TrueList(l, shrunk'[d])
      BY <3>1 DEF TrueList
    <3>3. ListOf(d)
      BY <1>1 DEF ConnOf
    <3> QED
      BY <1>1, <1>3, <1>5, <1>6, <3>1, <3>2, <3>3 DEF ListOf
  <2>3. ASSUME ToldOf(d) PROVE ToldOf(d)'
    <3>1. Pair' \notin ToSet(Said(got[d], toCli[d]))
      <4> DEFINE p == Pair'
      <4>1. Len(p) = 2 /\ p[1] = work[i] /\ p[2] = 0
        BY <1>6 DEF Pair
      <4> HIDE DEF p
      <4>2. p \notin ToSet(Said(got[d], toCli[d]))
        BY <1>1, <1>4, <2>3, <4>1, NewEvent
      <4> QED
        BY <4>2 DEF p
    <3>2. ASSUME NEW e, IsEvent(e) PROVE IsEvent(e)'
      BY <1>3, <1>5, <3>2 DEF IsEvent
    <3>3. (\A k \in DOMAIN toCli[d] : MsgOf(d, toCli[d][k]))'
      <4>1. ASSUME NEW k \in DOMAIN toCli[d] PROVE MsgOf(d, toCli[d][k])
        BY <2>3 DEF ToldOf
      <4> QED
        BY <1>3, <3>2, <4>1 DEF MsgOf
    <3>4. (\A k \in DOMAIN got[d] : IsEvent(got[d][k]))'
      BY <1>3, <2>3, <3>2 DEF ToldOf
    <3>5. ToSet(left) = {} /\ ToSet(left') = {}
      BY <1>3, <1>10, EmptyFacts
    <3>6. call[d].st = "on" => Ends(due[d], Said(got[d], toCli[d]))
      BY <2>3, <3>5 DEF ToldOf
    <3> QED
      BY <1>3, <3>1, <3>3, <3>4, <3>5, <3>6 DEF ToldOf
  <2> QED
    BY <1>1, <1>3, <2>1, <2>2, <2>3 DEF ConnOf
<1> QED
  BY <1>1, <1>3, <1>8, <1>9, <1>10, <1>11 DEF ServerInv

(* The list of the device is freed.                                        *)
LEMMA FreeStep == ASSUME ServerInv, Free PROVE ServerInv'
<1>1. /\ ServerKinds /\ DevsInv /\ HotInv /\ stale \subseteq held /\ \A d \in Conns : ConnOf(d)
      /\ poll = "free" /\ poll' = "check"
  BY DEF ServerInv, Free
<1>2. /\ work' = work /\ nxt_working_id' = nxt_working_id /\ evt' = evt /\ left' = left
      /\ hot' = hot /\ conn' = conn /\ call' = call /\ calls' = calls /\ toCli' = toCli
      /\ closed' = closed /\ got' = got /\ due' = due /\ shrunk' = shrunk
      /\ stale' = stale /\ held' = held
  BY DEF Free, hist
<1>3. ServerKinds' /\ DevsInv' /\ HotInv'
  BY <1>1, <1>2 DEF ServerKinds, DevsInv, HotInv
<1>4. ASSUME NEW d \in Conns PROVE ConnOf(d)'
  <2>1. LinkOf(d)'
    BY <1>1, <1>2, LinkKept DEF ConnOf
  <2>2. ListOf(d)'
    BY <1>1, <1>2 DEF ConnOf, ListOf
  <2>3. ASSUME ToldOf(d) PROVE ToldOf(d)'
    BY <1>1, <1>2, <2>3 DEF ToldOf, MsgOf, IsEvent, Pair
  <2> QED
    BY <1>1, <1>2, <2>1, <2>2, <2>3 DEF ConnOf
<1> QED
  BY <1>1, <1>2, <1>3, <1>4 DEF ServerInv

(* Who is told that it is subscribed has to be sent the event, and is in   *)
(* the list of those it will be sent to.                                   *)
LEMMA CheckStep == ASSUME ServerInv, Check PROVE ServerInv'
<1>1. /\ ServerKinds /\ DevsInv /\ HotInv /\ stale \subseteq held /\ \A d \in Conns : ConnOf(d)
      /\ poll = "check" /\ left' = hot /\ poll' = (IF hot = <<>> THEN "scan" ELSE "send")
  BY DEF ServerInv, Check
<1>2. /\ work' = work /\ nxt_working_id' = nxt_working_id /\ evt' = evt
      /\ hot' = hot /\ conn' = conn /\ call' = call /\ calls' = calls /\ toCli' = toCli
      /\ closed' = closed /\ got' = got /\ shrunk' = shrunk /\ stale' = stale /\ held' = held
  BY DEF Check, devs
<1>3. Pair \in Entries /\ Pair' = Pair
  BY <1>1, <1>2, PairFacts DEF Pair
<1>4. /\ due' \in [Conns -> Seq(Entries)]
      /\ \A d \in Conns : due'[d] = IF call[d].st = "on" THEN Append(due[d], Pair) ELSE due[d]
  <2>1. due' = [c \in Conns |-> IF call[c].st = "on" THEN Append(due[c], Pair) ELSE due[c]]
    BY DEF Check, Pair
  <2>2. \A d \in Conns : due[d] \in Seq(Entries) /\ Append(due[d], Pair) \in Seq(Entries)
    BY <1>1, <1>3, KindsOf, AppendFacts
  <2> QED
    BY <2>1, <2>2
<1>5. left = <<>> /\ ToSet(left) = {} /\ hot \in Seq(Conns)
  BY <1>1, EmptyFacts DEF HotInv, ServerKinds
<1>6. ServerKinds' /\ DevsInv'
  BY <1>1, <1>2, <1>4, <1>5 DEF ServerKinds, DevsInv
<1>7. HotInv'
  BY <1>1, <1>2 DEF HotInv
<1>8. ASSUME NEW d \in Conns PROVE ConnOf(d)'
  <2>1. LinkOf(d)'
    BY <1>1, <1>2, <1>4, LinkKept DEF ConnOf
  <2>2. ListOf(d)'
    BY <1>1, <1>2 DEF ConnOf, ListOf
  <2>3. ASSUME ToldOf(d) PROVE ToldOf(d)'
    <3>1. Pair' \notin ToSet(Said(got'[d], toCli'[d]))
      BY <1>1, <1>2, <1>3, <2>3 DEF ToldOf
    <3>2. ASSUME call'[d].st = "on"
          PROVE  /\ d \in ToSet(left')
                 /\ Ends(due'[d], Append(Said(got'[d], toCli'[d]), Pair'))
      <4>1. d \in ToSet(hot)
        BY <1>1, <1>2, <3>2 DEF ConnOf, LinkOf, HotInv
      <4>2. Ends(due[d], Said(got[d], toCli[d]))
        BY <1>2, <1>5, <2>3, <3>2 DEF ToldOf
      <4>3. due[d] \in Seq(Entries) /\ Said(got[d], toCli[d]) \in Seq(Entries)
        BY <1>1, KindsOf, SaidFacts
      <4>4. Ends(Append(due[d], Pair), Append(Said(got[d], toCli[d]), Pair))
        BY <1>3, <4>2, <4>3, EndsAppend
      <4> QED
        BY <1>1, <1>2, <1>3, <1>4, <3>2, <4>1, <4>4
    <3>3. (\A k \in DOMAIN toCli[d] : MsgOf(d, toCli[d][k]))'
      BY <1>2, <2>3 DEF ToldOf, MsgOf, IsEvent
    <3>4. (\A k \in DOMAIN got[d] : IsEvent(got[d][k]))'
      BY <1>2, <2>3 DEF ToldOf, IsEvent
    <3> QED
      BY <3>1, <3>2, <3>3, <3>4 DEF ToldOf
  <2> QED
    BY <1>1, <1>2, <2>1, <2>2, <2>3 DEF ConnOf
<1> QED
  BY <1>1, <1>2, <1>6, <1>7, <1>8 DEF ServerInv

(* The next subscriber is sent the event, or has closed its connection.    *)
LEMMA SendEventStep == ASSUME ServerInv, SendEvent PROVE ServerInv'
<1> DEFINE m == Msg("event", 0, <<evt.id, evt.status>>)
<1>1. PICK h : h = Head(left)
  OBVIOUS
<1>2. /\ ServerKinds /\ DevsInv /\ HotInv /\ stale \subseteq held /\ \A d \in Conns : ConnOf(d)
      /\ poll = "send" /\ SendTo(h, m) /\ left' = Tail(left)
      /\ poll' = (IF Len(left) = 1 THEN "scan" ELSE "send")
  BY <1>1 DEF ServerInv, SendEvent
<1>3. /\ work' = work /\ nxt_working_id' = nxt_working_id /\ evt' = evt
      /\ hot' = hot /\ conn' = conn /\ call' = call /\ calls' = calls /\ closed' = closed
      /\ got' = got /\ due' = due /\ shrunk' = shrunk /\ stale' = stale /\ held' = held
  BY DEF SendEvent, devs, hist
<1>4. left \in Seq(Conns) /\ left # <<>> /\ IsInjective(left) /\ ToSet(left) \subseteq ToSet(hot)
  BY <1>2 DEF ServerKinds, HotInv
<1>5. /\ h \in Conns /\ Tail(left) \in Seq(Conns) /\ ToSet(left) = {h} \cup ToSet(Tail(left))
      /\ Len(Tail(left)) = Len(left) - 1 /\ Len(left) \in Nat \ {0}
      /\ IsInjective(Tail(left)) /\ h \notin ToSet(Tail(left))
  BY <1>1, <1>4, QueueFacts, HeadOnce
<1>6. Pair \in Entries /\ Pair' = Pair
  BY <1>2, <1>3, PairFacts DEF Pair
<1>7. m \in MsgRec /\ m.kind = "event" /\ m.ids = Pair
  BY <1>6 DEF Msg, MsgRec, Kinds, Pair
<1> HIDE DEF m
<1>8. /\ toCli' \in [Conns -> Seq(MsgRec)]
      /\ toCli'[h] = IF closed[h] THEN toCli[h] ELSE Append(toCli[h], m)
      /\ \A d \in Conns \ {h} : toCli'[d] = toCli[d]
  BY <1>2, <1>5, <1>7, SendEffect
<1>9. poll' \in {"scan", "send"} /\ (poll' = "send" <=> left' # <<>>)
  <2>1. CASE Len(left) = 1
    <3>1. Len(Tail(left)) = 0
      BY <1>5, <2>1
    <3>2. Tail(left) = <<>>
      BY <1>5, <3>1, EmptySeq
    <3> QED
      BY <1>2, <2>1, <3>2
  <2>2. CASE Len(left) # 1
    <3>1. Len(Tail(left)) # 0
      BY <1>5, <2>2
    <3>2. Tail(left) # <<>>
      BY <3>1, EmptyFacts
    <3> QED
      BY <1>2, <2>2, <3>2
  <2> QED
    BY <2>1, <2>2
<1>10. ServerKinds' /\ DevsInv'
  <2>1. ServerKinds'
    BY <1>2, <1>3, <1>5, <1>8, <1>9 DEF ServerKinds
  <2>2. DevsInv'
    BY <1>2, <1>3, <1>9 DEF DevsInv
  <2> QED
    BY <2>1, <2>2
<1>11. HotInv'
  BY <1>2, <1>3, <1>4, <1>5, <1>9 DEF HotInv
<1>12. conn[h].prpc = "hotplug" /\ h \in ToSet(left)
  BY <1>2, <1>4, <1>5 DEF HotInv
<1>13. /\ call[h].req = "hotplug" /\ call[h].st # "idle" /\ conn[h].pc \in {"recv", "ack", "end"}
       /\ closed[h] <=> call[h].st = "done"
  BY <1>2, <1>5, <1>12 DEF ConnOf, LinkOf
<1>14. LinkOf(h) /\ ListOf(h) /\ ToldOf(h) /\ IsInjective(Said(got[h], toCli[h]))
  BY <1>2, <1>5, <1>13 DEF ConnOf
<1>15. IsEvent(Pair)
  <2>1. Len(Pair) = 2 /\ Pair[1] = evt.id /\ Pair[2] = evt.status
    BY <1>2, PairFacts
  <2>2. evt.id \in 0 .. nxt_working_id - 1 /\ (evt.status = 0 => evt.id \notin ToSet(work))
    BY <1>2 DEF DevsInv, ServerKinds
  <2> QED
    BY <2>1, <2>2 DEF IsEvent
<1>16. ASSUME NEW d \in Conns, NEW x, MsgOf(d, x) PROVE MsgOf(d, x)'
  BY <1>3, <1>16 DEF MsgOf, IsEvent
<1>17. ASSUME NEW d \in Conns, ToldOf(d) PROVE (\A k \in DOMAIN got[d] : IsEvent(got[d][k]))'
  BY <1>3, <1>17 DEF ToldOf, IsEvent
<1>18. ConnOf(h)'
  <2>1. CASE closed[h]
    <3>1. toCli'[h] = toCli[h]
      BY <1>8, <2>1
    <3>2. LinkOf(h)'
      BY <1>3, <1>14, <3>1, LinkKept
    <3>3. ListOf(h)'
      BY <1>3, <1>13 DEF ListOf
    <3>4. (\A k \in DOMAIN toCli[h] : MsgOf(h, toCli[h][k]))'
      <4>1. ASSUME NEW k \in DOMAIN toCli[h] PROVE MsgOf(h, toCli[h][k])
        BY <1>14 DEF ToldOf
      <4> QED
        BY <1>3, <3>1, <4>1 DEF MsgOf, IsEvent
    <3>5. ToldOf(h)'
      BY <1>2, <1>3, <1>5, <1>9, <1>13, <1>14, <1>17, <2>1, <3>4 DEF ToldOf
    <3> QED
      BY <1>3, <1>14, <3>1, <3>2, <3>3, <3>5 DEF ConnOf
  <2>2. CASE ~ closed[h]
    <3>1. toCli'[h] = Append(toCli[h], m)
      BY <1>8, <2>2
    <3>2. toCli[h] \in Seq(MsgRec) /\ got[h] \in Seq(Entries)
      BY <1>2, <1>5, KindsOf
    <3>3. Said(got'[h], toCli'[h]) = Append(Said(got[h], toCli[h]), Pair)
      BY <1>3, <1>7, <3>1, <3>2, SaidAppend
    <3>4. Said(got[h], toCli[h]) \in Seq(Entries) /\ Pair \notin ToSet(Said(got[h], toCli[h]))
      BY <1>12, <1>14, <3>2, SaidFacts DEF ToldOf
    <3>5. IsInjective(Said(got'[h], toCli'[h]))
      BY <1>6, <1>14, <3>3, <3>4, AppendOnce
    <3>6. LinkOf(h)'
      BY <1>3, <1>12, <1>13, <1>14, <2>2 DEF LinkOf, Requests, Asking
    <3>7. ListOf(h)'
      BY <1>3, <1>13 DEF ListOf
    <3>8. ASSUME NEW k \in DOMAIN toCli'[h] PROVE MsgOf(h, toCli'[h][k])
      <4>1. CASE k \in DOMAIN toCli[h]
        <5>1. toCli'[h][k] = toCli[h][k]
          BY <1>7, <3>1, <3>2, <4>1, AppendFacts
        <5> QED
          BY <1>14, <4>1, <5>1 DEF ToldOf
      <4>2. CASE k \notin DOMAIN toCli[h]
        <5>1. toCli'[h][k] = m
          BY <1>7, <3>1, <3>2, <3>8, <4>2, AppendFacts
        <5> QED
          BY <1>7, <1>15, <5>1 DEF MsgOf
      <4> QED
        BY <4>1, <4>2
    <3>9. (\A k \in DOMAIN toCli[h] : MsgOf(h, toCli[h][k]))'
      BY <1>3, <3>8 DEF MsgOf, IsEvent
    <3>10. call[h].st = "on" => Ends(due[h], Append(Said(got[h], toCli[h]), Pair))
      BY <1>12, <1>14 DEF ToldOf
    <3>11. ToldOf(h)'
      BY <1>2, <1>3, <1>5, <1>6, <1>9, <1>14, <1>17, <3>3, <3>9, <3>10 DEF ToldOf
    <3> QED
      BY <3>5, <3>6, <3>7, <3>11 DEF ConnOf
  <2> QED
    BY <2>1, <2>2
<1>19. ASSUME NEW d \in Conns \ {h} PROVE ConnOf(d)'
  <2>1. toCli'[d] = toCli[d] /\ ConnOf(d) /\ (d \in ToSet(left') <=> d \in ToSet(left))
    BY <1>2, <1>5, <1>8
  <2>2. LinkOf(d)'
    BY <1>3, <2>1, LinkKept DEF ConnOf
  <2>3. ListOf(d)'
    BY <1>2, <1>3, <1>9, <2>1 DEF ConnOf, ListOf
  <2>4. ASSUME ToldOf(d) PROVE ToldOf(d)'
    <3>1. (\A k \in DOMAIN toCli[d] : MsgOf(d, toCli[d][k]))'
      <4>1. ASSUME NEW k \in DOMAIN toCli[d] PROVE MsgOf(d, toCli[d][k])
        BY <2>4 DEF ToldOf
      <4> QED
        BY <1>3, <2>1, <4>1 DEF MsgOf, IsEvent
    <3> QED
      BY <1>3, <1>6, <1>9, <1>17, <2>1, <2>4, <3>1 DEF ToldOf
  <2> QED
    BY <1>3, <2>1, <2>2, <2>3, <2>4 DEF ConnOf
<1> QED
  BY <1>2, <1>3, <1>10, <1>11, <1>18, <1>19 DEF ServerInv

-----------------------------------------------------------------------------
(* The invariant, and what follows from it.                                *)

(* Nobody is connected and no device works.                                *)
LEMMA ServerInit == Init => ServerInv
<1> SUFFICES ASSUME Init PROVE ServerInv
  OBVIOUS
<1>1. /\ work = <<>> /\ left = <<>> /\ hot = <<>> /\ poll = "scan" /\ stale = {}
      /\ \A c \in Conns : /\ conn[c] = Idle /\ call[c] = NoCall /\ toCli[c] = <<>>
                          /\ closed[c] = FALSE /\ got[c] = <<>> /\ due[c] = <<>>
  BY DEF Init
<1>2. /\ Idle \in ConnRec /\ NoCall \in CallRec /\ \A T : <<>> \in Seq(T)
  BY EmptyFacts DEF Idle, NoCall, ConnRec, CallRec, Pcs, Requests, Entries
<1>3. ServerKinds
  <2>1. nxt_working_id \in 0 .. MaxDevs /\ calls \in 0 .. MaxCalls
    BY ServerBounds DEF Init
  <2>2. evt \in [id : Nat, status : {0, 1}]
    BY DEF Init
  <2>3. /\ conn \in [Conns -> ConnRec] /\ call \in [Conns -> CallRec]
        /\ closed \in [Conns -> BOOLEAN] /\ shrunk \in [Conns -> BOOLEAN]
    BY <1>2 DEF Init
  <2>4. /\ toCli \in [Conns -> Seq(MsgRec)] /\ got \in [Conns -> Seq(Entries)]
        /\ due \in [Conns -> Seq(Entries)]
    BY <1>2 DEF Init
  <2> QED
    BY <1>1, <1>2, <2>1, <2>2, <2>3, <2>4 DEF ServerKinds
<1>4. DevsInv /\ HotInv
  BY <1>1, EmptyFacts DEF DevsInv, HotInv, Idle
<1>5. ASSUME NEW c \in Conns PROVE ConnOf(c)
  <2>1. /\ conn[c].pc = "none" /\ conn[c].prpc = "none" /\ call[c].st = "idle"
        /\ call[c].req = "test" /\ call[c].res = "none"
    BY <1>1 DEF Idle, NoCall
  <2>2. LinkOf(c)
    BY <1>1, <2>1, EmptyFacts DEF LinkOf, Asking, Requests
  <2>3. ListOf(c)
    BY <2>1 DEF ListOf
  <2>4. Said(got[c], toCli[c]) = <<>>
    BY <1>1, SaidNothing
  <2>5. IsInjective(Said(got[c], toCli[c]))
    BY <2>4, EmptyFacts
  <2> QED
    BY <2>1, <2>2, <2>3, <2>5 DEF ConnOf
<1> QED
  BY <1>1, <1>3, <1>4, <1>5 DEF ServerInv

(* Nothing changes.                                                        *)
LEMMA ServerStutter == ASSUME ServerInv, UNCHANGED vars PROVE ServerInv'
<1>1. /\ work' = work /\ nxt_working_id' = nxt_working_id /\ poll' = poll /\ evt' = evt
      /\ left' = left /\ hot' = hot /\ conn' = conn /\ call' = call /\ calls' = calls
      /\ toCli' = toCli /\ closed' = closed /\ got' = got /\ due' = due /\ shrunk' = shrunk
      /\ stale' = stale /\ held' = held
  BY DEF vars
<1>2. ServerKinds' /\ DevsInv' /\ HotInv'
  BY <1>1 DEF ServerInv, ServerKinds, DevsInv, HotInv
<1>3. ASSUME NEW c \in Conns PROVE ConnOf(c)'
  <2>1. Same(c) /\ UNCHANGED <<devs, polls>>
    BY <1>1 DEF Same, devs, polls
  <2> QED
    BY <2>1, OtherConn DEF ServerInv
<1> QED
  BY <1>1, <1>2, <1>3 DEF ServerInv

(* The invariant is inductive.                                             *)
LEMMA ServerNext == ASSUME ServerInv, [Next]_vars PROVE ServerInv'
<1>1. CASE UNCHANGED vars
  BY <1>1, ServerStutter
<1>2. CASE Poll
  BY <1>2, PlugStep, UnplugStep, FreeStep, CheckStep, SendEventStep DEF Poll, Told
<1>3. ASSUME NEW c \in Conns, Connect(c) \/ GiveUp(c) \/ Disconnect(c) PROVE ServerInv'
  BY <1>3, ConnectStep, GiveUpStep, DisconnectStep
<1>4. ASSUME NEW c \in Conns, Client(c) PROVE ServerInv'
  BY <1>4, AnswerStep, HotplugStep, ForgetStep DEF Client
<1>5. ASSUME NEW c \in Conns, Thread(c) PROVE ServerInv'
  BY <1>5, RecvStep, RecvEndStep, TestStep, PlatStep, PlatNoneStep, GetSzStep, GetIdAllStep,
     GetMacStep, FillSerialStep, SelectStep, BindStep, StartStep, HotAddStep, HotAckStep,
     EndStep DEF Thread
<1> QED
  BY <1>1, <1>2, <1>3, <1>4, <1>5 DEF Next

(* What follows from it.                                                   *)
LEMMA ServerTypes == ServerInv => TypeOK
<1> SUFFICES ASSUME ServerInv PROVE TypeOK
  OBVIOUS
<1>1. ServerKinds /\ DevsInv /\ HotInv
  BY DEF ServerInv
<1>2. /\ work \in Seq(Nat) /\ nxt_working_id \in 0 .. MaxDevs
      /\ \A i \in ToSet(work) : i < nxt_working_id
  BY <1>1 DEF ServerKinds, DevsInv
<1>3. ToSet(work) \subseteq Ids
  <2>1. ASSUME NEW i \in ToSet(work) PROVE i \in 0 .. MaxDevs - 1
    <3>1. i \in Nat /\ i < nxt_working_id
      BY <1>2, Elements
    <3> QED
      BY <1>2, <3>1, ServerBounds
  <2> QED
    BY <2>1 DEF Ids
<1>4. \A c \in Conns : conn[c].prpc \in {"none", "hotplug"} /\ call[c].req \in Requests
  BY <1>1, KindsOf
<1> QED
  BY <1>1, <1>2, <1>3, <1>4 DEF TypeOK, ServerKinds, HotInv

(* A subscriber the event is still to be sent to only exists while the     *)
(* poll thread sends.                                                      *)
LEMMA ServerServes == ServerInv => SubscribersServed
<1> SUFFICES ASSUME ServerInv PROVE SubscribersServed
  OBVIOUS
<1>1. ServerKinds /\ HotInv /\ \A c \in Conns : ConnOf(c)
  BY DEF ServerInv
<1>2. ASSUME NEW c \in ToSet(hot) PROVE conn[c].prpc = "hotplug"
  <2>1. c \in Conns
    BY <1>1, Elements DEF ServerKinds
  <2> QED
    BY <1>1, <1>2, <2>1 DEF HotInv
<1>3. ASSUME NEW c \in Conns, call[c].st = "on" PROVE c \in ToSet(hot)
  BY <1>1, <1>3 DEF ConnOf, LinkOf, HotInv
<1>4. \A c \in Conns : Events(c) = Said(got[c], toCli[c])
  BY DEF Events, Said
<1>5. ASSUME NEW c \in Conns, call[c].st = "on", poll # "send"
      PROVE  IsSuffix(due[c], Said(got[c], toCli[c]))
  <2>1. c \notin ToSet(left)
    BY <1>1, <1>5, EmptyFacts DEF HotInv
  <2>2. call[c].req = "hotplug"
    BY <1>1, <1>5 DEF ConnOf, LinkOf
  <2>3. Ends(due[c], Said(got[c], toCli[c]))
    BY <1>1, <1>5, <2>1, <2>2 DEF ConnOf, ToldOf
  <2>4. due[c] \in Seq(Entries) /\ Said(got[c], toCli[c]) \in Seq(Entries)
    BY <1>1, KindsOf, SaidFacts
  <2> QED
    BY <2>3, <2>4, EndsSuffix
<1>6. \A c \in Conns : IsInjective(Said(got[c], toCli[c]))
  BY <1>1 DEF ConnOf
<1>7. IsInjective(hot) /\ ToSet(left) \subseteq ToSet(hot)
  BY <1>1 DEF HotInv
<1> QED
  BY <1>2, <1>3, <1>4, <1>5, <1>6, <1>7, ServerTypes DEF SubscribersServed

(* A device that is used is there, or went away since it was looked up.    *)
LEMMA ServerTrue == ServerInv => AnswersAreTrue
<1> SUFFICES ASSUME ServerInv PROVE AnswersAreTrue
  OBVIOUS
<1>1. stale \subseteq held /\ \A c \in Conns : ListOf(c)
  BY DEF ServerInv, ConnOf
<1> QED
  BY <1>1 DEF AnswersAreTrue, ListOf, TrueList

-----------------------------------------------------------------------------
(* The command line.                                                       *)

\* The types; what the device was sent and what waits for it are numbers of
\* cells typed.
Places == {"out", "found", "notify", "on", "type", "end", "bye", "gone"}
LineKinds ==
  /\ plist_mtx \in {"none", "poll"} /\ cldrv_mtx \in Clients \cup {"none"}
  /\ node \in {"in", "out"} /\ freed \in BOOLEAN /\ freeflag \in BOOLEAN /\ head \subseteq Clients
  /\ pc \in [Clients -> Places] /\ drv \in [Clients -> BOOLEAN]
  /\ client_plug_event \in BOOLEAN /\ sendbuff \in Seq(Nat) /\ dev \in Seq(Nat)
  /\ snd \in {"scan", "look", "make", "count", "deinit", "close", "free"}
  /\ rcv \in {"idle", "found"} /\ del \in {"run", "cls", "wait", "done", "over"}
  /\ typed \in 0 .. MaxTyped /\ missed \in BOOLEAN
  /\ heldNode \subseteq Clients \cup {"recv"} /\ strayNode \subseteq Clients \cup {"recv", "send"}

\* Who is at its second mutex holds the first; a client points to the node
\* exactly while it is in the list of the node, or has just left that.
HeldInv ==
  /\ \A c \in Clients : pc[c] \in {"notify", "bye"} => cldrv_mtx = c
  /\ \A c \in head : drv[c] /\ pc[c] \in {"notify", "on", "type", "end"}
  /\ \A c \in Clients : drv[c] => c \in head \/ pc[c] = "bye"

\* Once the node, off the list, has let its clients go, nobody has a pointer to
\* it who had none then, unless the send thread itself was misled.
Taken == node = "out" /\ "send" \notin strayNode /\ (snd \in {"close", "free"} \/ freed)
FreedInv ==
  /\ node = "out" \/ freed \/ snd \in {"deinit", "close", "free"} => freeflag
  /\ node = "out" => snd \in {"scan", "deinit", "close", "free"}
  /\ ~ freed => strayNode = {}
  /\ freed /\ node = "out" /\ snd # "scan" => "send" \in strayNode
  /\ Taken => /\ strayNode = {} /\ (rcv = "found" => "recv" \in heldNode)
              /\ \A c \in Clients : drv[c] \/ pc[c] \in {"found", "type", "end", "notify", "bye"}
                                     => c \in heldNode

\* Cells go to the device in the order they were typed in, and all of them if
\* a packet holds what the buffer does.
Rises(q) == \A i, j \in DOMAIN q : i < j => q[i] < q[j]
CellsInv ==
  /\ Rises(dev) /\ Rises(sendbuff)
  /\ \A i \in DOMAIN dev : dev[i] <= typed
  /\ \A i \in DOMAIN sendbuff : sendbuff[i] <= typed
  /\ \A i \in DOMAIN dev, j \in DOMAIN sendbuff : dev[i] < sendbuff[j]
  /\ SendCap <= SendMax => \A k \in 1 .. typed : k \in ToSet(dev) \cup ToSet(sendbuff)

\* There is room for what clients are about to type.
RoomInv ==
  /\ Len(sendbuff) + Cardinality(C!Typing) <= SendCap
  /\ typed + Cardinality(C!Typing) <= MaxTyped

\* The number the device was told, or is about to be told, is that of the
\* clients, as long as none came or left while it was being told.
ToldInv ==
  /\ snd = "count" => client_plug_event /\ (missed \/ num = C!Cardinality(head) \/ freeflag)
  /\ ~ client_plug_event /\ ~ missed => told = C!Cardinality(head) \/ freeflag

LineInv == LineKinds /\ HeldInv /\ FreedInv /\ CellsInv /\ RoomInv /\ ToldInv

(* What the device gets: all it got before, then the front of what waits.  *)
LEMMA TakenFacts ==
  ASSUME NEW s \in Seq(Nat), NEW t \in Seq(Nat), NEW n \in Nat, n <= Len(t),
         NEW r, r = s \o SubSeq(t, 1, n)
  PROVE  /\ r \in Seq(Nat) /\ DOMAIN r = 1 .. Len(s) + n /\ DOMAIN s = 1 .. Len(s)
         /\ DOMAIN t = 1 .. Len(t) /\ Len(s) \in Nat /\ Len(t) \in Nat
         /\ \A i \in 1 .. Len(s) : r[i] = s[i]
         /\ \A i \in 1 .. n : r[Len(s) + i] = t[i]
<1> DEFINE q == SubSeq(t, 1, n)
<1>1. q \in Seq(Nat) /\ Len(q) = n /\ \A i \in 1 .. n : q[i] = t[i]
  OBVIOUS
<1>2. Len(s) \in Nat /\ Len(t) \in Nat /\ DOMAIN s = 1 .. Len(s) /\ DOMAIN t = 1 .. Len(t)
  BY LenProperties
<1> HIDE DEF q
<1>3. /\ s \o q \in Seq(Nat) /\ Len(s \o q) = Len(s) + n
      /\ \A i \in 1 .. Len(s) + n : (s \o q)[i] = IF i <= Len(s) THEN s[i] ELSE q[i - Len(s)]
  BY <1>1, ConcatProperties
<1>4. r = s \o q
  BY DEF q
<1>5. r \in Seq(Nat) /\ Len(r) = Len(s) + n
  BY <1>3, <1>4
<1>6. DOMAIN r = 1 .. Len(s) + n
  BY <1>5, LenProperties
<1>7. \A i \in 1 .. Len(s) + n : r[i] = IF i <= Len(s) THEN s[i] ELSE q[i - Len(s)]
  BY <1>3, <1>4
<1> HIDE <1>3, <1>4
<1>8. \A i \in 1 .. Len(s) : r[i] = s[i]
  BY <1>2, <1>7
<1>9. ASSUME NEW i \in 1 .. n
      PROVE  r[Len(s) + i] = t[i]
  <2> DEFINE j == Len(s) + i
  <2>1. j \in 1 .. Len(s) + n /\ ~ (j <= Len(s)) /\ j - Len(s) = i
    BY <1>2
  <2> HIDE DEF j
  <2>2. r[j] = q[i]
    BY <1>7, <2>1
  <2> QED
    BY <1>1, <2>2 DEF j
<1> QED
  BY <1>2, <1>5, <1>6, <1>8, <1>9

(* The cells are the same.                                                 *)
LEMMA CellsKept == ASSUME CellsInv, UNCHANGED <<typed, sendbuff, dev>> PROVE CellsInv'
BY DEF CellsInv, Rises

(* Those who are about to type are finitely many.                          *)
LEMMA TypingFacts ==
  /\ IsFiniteSet(C!Typing) /\ Cardinality(C!Typing) \in Nat
  /\ \A S : C!Cardinality(S) = Cardinality(S)
<1>1. C!Typing \subseteq Clients
  BY DEF C!Typing
<1>2. IsFiniteSet(C!Typing) /\ Cardinality(C!Typing) \in Nat
  BY <1>1, LineAssumption, FS_Subset, FS_CardinalityType
<1>3. \A S : C!Cardinality(S) = Cardinality(S)
  BY DEF C!Cardinality, Cardinality
<1> QED
  BY <1>2, <1>3

(* Nobody comes or goes among them.                                        *)
LEMMA RoomKept ==
  ASSUME LineKinds, RoomInv, UNCHANGED <<typed, sendbuff>>,
         \A c \in Clients : pc'[c] = "type" <=> pc[c] = "type"
  PROVE  RoomInv'
<1>1. C!Typing' = C!Typing
  BY DEF C!Typing
<1> QED
  BY <1>1 DEF RoomInv

(* A client finds the node in the work list.                               *)
LEMMA FindNodeLine == ASSUME LineInv, NEW c \in Clients, C!FindNode(c) PROVE LineInv'
<1>1. LineKinds'
  BY LineAssumption DEF LineInv, LineKinds, Places, C!FindNode, C!At, C!Uses, C!locks, C!nodes,
      C!out, C!uses, C!hist
<1>2. HeldInv'
  BY LineAssumption DEF LineInv, LineKinds, HeldInv, C!FindNode, C!At, C!Uses, C!locks, C!nodes,
      C!out, C!uses, C!hist
<1>3. FreedInv'
  BY LineAssumption DEF LineInv, LineKinds, HeldInv, FreedInv, Taken, C!FindNode, C!At, C!Uses,
      C!locks, C!nodes, C!out, C!uses, C!hist
<1>4. CellsInv'
  BY CellsKept DEF LineInv, C!FindNode, C!At, C!Uses, C!locks, C!nodes, C!out, C!uses, C!hist
<1>5. RoomInv'
  BY RoomKept DEF LineInv, LineKinds, C!FindNode, C!At, C!Uses, C!locks, C!nodes, C!out, C!uses,
      C!hist
<1>6. ToldInv'
  BY LineAssumption DEF LineInv, LineKinds, FreedInv, ToldInv, C!FindNode, C!At, C!Uses,
      C!locks, C!nodes, C!out, C!uses, C!hist
<1> QED
  BY <1>1, <1>2, <1>3, <1>4, <1>5, <1>6 DEF LineInv

(* It takes the node it found.                                             *)
LEMMA NodStartLine == ASSUME LineInv, NEW c \in Clients, C!NodStart(c) PROVE LineInv'
<1>1. LineKinds'
  BY LineAssumption DEF LineInv, LineKinds, Places, C!NodStart, C!At, C!TakeNode, C!Uses,
      C!locks, C!nodes, C!out, C!uses, C!hist
<1>2. HeldInv'
  BY LineAssumption DEF LineInv, LineKinds, HeldInv, C!NodStart, C!At, C!TakeNode, C!Uses,
      C!locks, C!nodes, C!out, C!uses, C!hist
<1>3. FreedInv'
  BY LineAssumption DEF LineInv, LineKinds, HeldInv, FreedInv, Taken, C!NodStart, C!At,
      C!TakeNode, C!Uses, C!locks, C!nodes, C!out, C!uses, C!hist
<1>4. CellsInv'
  BY CellsKept DEF LineInv, C!NodStart, C!At, C!TakeNode, C!Uses, C!locks, C!nodes, C!out,
      C!uses, C!hist
<1>5. RoomInv'
  BY RoomKept DEF LineInv, LineKinds, C!NodStart, C!At, C!TakeNode, C!Uses, C!locks, C!nodes,
      C!out, C!uses, C!hist
<1>6. ToldInv'
  BY LineAssumption DEF LineInv, LineKinds, FreedInv, ToldInv, C!NodStart, C!At, C!TakeNode,
      C!Uses, C!locks, C!nodes, C!out, C!uses, C!hist
<1> QED
  BY <1>1, <1>2, <1>3, <1>4, <1>5, <1>6 DEF LineInv

(* It is about to type: one more.                                          *)
LEMMA CbReadLine == ASSUME LineInv, NEW c \in Clients, C!CbRead(c) PROVE LineInv'
<1>1. LineKinds'
  BY LineAssumption DEF LineInv, LineKinds, Places, C!CbRead, C!At, C!locks, C!nodes, C!out,
      C!uses, C!hist
<1>2. HeldInv'
  BY LineAssumption DEF LineInv, LineKinds, HeldInv, C!CbRead, C!At, C!locks, C!nodes, C!out,
      C!uses, C!hist
<1>3. FreedInv'
  BY LineAssumption DEF LineInv, LineKinds, HeldInv, FreedInv, Taken, C!CbRead, C!At, C!locks,
      C!nodes, C!out, C!uses, C!hist
<1>4. CellsInv'
  BY CellsKept DEF LineInv, C!CbRead, C!At, C!locks, C!nodes, C!out, C!uses, C!hist
<1>5. RoomInv'
  <2>1. c \notin C!Typing /\ C!Typing' = C!Typing \cup {c} /\ pc[c] = "on"
    BY DEF LineInv, LineKinds, C!CbRead, C!At, C!Typing
  <2>2. Cardinality(C!Typing') = Cardinality(C!Typing) + 1 /\ Cardinality(C!Typing) \in Nat
    BY <2>1, TypingFacts, FS_AddElement
  <2>3. /\ typed + Cardinality(C!Typing) < MaxTyped /\ Len(sendbuff) + Cardinality(C!Typing) < SendCap
        /\ typed' = typed /\ sendbuff' = sendbuff
    BY TypingFacts DEF C!CbRead, C!out, C!hist
  <2>4. typed \in Nat /\ Len(sendbuff) \in Nat
    BY LineAssumption, LenProperties DEF LineInv, LineKinds
  <2> QED
    BY <2>2, <2>3, <2>4, LineAssumption DEF RoomInv
<1>6. ToldInv'
  BY LineAssumption DEF LineInv, LineKinds, FreedInv, ToldInv, C!CbRead, C!At, C!locks, C!nodes,
      C!out, C!uses, C!hist
<1> QED
  BY <1>1, <1>2, <1>3, <1>4, <1>5, <1>6 DEF LineInv

(* The cell typed last is the largest, and at the end of what waits.       *)
LEMMA CbStoreLine == ASSUME LineInv, NEW c \in Clients, C!CbStore(c) PROVE LineInv'
<1>1. LineKinds'
  <2>1. typed' \in 0 .. MaxTyped
    <3>1. c \in C!Typing /\ typed' = typed + 1
      BY DEF C!CbStore, C!At, C!Typing
    <3>2. Cardinality(C!Typing) \in Nat /\ Cardinality(C!Typing) # 0
      BY <3>1, TypingFacts, FS_EmptySet
    <3> QED
      BY <3>1, <3>2, LineAssumption DEF LineInv, LineKinds, RoomInv
  <2> QED
    BY <2>1, LineAssumption DEF LineInv, LineKinds, Places, C!CbStore, C!At, C!TakeNode, C!Uses,
        C!locks, C!nodes, C!out, C!uses, C!hist
<1>2. HeldInv'
  BY LineAssumption DEF LineInv, LineKinds, HeldInv, C!CbStore, C!At, C!TakeNode, C!Uses,
      C!locks, C!nodes, C!out, C!uses, C!hist
<1>3. FreedInv'
  BY LineAssumption DEF LineInv, LineKinds, HeldInv, FreedInv, Taken, C!CbStore, C!At,
      C!TakeNode, C!Uses, C!locks, C!nodes, C!out, C!uses, C!hist
<1>4. CellsInv'
  <2>1. /\ sendbuff \in Seq(Nat) /\ dev \in Seq(Nat) /\ typed \in Nat /\ CellsInv
        /\ Len(sendbuff) \in Nat
    BY LineAssumption, LenProperties DEF LineInv, LineKinds
  <2>2. sendbuff' = Append(sendbuff, typed + 1) /\ typed' = typed + 1 /\ dev' = dev
    BY DEF C!CbStore
  <2>3. /\ Len(sendbuff') = Len(sendbuff) + 1 /\ DOMAIN sendbuff' = 1 .. Len(sendbuff) + 1
        /\ \A i \in 1 .. Len(sendbuff) : sendbuff'[i] = sendbuff[i]
        /\ sendbuff'[Len(sendbuff) + 1] = typed + 1
    BY <2>1, <2>2, AppendProperties
  <2>4. DOMAIN sendbuff = 1 .. Len(sendbuff) /\ DOMAIN dev = 1 .. Len(dev)
    BY <2>1, LenProperties
  <2>5. \A i \in DOMAIN dev : dev[i] \in Nat /\ dev[i] <= typed
    BY <2>1, <2>4, ElementOfSeq DEF CellsInv
  <2>6. \A i \in DOMAIN sendbuff : sendbuff[i] \in Nat /\ sendbuff[i] <= typed
    BY <2>1, <2>4, ElementOfSeq DEF CellsInv
  <2>7. \A i \in DOMAIN sendbuff' : (i \in DOMAIN sendbuff /\ sendbuff'[i] = sendbuff[i])
                                    \/ (i = Len(sendbuff) + 1 /\ sendbuff'[i] = typed + 1)
    BY <2>1, <2>3, <2>4
  <2>8. Rises(dev') /\ \A i \in DOMAIN dev' : dev'[i] <= typed'
    BY <2>1, <2>2, <2>5 DEF CellsInv
  <2>9. ASSUME NEW i \in DOMAIN sendbuff', NEW j \in DOMAIN sendbuff', i < j
        PROVE  sendbuff'[i] < sendbuff'[j]
    <3>1. i \in 1 .. Len(sendbuff)
      BY <2>1, <2>3, <2>9
    <3>2. CASE j = Len(sendbuff) + 1
      BY <2>1, <2>3, <2>4, <2>6, <3>1, <3>2
    <3>3. CASE j # Len(sendbuff) + 1
      <4>1. j \in 1 .. Len(sendbuff)
        BY <2>1, <2>3, <2>9, <3>3
      <4> QED
        BY <2>1, <2>3, <2>4, <2>9, <3>1, <4>1 DEF CellsInv, Rises
    <3> QED
      BY <3>2, <3>3
  <2>10. \A i \in DOMAIN sendbuff' : sendbuff'[i] <= typed'
    BY <2>1, <2>2, <2>6, <2>7
  <2>11. \A i \in DOMAIN dev', j \in DOMAIN sendbuff' : dev'[i] < sendbuff'[j]
    BY <2>1, <2>2, <2>5, <2>7 DEF CellsInv
  <2>12. ASSUME SendCap <= SendMax, NEW k \in 1 .. typed'
         PROVE  k \in ToSet(dev') \cup ToSet(sendbuff')
    <3>1. CASE k = typed + 1
      <4>1. Len(sendbuff) + 1 \in DOMAIN sendbuff' /\ sendbuff'[Len(sendbuff) + 1] = k
        BY <2>1, <2>3, <3>1
      <4> QED
        BY <4>1 DEF ToSet
    <3>2. CASE k # typed + 1
      <4>1. k \in 1 .. typed
        BY <2>1, <2>2, <2>12, <3>2
      <4>2. k \in ToSet(dev) \cup ToSet(sendbuff)
        BY <2>1, <2>12, <4>1 DEF CellsInv
      <4>3. ToSet(sendbuff) \subseteq ToSet(sendbuff')
        BY <2>1, <2>3, <2>4 DEF ToSet
      <4> QED
        BY <2>2, <4>2, <4>3
    <3> QED
      BY <3>1, <3>2
  <2> QED
    BY <2>8, <2>9, <2>10, <2>11, <2>12 DEF CellsInv, Rises
<1>5. RoomInv'
  <2>1. c \in C!Typing /\ C!Typing' = C!Typing \ {c}
    BY DEF LineInv, LineKinds, C!CbStore, C!At, C!Typing
  <2>2. Cardinality(C!Typing') = Cardinality(C!Typing) - 1 /\ Cardinality(C!Typing) \in Nat
    BY <2>1, TypingFacts, FS_RemoveElement
  <2>3. /\ typed \in Nat /\ Len(sendbuff) \in Nat /\ typed' = typed + 1
        /\ Len(sendbuff') = Len(sendbuff) + 1
    BY LineAssumption, LenProperties, AppendProperties DEF LineInv, LineKinds, C!CbStore
  <2> QED
    BY <2>2, <2>3, LineAssumption DEF LineInv, RoomInv
<1>6. ToldInv'
  BY LineAssumption DEF LineInv, LineKinds, FreedInv, ToldInv, C!CbStore, C!At, C!TakeNode,
      C!Uses, C!locks, C!nodes, C!out, C!uses, C!hist
<1> QED
  BY <1>1, <1>2, <1>3, <1>4, <1>5, <1>6 DEF LineInv

(* The send thread is told, under the second mutex.                        *)
LEMMA NotifyOnLine == ASSUME LineInv, NEW c \in Clients, C!NotifyOn(c) PROVE LineInv'
<1>1. LineKinds'
  BY LineAssumption DEF LineInv, LineKinds, Places, C!NotifyOn, C!Notify, C!At, C!Uses, C!locks,
      C!nodes, C!out, C!uses, C!hist
<1>2. HeldInv'
  BY LineAssumption DEF LineInv, LineKinds, HeldInv, C!NotifyOn, C!Notify, C!At, C!Uses,
      C!locks, C!nodes, C!out, C!uses, C!hist
<1>3. FreedInv'
  BY LineAssumption DEF LineInv, LineKinds, HeldInv, FreedInv, Taken, C!NotifyOn, C!Notify,
      C!At, C!Uses, C!locks, C!nodes, C!out, C!uses, C!hist
<1>4. CellsInv'
  BY CellsKept DEF LineInv, C!NotifyOn, C!Notify, C!At, C!Uses, C!locks, C!nodes, C!out, C!uses,
      C!hist
<1>5. RoomInv'
  BY RoomKept DEF LineInv, LineKinds, C!NotifyOn, C!Notify, C!At, C!Uses, C!locks, C!nodes,
      C!out, C!uses, C!hist
<1>6. ToldInv'
  BY LineAssumption DEF LineInv, LineKinds, FreedInv, ToldInv, C!NotifyOn, C!Notify, C!At,
      C!Uses, C!locks, C!nodes, C!out, C!uses, C!hist
<1> QED
  BY <1>1, <1>2, <1>3, <1>4, <1>5, <1>6 DEF LineInv

(* The client closes its connection.                                       *)
LEMMA NodeEndLine == ASSUME LineInv, NEW c \in Clients, C!NodeEnd(c) PROVE LineInv'
<1>1. LineKinds'
  BY LineAssumption DEF LineInv, LineKinds, Places, C!NodeEnd, C!At, C!locks, C!nodes, C!out,
      C!uses, C!hist
<1>2. HeldInv'
  BY LineAssumption DEF LineInv, LineKinds, HeldInv, C!NodeEnd, C!At, C!locks, C!nodes, C!out,
      C!uses, C!hist
<1>3. FreedInv'
  BY LineAssumption DEF LineInv, LineKinds, HeldInv, FreedInv, Taken, C!NodeEnd, C!At, C!locks,
      C!nodes, C!out, C!uses, C!hist
<1>4. CellsInv'
  BY CellsKept DEF LineInv, C!NodeEnd, C!At, C!locks, C!nodes, C!out, C!uses, C!hist
<1>5. RoomInv'
  BY RoomKept DEF LineInv, LineKinds, C!NodeEnd, C!At, C!locks, C!nodes, C!out, C!uses, C!hist
<1>6. ToldInv'
  BY LineAssumption DEF LineInv, LineKinds, FreedInv, ToldInv, C!NodeEnd, C!At, C!locks,
      C!nodes, C!out, C!uses, C!hist
<1> QED
  BY <1>1, <1>2, <1>3, <1>4, <1>5, <1>6 DEF LineInv

(* Its thread takes it out of the list.                                    *)
LEMMA EndForgetLine == ASSUME LineInv, NEW c \in Clients, C!EndForget(c) PROVE LineInv'
<1>1. LineKinds'
  BY LineAssumption DEF LineInv, LineKinds, Places, C!EndForget, C!At, C!TakeNode, C!Uses,
      C!Forget, C!locks, C!nodes, C!out, C!uses, C!hist
<1>2. HeldInv'
  BY LineAssumption DEF LineInv, LineKinds, HeldInv, C!EndForget, C!At, C!TakeNode, C!Uses,
      C!Forget, C!locks, C!nodes, C!out, C!uses, C!hist
<1>3. FreedInv'
  BY LineAssumption DEF LineInv, LineKinds, HeldInv, FreedInv, Taken, C!EndForget, C!At,
      C!TakeNode, C!Uses, C!Forget, C!locks, C!nodes, C!out, C!uses, C!hist
<1>4. CellsInv'
  BY CellsKept DEF LineInv, C!EndForget, C!At, C!TakeNode, C!Uses, C!Forget, C!locks, C!nodes,
      C!out, C!uses, C!hist
<1>5. RoomInv'
  BY RoomKept DEF LineInv, LineKinds, C!EndForget, C!At, C!TakeNode, C!Uses, C!Forget, C!locks,
      C!nodes, C!out, C!uses, C!hist
<1>6. ToldInv'
  BY LineAssumption DEF LineInv, LineKinds, FreedInv, ToldInv, C!EndForget, C!At, C!TakeNode,
      C!Uses, C!Forget, C!locks, C!nodes, C!out, C!uses, C!hist
<1> QED
  BY <1>1, <1>2, <1>3, <1>4, <1>5, <1>6 DEF LineInv

(* It lets the node go.                                                    *)
LEMMA NotifyEndLine == ASSUME LineInv, NEW c \in Clients, C!NotifyEnd(c) PROVE LineInv'
<1>1. LineKinds'
  BY LineAssumption DEF LineInv, LineKinds, Places, C!NotifyEnd, C!Notify, C!At, C!Uses,
      C!locks, C!nodes, C!out, C!uses, C!hist
<1>2. HeldInv'
  BY LineAssumption DEF LineInv, LineKinds, HeldInv, C!NotifyEnd, C!Notify, C!At, C!Uses,
      C!locks, C!nodes, C!out, C!uses, C!hist
<1>3. FreedInv'
  BY LineAssumption DEF LineInv, LineKinds, HeldInv, FreedInv, Taken, C!NotifyEnd, C!Notify,
      C!At, C!Uses, C!locks, C!nodes, C!out, C!uses, C!hist
<1>4. CellsInv'
  BY CellsKept DEF LineInv, C!NotifyEnd, C!Notify, C!At, C!Uses, C!locks, C!nodes, C!out,
      C!uses, C!hist
<1>5. RoomInv'
  BY RoomKept DEF LineInv, LineKinds, C!NotifyEnd, C!Notify, C!At, C!Uses, C!locks, C!nodes,
      C!out, C!uses, C!hist
<1>6. ToldInv'
  BY LineAssumption DEF LineInv, LineKinds, FreedInv, ToldInv, C!NotifyEnd, C!Notify, C!At,
      C!Uses, C!locks, C!nodes, C!out, C!uses, C!hist
<1> QED
  BY <1>1, <1>2, <1>3, <1>4, <1>5, <1>6 DEF LineInv

(* The node had let it go.                                                 *)
LEMMA NodeEndClosedLine == ASSUME LineInv, NEW c \in Clients, C!NodeEndClosed(c) PROVE LineInv'
<1>1. LineKinds'
  BY LineAssumption DEF LineInv, LineKinds, Places, C!NodeEndClosed, C!At, C!locks, C!nodes,
      C!out, C!uses, C!hist
<1>2. HeldInv'
  BY LineAssumption DEF LineInv, LineKinds, HeldInv, C!NodeEndClosed, C!At, C!locks, C!nodes,
      C!out, C!uses, C!hist
<1>3. FreedInv'
  BY LineAssumption DEF LineInv, LineKinds, HeldInv, FreedInv, Taken, C!NodeEndClosed, C!At,
      C!locks, C!nodes, C!out, C!uses, C!hist
<1>4. CellsInv'
  BY CellsKept DEF LineInv, C!NodeEndClosed, C!At, C!locks, C!nodes, C!out, C!uses, C!hist
<1>5. RoomInv'
  BY RoomKept DEF LineInv, LineKinds, C!NodeEndClosed, C!At, C!locks, C!nodes, C!out, C!uses,
      C!hist
<1>6. ToldInv'
  BY LineAssumption DEF LineInv, LineKinds, FreedInv, ToldInv, C!NodeEndClosed, C!At, C!locks,
      C!nodes, C!out, C!uses, C!hist
<1> QED
  BY <1>1, <1>2, <1>3, <1>4, <1>5, <1>6 DEF LineInv

(* The receive thread finds the node.                                      *)
LEMMA RecvFindLine == ASSUME LineInv, C!RecvFind PROVE LineInv'
<1>1. LineKinds'
  BY LineAssumption DEF LineInv, LineKinds, Places, C!RecvFind, C!Uses, C!Receiver, C!locks,
      C!nodes, C!out, C!uses, C!hist
<1>2. HeldInv'
  BY LineAssumption DEF LineInv, LineKinds, HeldInv, C!RecvFind, C!Uses, C!Receiver, C!locks,
      C!nodes, C!out, C!uses, C!hist
<1>3. FreedInv'
  BY LineAssumption DEF LineInv, LineKinds, HeldInv, FreedInv, Taken, C!RecvFind, C!Uses,
      C!Receiver, C!locks, C!nodes, C!out, C!uses, C!hist
<1>4. CellsInv'
  BY CellsKept DEF LineInv, C!RecvFind, C!Uses, C!Receiver, C!locks, C!nodes, C!out, C!uses,
      C!hist
<1>5. RoomInv'
  BY RoomKept DEF LineInv, LineKinds, C!RecvFind, C!Uses, C!Receiver, C!locks, C!nodes, C!out,
      C!uses, C!hist
<1>6. ToldInv'
  BY LineAssumption DEF LineInv, LineKinds, FreedInv, ToldInv, C!RecvFind, C!Uses, C!Receiver,
      C!locks, C!nodes, C!out, C!uses, C!hist
<1> QED
  BY <1>1, <1>2, <1>3, <1>4, <1>5, <1>6 DEF LineInv

(* It is done with it.                                                     *)
LEMMA RecvProcLine == ASSUME LineInv, C!RecvProc PROVE LineInv'
<1>1. LineKinds'
  BY LineAssumption DEF LineInv, LineKinds, Places, C!RecvProc, C!Uses, C!Receiver, C!locks,
      C!nodes, C!out, C!uses, C!hist
<1>2. HeldInv'
  BY LineAssumption DEF LineInv, LineKinds, HeldInv, C!RecvProc, C!Uses, C!Receiver, C!locks,
      C!nodes, C!out, C!uses, C!hist
<1>3. FreedInv'
  BY LineAssumption DEF LineInv, LineKinds, HeldInv, FreedInv, Taken, C!RecvProc, C!Uses,
      C!Receiver, C!locks, C!nodes, C!out, C!uses, C!hist
<1>4. CellsInv'
  BY CellsKept DEF LineInv, C!RecvProc, C!Uses, C!Receiver, C!locks, C!nodes, C!out, C!uses,
      C!hist
<1>5. RoomInv'
  BY RoomKept DEF LineInv, LineKinds, C!RecvProc, C!Uses, C!Receiver, C!locks, C!nodes, C!out,
      C!uses, C!hist
<1>6. ToldInv'
  BY LineAssumption DEF LineInv, LineKinds, FreedInv, ToldInv, C!RecvProc, C!Uses, C!Receiver,
      C!locks, C!nodes, C!out, C!uses, C!hist
<1> QED
  BY <1>1, <1>2, <1>3, <1>4, <1>5, <1>6 DEF LineInv

(* The send thread finds the node, or takes it from the list.              *)
LEMMA ScanLine == ASSUME LineInv, C!Scan PROVE LineInv'
<1>1. LineKinds'
  BY LineAssumption DEF LineInv, LineKinds, Places, C!Scan, C!Snd, C!Keeps, C!Uses, C!Sender,
      C!locks, C!nodes, C!out, C!uses, C!hist
<1>2. HeldInv'
  BY LineAssumption DEF LineInv, LineKinds, HeldInv, C!Scan, C!Snd, C!Keeps, C!Uses, C!Sender,
      C!locks, C!nodes, C!out, C!uses, C!hist
<1>3. FreedInv'
  BY LineAssumption DEF LineInv, LineKinds, HeldInv, FreedInv, Taken, C!Scan, C!Snd, C!Keeps,
      C!Uses, C!Sender, C!locks, C!nodes, C!out, C!uses, C!hist
<1>4. CellsInv'
  BY CellsKept DEF LineInv, C!Scan, C!Snd, C!Keeps, C!Uses, C!Sender, C!locks, C!nodes, C!out,
      C!uses, C!hist
<1>5. RoomInv'
  BY RoomKept DEF LineInv, LineKinds, C!Scan, C!Snd, C!Keeps, C!Uses, C!Sender, C!locks,
      C!nodes, C!out, C!uses, C!hist
<1>6. ToldInv'
  BY LineAssumption DEF LineInv, LineKinds, FreedInv, ToldInv, C!Scan, C!Snd, C!Keeps, C!Uses,
      C!Sender, C!locks, C!nodes, C!out, C!uses, C!hist
<1> QED
  BY <1>1, <1>2, <1>3, <1>4, <1>5, <1>6 DEF LineInv

(* It looks at freeflag again.                                             *)
LEMMA LookLine == ASSUME LineInv, C!Look PROVE LineInv'
<1>1. LineKinds'
  BY LineAssumption DEF LineInv, LineKinds, Places, C!Look, C!Snd, C!Keeps, C!locks, C!nodes,
      C!out, C!uses, C!hist
<1>2. HeldInv'
  BY LineAssumption DEF LineInv, LineKinds, HeldInv, C!Look, C!Snd, C!Keeps, C!locks, C!nodes,
      C!out, C!uses, C!hist
<1>3. FreedInv'
  BY LineAssumption DEF LineInv, LineKinds, HeldInv, FreedInv, Taken, C!Look, C!Snd, C!Keeps,
      C!locks, C!nodes, C!out, C!uses, C!hist
<1>4. CellsInv'
  BY CellsKept DEF LineInv, C!Look, C!Snd, C!Keeps, C!locks, C!nodes, C!out, C!uses, C!hist
<1>5. RoomInv'
  BY RoomKept DEF LineInv, LineKinds, C!Look, C!Snd, C!Keeps, C!locks, C!nodes, C!out, C!uses,
      C!hist
<1>6. ToldInv'
  BY LineAssumption DEF LineInv, LineKinds, FreedInv, ToldInv, C!Look, C!Snd, C!Keeps, C!locks,
      C!nodes, C!out, C!uses, C!hist
<1> QED
  BY <1>1, <1>2, <1>3, <1>4, <1>5, <1>6 DEF LineInv

(* There is nothing more to send.                                          *)
LEMMA MakeEndLine == ASSUME LineInv, C!MakeEnd PROVE LineInv'
<1>1. LineKinds'
  BY LineAssumption DEF LineInv, LineKinds, Places, C!MakeEnd, C!Snd, C!Keeps, C!locks, C!nodes,
      C!out, C!uses, C!hist
<1>2. HeldInv'
  BY LineAssumption DEF LineInv, LineKinds, HeldInv, C!MakeEnd, C!Snd, C!Keeps, C!locks,
      C!nodes, C!out, C!uses, C!hist
<1>3. FreedInv'
  BY LineAssumption DEF LineInv, LineKinds, HeldInv, FreedInv, Taken, C!MakeEnd, C!Snd, C!Keeps,
      C!locks, C!nodes, C!out, C!uses, C!hist
<1>4. CellsInv'
  BY CellsKept DEF LineInv, C!MakeEnd, C!Snd, C!Keeps, C!locks, C!nodes, C!out, C!uses, C!hist
<1>5. RoomInv'
  BY RoomKept DEF LineInv, LineKinds, C!MakeEnd, C!Snd, C!Keeps, C!locks, C!nodes, C!out,
      C!uses, C!hist
<1>6. ToldInv'
  BY LineAssumption DEF LineInv, LineKinds, FreedInv, ToldInv, C!MakeEnd, C!Snd, C!Keeps,
      C!locks, C!nodes, C!out, C!uses, C!hist
<1> QED
  BY <1>1, <1>2, <1>3, <1>4, <1>5, <1>6 DEF LineInv

(* The clients are counted.                                                *)
LEMMA CountLine == ASSUME LineInv, C!Count PROVE LineInv'
<1>1. LineKinds'
  BY LineAssumption DEF LineInv, LineKinds, Places, C!Count, C!Snd, C!locks, C!nodes, C!out,
      C!uses, C!hist
<1>2. HeldInv'
  BY LineAssumption DEF LineInv, LineKinds, HeldInv, C!Count, C!Snd, C!locks, C!nodes, C!out,
      C!uses, C!hist
<1>3. FreedInv'
  BY LineAssumption DEF LineInv, LineKinds, HeldInv, FreedInv, Taken, C!Count, C!Snd, C!locks,
      C!nodes, C!out, C!uses, C!hist
<1>4. CellsInv'
  BY CellsKept DEF LineInv, C!Count, C!Snd, C!locks, C!nodes, C!out, C!uses, C!hist
<1>5. RoomInv'
  BY RoomKept DEF LineInv, LineKinds, C!Count, C!Snd, C!locks, C!nodes, C!out, C!uses, C!hist
<1>6. ToldInv'
  BY LineAssumption DEF LineInv, LineKinds, FreedInv, ToldInv, C!Count, C!Snd, C!locks, C!nodes,
      C!out, C!uses, C!hist
<1> QED
  BY <1>1, <1>2, <1>3, <1>4, <1>5, <1>6 DEF LineInv

(* The device is told.                                                     *)
LEMMA TellCountLine == ASSUME LineInv, C!TellCount PROVE LineInv'
<1>1. LineKinds'
  BY LineAssumption DEF LineInv, LineKinds, Places, C!TellCount, C!Snd, C!locks, C!nodes, C!out,
      C!uses, C!hist
<1>2. HeldInv'
  BY LineAssumption DEF LineInv, LineKinds, HeldInv, C!TellCount, C!Snd, C!locks, C!nodes,
      C!out, C!uses, C!hist
<1>3. FreedInv'
  BY LineAssumption DEF LineInv, LineKinds, HeldInv, FreedInv, Taken, C!TellCount, C!Snd,
      C!locks, C!nodes, C!out, C!uses, C!hist
<1>4. CellsInv'
  BY CellsKept DEF LineInv, C!TellCount, C!Snd, C!locks, C!nodes, C!out, C!uses, C!hist
<1>5. RoomInv'
  BY RoomKept DEF LineInv, LineKinds, C!TellCount, C!Snd, C!locks, C!nodes, C!out, C!uses,
      C!hist
<1>6. ToldInv'
  BY LineAssumption DEF LineInv, LineKinds, FreedInv, ToldInv, C!TellCount, C!Snd, C!locks,
      C!nodes, C!out, C!uses, C!hist
<1> QED
  BY <1>1, <1>2, <1>3, <1>4, <1>5, <1>6 DEF LineInv

(* The front of what waits goes to the device.                             *)
LEMMA SendDataLine == ASSUME LineInv, C!SendData PROVE LineInv'
<1>1. LineKinds'
  BY LineAssumption DEF LineInv, LineKinds, Places, C!SendData, C!Snd, C!Keeps, C!Cut, C!locks,
      C!nodes, C!out, C!uses, C!hist
<1>2. HeldInv'
  BY LineAssumption DEF LineInv, LineKinds, HeldInv, C!SendData, C!Snd, C!Keeps, C!Cut, C!locks,
      C!nodes, C!out, C!uses, C!hist
<1>3. FreedInv'
  BY LineAssumption DEF LineInv, LineKinds, HeldInv, FreedInv, Taken, C!SendData, C!Snd,
      C!Keeps, C!Cut, C!locks, C!nodes, C!out, C!uses, C!hist
<1>4. CellsInv'
  <2>1. /\ sendbuff \in Seq(Nat) /\ dev \in Seq(Nat) /\ typed \in Nat /\ CellsInv
        /\ Len(sendbuff) \in Nat /\ Len(dev) \in Nat /\ SendCap \in Nat /\ SendMax \in Nat
    BY LineAssumption, LenProperties DEF LineInv, LineKinds
  <2> DEFINE n == IF Len(sendbuff) > SendMax THEN SendMax ELSE Len(sendbuff)
  <2>2. sendbuff' = <<>> /\ typed' = typed /\ dev' = dev \o SubSeq(sendbuff, 1, n)
    BY DEF C!SendData, C!Cut, C!hist
  <2>3. n \in Nat /\ n <= Len(sendbuff) /\ (SendCap <= SendMax => n = Len(sendbuff))
    <3>1. Len(sendbuff) <= SendCap
      BY <2>1, TypingFacts DEF LineInv, RoomInv
    <3> QED
      BY <2>1, <3>1
  <2> HIDE DEF n
  <2>4. /\ DOMAIN dev' = 1 .. Len(dev) + n /\ DOMAIN dev = 1 .. Len(dev)
        /\ DOMAIN sendbuff = 1 .. Len(sendbuff)
        /\ \A i \in 1 .. Len(dev) : dev'[i] = dev[i]
        /\ \A i \in 1 .. n : dev'[Len(dev) + i] = sendbuff[i]
    BY <2>1, <2>2, <2>3, TakenFacts
  <2>5. /\ \A i : i \in DOMAIN dev' <=> i \in Nat /\ 1 <= i /\ i <= Len(dev) + n
        /\ \A i : i \in DOMAIN dev <=> i \in Nat /\ 1 <= i /\ i <= Len(dev)
    <3>1. /\ \A i : i \in 1 .. Len(dev) + n <=> i \in Nat /\ 1 <= i /\ i <= Len(dev) + n
          /\ \A i : i \in 1 .. Len(dev) <=> i \in Nat /\ 1 <= i /\ i <= Len(dev)
      BY <2>1, <2>3
    <3> QED
      BY <2>4, <3>1
  <2>6. ASSUME NEW i \in DOMAIN dev'
        PROVE  \/ i \in DOMAIN dev /\ dev'[i] = dev[i]
               \/ i - Len(dev) \in DOMAIN sendbuff /\ dev'[i] = sendbuff[i - Len(dev)]
    <3>1. CASE i <= Len(dev)
      <4>1. i \in DOMAIN dev
        BY <2>5, <2>6, <3>1
      <4> QED
        BY <2>4, <4>1
    <3>2. CASE ~ (i <= Len(dev))
      <4>1. i \in Nat /\ i <= Len(dev) + n
        BY <2>5, <2>6
      <4>2. i - Len(dev) \in 1 .. n /\ Len(dev) + (i - Len(dev)) = i
        BY <2>1, <2>3, <3>2, <4>1
      <4>3. dev'[Len(dev) + (i - Len(dev))] = sendbuff[i - Len(dev)]
        BY <2>4, <4>2
      <4>4. i - Len(dev) \in 1 .. Len(sendbuff)
        BY <2>1, <2>3, <4>2
      <4> QED
        BY <2>4, <4>2, <4>3, <4>4
    <3> QED
      BY <3>1, <3>2
  <2>7. ASSUME NEW i \in DOMAIN dev', NEW j \in DOMAIN dev', i < j
        PROVE  dev'[i] < dev'[j]
    <3>1. CASE i \in DOMAIN dev /\ j \in DOMAIN dev
      BY <2>1, <2>4, <2>7, <3>1 DEF CellsInv, Rises
    <3>2. CASE i \in DOMAIN dev /\ j \notin DOMAIN dev
      <4>1. /\ j - Len(dev) \in DOMAIN sendbuff /\ dev'[j] = sendbuff[j - Len(dev)]
            /\ dev'[i] = dev[i]
        BY <2>4, <2>6, <3>2
      <4> QED
        BY <2>1, <3>2, <4>1 DEF CellsInv
    <3>3. CASE i \notin DOMAIN dev
      <4>1. i \in Nat /\ j \in Nat /\ j \notin DOMAIN dev
        BY <2>1, <2>3, <2>5, <2>7, <3>3
      <4>2. /\ i - Len(dev) \in DOMAIN sendbuff /\ dev'[i] = sendbuff[i - Len(dev)]
            /\ j - Len(dev) \in DOMAIN sendbuff /\ dev'[j] = sendbuff[j - Len(dev)]
        BY <2>6, <3>3, <4>1
      <4>3. i - Len(dev) < j - Len(dev)
        BY <2>1, <2>7, <4>1
      <4> QED
        BY <2>1, <4>2, <4>3 DEF CellsInv, Rises
    <3> QED
      BY <3>1, <3>2, <3>3
  <2>8. \A i \in DOMAIN dev' : dev'[i] <= typed'
    BY <2>1, <2>2, <2>6 DEF CellsInv
  <2>9. DOMAIN sendbuff' = {} /\ Len(sendbuff') = 0
    BY <2>2
  <2>10. ASSUME SendCap <= SendMax, NEW k \in 1 .. typed'
         PROVE  k \in ToSet(dev') \cup ToSet(sendbuff')
    <3>1. k \in ToSet(dev) \cup ToSet(sendbuff)
      BY <2>1, <2>2, <2>10 DEF CellsInv
    <3>2. CASE k \in ToSet(dev)
      <4>1. PICK i \in DOMAIN dev : k = dev[i]
        BY <3>2 DEF ToSet
      <4>2. i \in DOMAIN dev'
        BY <2>1, <2>3, <2>5, <4>1
      <4>3. i \in DOMAIN dev' /\ dev'[i] = k
        BY <2>4, <4>1, <4>2
      <4> QED
        BY <4>3 DEF ToSet
    <3>3. CASE k \in ToSet(sendbuff)
      <4>1. PICK i \in DOMAIN sendbuff : k = sendbuff[i]
        BY <3>3 DEF ToSet
      <4>2. i \in 1 .. n /\ Len(dev) + i \in 1 .. Len(dev) + n
        BY <2>1, <2>3, <2>4, <2>10, <4>1
      <4>3. Len(dev) + i \in DOMAIN dev' /\ dev'[Len(dev) + i] = k
        BY <2>4, <4>1, <4>2
      <4> QED
        BY <4>3 DEF ToSet
    <3> QED
      BY <3>1, <3>2, <3>3
  <2> QED
    BY <2>1, <2>7, <2>8, <2>9, <2>10 DEF CellsInv, Rises
<1>5. RoomInv'
  <2>1. Len(sendbuff') = 0 /\ typed' = typed /\ C!Typing' = C!Typing
    BY DEF C!SendData, C!Cut, C!Keeps, C!hist, C!Typing
  <2>2. typed \in Nat /\ Len(sendbuff) \in Nat
    BY LineAssumption, LenProperties DEF LineInv, LineKinds
  <2> QED
    BY <2>1, <2>2, TypingFacts, LineAssumption DEF LineInv, RoomInv
<1>6. ToldInv'
  BY LineAssumption DEF LineInv, LineKinds, FreedInv, ToldInv, C!SendData, C!Snd, C!Keeps,
      C!Cut, C!locks, C!nodes, C!out, C!uses, C!hist
<1> QED
  BY <1>1, <1>2, <1>3, <1>4, <1>5, <1>6 DEF LineInv

(* The node lets its clients go.                                           *)
LEMMA DeinitLine == ASSUME LineInv, C!Deinit PROVE LineInv'
<1>1. LineKinds'
  BY LineAssumption DEF LineInv, LineKinds, Places, C!Deinit, C!Snd, C!DelRpc, C!Holders,
      C!Receiver, C!locks, C!nodes, C!out, C!uses, C!hist
<1>2. HeldInv'
  BY LineAssumption DEF LineInv, LineKinds, HeldInv, C!Deinit, C!Snd, C!DelRpc, C!Holders,
      C!Receiver, C!locks, C!nodes, C!out, C!uses, C!hist
<1>3. FreedInv'
  BY LineAssumption DEF LineInv, LineKinds, HeldInv, FreedInv, Taken, C!Deinit, C!Snd, C!DelRpc,
      C!Holders, C!Receiver, C!locks, C!nodes, C!out, C!uses, C!hist
<1>4. CellsInv'
  BY CellsKept DEF LineInv, C!Deinit, C!Snd, C!DelRpc, C!Holders, C!Receiver, C!locks, C!nodes,
      C!out, C!uses, C!hist
<1>5. RoomInv'
  BY RoomKept DEF LineInv, LineKinds, C!Deinit, C!Snd, C!DelRpc, C!Holders, C!Receiver, C!locks,
      C!nodes, C!out, C!uses, C!hist
<1>6. ToldInv'
  BY LineAssumption DEF LineInv, LineKinds, FreedInv, ToldInv, C!Deinit, C!Snd, C!DelRpc,
      C!Holders, C!Receiver, C!locks, C!nodes, C!out, C!uses, C!hist
<1> QED
  BY <1>1, <1>2, <1>3, <1>4, <1>5, <1>6 DEF LineInv

(* The poll thread need not wait.                                          *)
LEMMA DeinitCloseLine == ASSUME LineInv, C!DeinitClose PROVE LineInv'
<1>1. LineKinds'
  BY LineAssumption DEF LineInv, LineKinds, Places, C!DeinitClose, C!Snd, C!Keeps, C!locks,
      C!nodes, C!out, C!uses, C!hist
<1>2. HeldInv'
  BY LineAssumption DEF LineInv, LineKinds, HeldInv, C!DeinitClose, C!Snd, C!Keeps, C!locks,
      C!nodes, C!out, C!uses, C!hist
<1>3. FreedInv'
  BY LineAssumption DEF LineInv, LineKinds, HeldInv, FreedInv, Taken, C!DeinitClose, C!Snd,
      C!Keeps, C!locks, C!nodes, C!out, C!uses, C!hist
<1>4. CellsInv'
  BY CellsKept DEF LineInv, C!DeinitClose, C!Snd, C!Keeps, C!locks, C!nodes, C!out, C!uses,
      C!hist
<1>5. RoomInv'
  BY RoomKept DEF LineInv, LineKinds, C!DeinitClose, C!Snd, C!Keeps, C!locks, C!nodes, C!out,
      C!uses, C!hist
<1>6. ToldInv'
  BY LineAssumption DEF LineInv, LineKinds, FreedInv, ToldInv, C!DeinitClose, C!Snd, C!Keeps,
      C!locks, C!nodes, C!out, C!uses, C!hist
<1> QED
  BY <1>1, <1>2, <1>3, <1>4, <1>5, <1>6 DEF LineInv

(* The node is freed.                                                      *)
LEMMA DeinitFreeLine == ASSUME LineInv, C!DeinitFree PROVE LineInv'
<1>1. LineKinds'
  BY LineAssumption DEF LineInv, LineKinds, Places, C!DeinitFree, C!Snd, C!Keeps, C!locks,
      C!nodes, C!out, C!uses, C!hist
<1>2. HeldInv'
  BY LineAssumption DEF LineInv, LineKinds, HeldInv, C!DeinitFree, C!Snd, C!Keeps, C!locks,
      C!nodes, C!out, C!uses, C!hist
<1>3. FreedInv'
  BY LineAssumption DEF LineInv, LineKinds, HeldInv, FreedInv, Taken, C!DeinitFree, C!Snd,
      C!Keeps, C!locks, C!nodes, C!out, C!uses, C!hist
<1>4. CellsInv'
  BY CellsKept DEF LineInv, C!DeinitFree, C!Snd, C!Keeps, C!locks, C!nodes, C!out, C!uses,
      C!hist
<1>5. RoomInv'
  BY RoomKept DEF LineInv, LineKinds, C!DeinitFree, C!Snd, C!Keeps, C!locks, C!nodes, C!out,
      C!uses, C!hist
<1>6. ToldInv'
  BY LineAssumption DEF LineInv, LineKinds, FreedInv, ToldInv, C!DeinitFree, C!Snd, C!Keeps,
      C!locks, C!nodes, C!out, C!uses, C!hist
<1> QED
  BY <1>1, <1>2, <1>3, <1>4, <1>5, <1>6 DEF LineInv

(* The device goes away.                                                   *)
LEMMA DelWorkNodLine == ASSUME LineInv, C!DelWorkNod PROVE LineInv'
<1>1. LineKinds'
  BY LineAssumption DEF LineInv, LineKinds, Places, C!DelWorkNod, C!Poller, C!locks, C!nodes,
      C!out, C!uses, C!hist
<1>2. HeldInv'
  BY LineAssumption DEF LineInv, LineKinds, HeldInv, C!DelWorkNod, C!Poller, C!locks, C!nodes,
      C!out, C!uses, C!hist
<1>3. FreedInv'
  BY LineAssumption DEF LineInv, LineKinds, HeldInv, FreedInv, Taken, C!DelWorkNod, C!Poller,
      C!locks, C!nodes, C!out, C!uses, C!hist
<1>4. CellsInv'
  BY CellsKept DEF LineInv, C!DelWorkNod, C!Poller, C!locks, C!nodes, C!out, C!uses, C!hist
<1>5. RoomInv'
  BY RoomKept DEF LineInv, LineKinds, C!DelWorkNod, C!Poller, C!locks, C!nodes, C!out, C!uses,
      C!hist
<1>6. ToldInv'
  BY LineAssumption DEF LineInv, LineKinds, FreedInv, ToldInv, C!DelWorkNod, C!Poller, C!locks,
      C!nodes, C!out, C!uses, C!hist
<1> QED
  BY <1>1, <1>2, <1>3, <1>4, <1>5, <1>6 DEF LineInv

(* The clients lose the node.                                              *)
LEMMA DevClsLine == ASSUME LineInv, C!DevCls PROVE LineInv'
<1>1. LineKinds'
  BY LineAssumption DEF LineInv, LineKinds, Places, C!DevCls, C!DelRpc, C!SetFree, C!Poller,
      C!locks, C!nodes, C!out, C!uses, C!hist
<1>2. HeldInv'
  BY LineAssumption DEF LineInv, LineKinds, HeldInv, C!DevCls, C!DelRpc, C!SetFree, C!Poller,
      C!locks, C!nodes, C!out, C!uses, C!hist
<1>3. FreedInv'
  BY LineAssumption DEF LineInv, LineKinds, HeldInv, FreedInv, Taken, C!DevCls, C!DelRpc,
      C!SetFree, C!Poller, C!locks, C!nodes, C!out, C!uses, C!hist
<1>4. CellsInv'
  BY CellsKept DEF LineInv, C!DevCls, C!DelRpc, C!SetFree, C!Poller, C!locks, C!nodes, C!out,
      C!uses, C!hist
<1>5. RoomInv'
  BY RoomKept DEF LineInv, LineKinds, C!DevCls, C!DelRpc, C!SetFree, C!Poller, C!locks, C!nodes,
      C!out, C!uses, C!hist
<1>6. ToldInv'
  BY LineAssumption DEF LineInv, LineKinds, FreedInv, ToldInv, C!DevCls, C!DelRpc, C!SetFree,
      C!Poller, C!locks, C!nodes, C!out, C!uses, C!hist
<1> QED
  BY <1>1, <1>2, <1>3, <1>4, <1>5, <1>6 DEF LineInv

(* The removal is over.                                                    *)
LEMMA DelDoneLine == ASSUME LineInv, C!DelDone PROVE LineInv'
<1>1. LineKinds'
  BY LineAssumption DEF LineInv, LineKinds, Places, C!DelDone, C!locks, C!nodes, C!out, C!uses,
      C!hist
<1>2. HeldInv'
  BY LineAssumption DEF LineInv, LineKinds, HeldInv, C!DelDone, C!locks, C!nodes, C!out, C!uses,
      C!hist
<1>3. FreedInv'
  BY LineAssumption DEF LineInv, LineKinds, HeldInv, FreedInv, Taken, C!DelDone, C!locks,
      C!nodes, C!out, C!uses, C!hist
<1>4. CellsInv'
  BY CellsKept DEF LineInv, C!DelDone, C!locks, C!nodes, C!out, C!uses, C!hist
<1>5. RoomInv'
  BY RoomKept DEF LineInv, LineKinds, C!DelDone, C!locks, C!nodes, C!out, C!uses, C!hist
<1>6. ToldInv'
  BY LineAssumption DEF LineInv, LineKinds, FreedInv, ToldInv, C!DelDone, C!locks, C!nodes,
      C!out, C!uses, C!hist
<1> QED
  BY <1>1, <1>2, <1>3, <1>4, <1>5, <1>6 DEF LineInv

(* The send thread is told to stop.                                        *)
LEMMA StopRunningLine == ASSUME LineInv, C!StopRunning PROVE LineInv'
<1>1. LineKinds'
  BY LineAssumption DEF LineInv, LineKinds, Places, C!StopRunning, C!locks, C!nodes, C!out,
      C!uses, C!hist
<1>2. HeldInv'
  BY LineAssumption DEF LineInv, LineKinds, HeldInv, C!StopRunning, C!locks, C!nodes, C!out,
      C!uses, C!hist
<1>3. FreedInv'
  BY LineAssumption DEF LineInv, LineKinds, HeldInv, FreedInv, Taken, C!StopRunning, C!locks,
      C!nodes, C!out, C!uses, C!hist
<1>4. CellsInv'
  BY CellsKept DEF LineInv, C!StopRunning, C!locks, C!nodes, C!out, C!uses, C!hist
<1>5. RoomInv'
  BY RoomKept DEF LineInv, LineKinds, C!StopRunning, C!locks, C!nodes, C!out, C!uses, C!hist
<1>6. ToldInv'
  BY LineAssumption DEF LineInv, LineKinds, FreedInv, ToldInv, C!StopRunning, C!locks, C!nodes,
      C!out, C!uses, C!hist
<1> QED
  BY <1>1, <1>2, <1>3, <1>4, <1>5, <1>6 DEF LineInv

(* Nobody has connected and nothing was typed.                             *)
LEMMA LineInit == C!Init => LineInv
<1>1. SUFFICES ASSUME C!Init
               PROVE  LineInv
  OBVIOUS
<1>2. /\ pc = [c \in Clients |-> "out"] /\ drv = [c \in Clients |-> FALSE]
      /\ head = {} /\ sendbuff = <<>> /\ dev = <<>> /\ typed = 0
  BY <1>1 DEF C!Init
<1>3. LineKinds
  <2>1. pc \in [Clients -> Places] /\ drv \in [Clients -> BOOLEAN]
    BY <1>2 DEF Places
  <2>2. sendbuff \in Seq(Nat) /\ dev \in Seq(Nat) /\ typed \in 0 .. MaxTyped
    BY <1>2, LineAssumption
  <2> QED
    BY <1>1, <1>2, <2>1, <2>2 DEF C!Init, LineKinds
<1>4. HeldInv /\ FreedInv /\ ToldInv
  <2>1. \A c \in Clients : pc[c] = "out" /\ ~ drv[c]
    BY <1>2
  <2> QED
    BY <1>1, <1>2, <2>1 DEF C!Init, HeldInv, FreedInv, Taken, ToldInv
<1>5. CellsInv
  <2>1. DOMAIN dev = {} /\ DOMAIN sendbuff = {} /\ 1 .. typed = {}
    BY <1>2
  <2> QED
    BY <2>1 DEF CellsInv, Rises
<1>6. RoomInv
  <2>1. C!Typing = {} /\ Len(sendbuff) = 0
    BY <1>2 DEF C!Typing
  <2>2. Cardinality({}) = 0
    BY FS_EmptySet
  <2> QED
    BY <1>2, <2>1, <2>2, LineAssumption DEF RoomInv
<1> QED
  BY <1>3, <1>4, <1>5, <1>6 DEF LineInv

(* Nothing changes.                                                        *)
LEMMA LineStutter == ASSUME LineInv, UNCHANGED C!vars PROVE LineInv'
<1>1. LineKinds' /\ HeldInv' /\ FreedInv' /\ ToldInv'
  BY DEF C!vars, C!locks, C!nodes, C!out, C!uses, C!hist, LineInv, LineKinds, HeldInv, FreedInv, Taken,
      ToldInv
<1>2. CellsInv'
  BY CellsKept DEF C!vars, C!out, C!hist, LineInv
<1>3. RoomInv'
  BY RoomKept DEF C!vars, C!out, C!hist, LineInv
<1> QED
  BY <1>1, <1>2, <1>3 DEF LineInv

(* The invariant is inductive.                                             *)
LEMMA LineNext == ASSUME LineInv, [C!Next]_(C!vars) PROVE LineInv'
<1>1. CASE UNCHANGED C!vars
  BY <1>1, LineStutter
<1>2. ASSUME NEW c \in Clients, C!FindNode(c) \/ C!CbRead(c) \/ C!NodeEnd(c) \/ C!Client(c)
      PROVE  LineInv'
  BY <1>2, FindNodeLine, NodStartLine, CbReadLine, CbStoreLine, NotifyOnLine, NodeEndLine,
     EndForgetLine, NotifyEndLine, NodeEndClosedLine DEF C!Client
<1>3. CASE C!RecvFind \/ C!RecvProc
  BY <1>3, RecvFindLine, RecvProcLine
<1>4. CASE C!Send
  BY <1>4, ScanLine, LookLine, MakeEndLine, CountLine, TellCountLine, SendDataLine, DeinitLine,
     DeinitCloseLine, DeinitFreeLine DEF C!Send
<1>5. CASE C!DelWorkNod \/ C!Poll
  BY <1>5, DelWorkNodLine, DevClsLine, DelDoneLine, StopRunningLine DEF C!Poll
<1> QED
  BY <1>1, <1>2, <1>3, <1>4, <1>5 DEF C!Next

(* What follows from it.                                                   *)
LEMMA LineSafe == LineInv => C!CmdLineSafe
<1>1. SUFFICES ASSUME LineInv
               PROVE  C!CmdLineSafe
  OBVIOUS
<1>2. C!TypeOK
  <2>1. Len(sendbuff) <= SendCap
    BY <1>1, LineAssumption, TypingFacts, LenProperties DEF LineInv, LineKinds, RoomInv
  <2> QED
    BY <1>1, <2>1 DEF LineInv, LineKinds, Places, C!TypeOK
<1>3. freed /\ node = "out" /\ C!Sender \notin strayNode =>
        strayNode = {} /\ \A c \in Clients : drv[c] => c \in heldNode
  BY <1>1 DEF LineInv, FreedInv, Taken, C!Sender
<1>4. /\ \A c \in Clients : drv[c] => c \in head \/ pc[c] = "bye"
      /\ head \subseteq {c \in Clients : drv[c]}
  BY <1>1 DEF LineInv, LineKinds, HeldInv
<1>5. \A i, j \in 1 .. Len(dev) : i < j => dev[i] < dev[j]
  BY <1>1 DEF LineInv, LineKinds, CellsInv, Rises
<1>6. SendCap <= SendMax => \A k \in 1 .. typed : k \in C!ToSet(dev) \cup C!ToSet(sendbuff)
  BY <1>1 DEF LineInv, CellsInv, ToSet, C!ToSet
<1>7. ~ client_plug_event /\ ~ missed => (told = C!Cardinality(head) \/ freeflag)
  BY <1>1 DEF LineInv, ToldInv
<1> QED
  BY <1>2, <1>3, <1>4, <1>5, <1>6, <1>7 DEF C!CmdLineSafe

-----------------------------------------------------------------------------
(* The specification MCServer checks.                                      *)

(* A step of one part leaves the variables of the other alone.             *)
LEMMA PartsStep == [PartsNext]_allVars => [Next]_vars /\ [C!Next]_(C!vars)
BY DEF PartsNext, allVars, serverVars, lineVars, vars, C!vars, C!locks, C!nodes, C!out, C!hist, C!uses

(* The inductive invariant of the server.                                  *)
LEMMA ServerAlways == PartsSpec => []ServerInv
<1>1. PartsInit => ServerInv
  BY ServerInit DEF PartsInit
<1>2. ServerInv /\ [PartsNext]_allVars => ServerInv'
  BY PartsStep, ServerNext
<1> QED
  BY <1>1, <1>2, PTL DEF PartsSpec

(* The inductive invariant of the command line.                            *)
LEMMA LineAlways == PartsSpec => []LineInv
<1>1. PartsInit => LineInv
  BY LineInit DEF PartsInit
<1>2. LineInv /\ [PartsNext]_allVars => LineInv'
  BY PartsStep, LineNext
<1> QED
  BY <1>1, <1>2, PTL DEF PartsSpec

(* Who is subscribed is in head_hotplug_cb once and has a live connection, *)
(* and is sent every event from the time it was told so, in their order    *)
(* and none twice (hotplug_rpc.c), whether or not devices go away while    *)
(* others are bound to them.                                               *)
THEOREM SubscribersServedHolds == PartsSpec => []SubscribersServed
<1>1. ServerInv => SubscribersServed
  BY ServerServes
<1> QED
  BY <1>1, ServerAlways, PTL

(* A list of devices that was given out holds each id once, and memory     *)
(* nobody wrote only if a device went away meanwhile (rpc_dev_proc.c); the *)
(* list of a freed device is used only by a connection that had looked the *)
(* device up before it went away (rpc_dev_bind.c).                         *)
THEOREM AnswersAreTrueHolds == PartsSpec => []AnswersAreTrue
<1>1. ServerInv => AnswersAreTrue
  BY ServerTrue
<1> QED
  BY <1>1, ServerAlways, PTL

(* The node of the command line is used after it was freed only by who had *)
(* a pointer to it and no mutex when it let its clients go, unless it was  *)
(* freed in the work list (usb_event_list.c:173); what is typed reaches    *)
(* the device in its order, and the device is told how many clients there  *)
(* are (rpc_cmdline.c).                                                    *)
THEOREM CmdLineSafeHolds == PartsSpec => []CmdLineSafe
<1>1. LineInv => CmdLineSafe
  BY LineSafe DEF CmdLineSafe
<1> QED
  BY <1>1, LineAlways, PTL
=============================================================================
