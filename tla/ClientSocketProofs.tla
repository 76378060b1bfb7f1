------------------------- MODULE ClientSocketProofs -------------------------
(***************************************************************************)
(* A socket in the application, for every number of threads that call it,  *)
(* every size and whatever may happen to it: the session outlives the      *)
(* calls that wait on it, no reader sleeps while there is data, reads      *)
(* return the received bytes in order, and calls their own results.        *)
(***************************************************************************)
EXTENDS ClientSocket, FiniteSetTheorems, SequenceTheorems, TLAPS

-----------------------------------------------------------------------------
(* The inductive invariant.                                                *)

Places == {"connected", "init", "refused", "opened", "listed", "open", "close", "trig",
           "closed", "failed", "idle", "next", "store", "lock", "asleep", "woken", "fault"}
Session == [mem : {"none", "live", "freed"}, is_opened : BOOLEAN, exit_flg : BOOLEAN,
            sockfd : BOOLEAN, rx_rb : Seq(Nat), head : SUBSET Threads, send_seq : Nat]
Handle == [rpcfd : BOOLEAN, bg_running : BOOLEAN, handle_lk : {"free", "rd"}]
Asked == [op : {"open", "write", "query"}, id : Nat, n : Int]
Answer == [op : {"open", "notfound", "write_ret", "write", "query", "read"},
           id : Nat, n : Int, data : Seq(Nat)]
Stored == [id : Nat, n : Int]
Entry == [id : Nat, n : Int, how : {"exit", "done", "timeout"}]

Op == [sta : Int, id : Nat, cpl : Int, cur : Nat]

\* The types, by who writes the variables.
CallsInv ==
  /\ setup \in Setups /\ pc \in [Threads -> Places] /\ fdtab \in BOOLEAN
  /\ op \in [Threads -> Op]
SessionInv == sock \in Session /\ Len(sock.rx_rb) <= BufLen
ThreadInv ==
  /\ hdl \in Handle
  /\ rd \in [pc : {"check", "recv", "proc", "end", "deinit", "exitwait", "free", "over"},
             buf : Seq(Answer)]
  /\ rd.pc = "proc" <=> rd.buf # <<>>
WiresInv ==
  /\ toDaemon \in Seq(Asked) /\ toClient \in Seq(Answer)
  /\ dmn \in [hung : BOOLEAN, opened : BOOLEAN, owed : Seq(Stored), sent : Nat,
              stored : SUBSET Stored]
HistoryInv == got \in Seq(Nat) /\ leaked \subseteq Nat /\ log \in [Writers -> Seq(Entry)]

KindsInv == CallsInv /\ SessionInv /\ ThreadInv /\ WiresInv /\ HistoryInv

\* Who waits is on the list, and the session is there as long as there is
\* someone on it or close has its lock, but for those that came late.
WaitingInv ==
  /\ \A t \in Threads :
       /\ pc[t] \in {"asleep", "woken"} => t \in sock.head
       /\ t \in sock.head => pc[t] \in {"asleep", "woken"} \/ sock.mem = "freed"
       /\ pc[t] = "trig" => t = Main
  /\ sock.mem = "none" => sock.head = {} /\ pc[Main] # "trig"
  /\ rd.pc \in {"deinit", "exitwait", "free"} => sock.exit_flg /\ sock.mem = "live"
  /\ sock.mem = "freed" => sock.exit_flg /\ rd.pc = "over"
  /\ late \subseteq {Main}
  /\ rd.pc = "free" \/ sock.mem = "freed" =>
       sock.head \subseteq late /\ (pc[Main] = "trig" => Main \in late)

\* A reader sleeps on the empty ring.
SleepInv == \A r \in Readers : pc[r] = "asleep" => sock.rx_rb = <<>>

\* Nobody calls before the socket is open, and it is open because the daemon
\* said so.
Opening == pc[Main] \in {"connected", "init", "asleep", "woken", "refused", "opened", "listed",
                         "failed"}
CalmInv ==
  /\ Opening => ~ sock.is_opened /\ \A t \in Callers : pc[t] = "idle"
  /\ ~ sock.is_opened => sock.rx_rb = <<>>
OpenedInv ==
  /\ pc[Main] = "woken" =>
       sock.exit_flg \/ op[Main].sta # 0 \/ dmn.opened \/ May("spurious")
  /\ pc[Main] \in {"opened", "listed", "open", "close", "trig", "closed"} =>
       dmn.opened \/ May("spurious")

\* What the daemon says it did, it did.
Arriving == ToSet(rd.buf) \cup ToSet(toClient)
MessagesInv == \A m \in Arriving :
  /\ m.op = "open" /\ m.n = 0 => dmn.opened
  /\ m.op = "write_ret" => [id |-> m.id, n |-> m.n] \in dmn.stored

\* The received bytes: those that were read, are in the ring or were dropped,
\* those the read thread has, and those on the way, in this order.
Seen == ToSet(got \o sock.rx_rb) \cup leaked
Increasing(s) == \A i, j \in DOMAIN s : i < j => s[i] < s[j]
Bytes(q) == UNION {ToSet(q[k].data) : k \in DOMAIN q}
Before(S, T) == \A a \in S, b \in T : a < b
InOrder(q) ==
  /\ \A k \in DOMAIN q : Increasing(q[k].data)
  /\ \A j, k \in DOMAIN q : j < k => Before(ToSet(q[j].data), ToSet(q[k].data))
FromOne(S) == \A b \in S : 1 .. b \subseteq S

BytesInv ==
  /\ Increasing(got \o sock.rx_rb) /\ InOrder(rd.buf)
  /\ Before(Seen, Bytes(rd.buf)) /\ FromOne(Seen \cup Bytes(rd.buf))
  /\ hdl.rpcfd =>
       /\ InOrder(toClient) /\ Before(Seen \cup Bytes(rd.buf), Bytes(toClient))
       /\ Seen \cup Bytes(rd.buf) \cup Bytes(toClient) = 1 .. dmn.sent

\* What a message that timed out reports was stored.
StoredInv ==
  /\ ToSet(dmn.owed) \subseteq dmn.stored
  /\ \A w \in Writers : op[w].cpl = 0 \/ [id |-> op[w].id, n |-> op[w].cpl] \in dmn.stored
  /\ \A w \in Writers : \A i \in DOMAIN log[w] :
       log[w][i].how = "timeout" =>
         log[w][i].n = 0 \/ [id |-> log[w][i].id, n |-> log[w][i].n] \in dmn.stored

\* One thread writes: the numbers of its messages.
Alone(w) == setup.callers \cap Writers = {w}
Sending == {"lock", "asleep", "woken"}
Numbered(w) ==
  /\ \A v \in Writers \ {w} : pc[v] = "idle" /\ log[v] = <<>>
  /\ pc[w] = "store" => op[w].id = sock.send_seq
  /\ pc[w] \in Sending => sock.send_seq = op[w].id + 1
  /\ \A i \in DOMAIN log[w] :
       /\ log[w][i].id < sock.send_seq
       /\ pc[w] \in Sending => log[w][i].id < op[w].id
NumbersInv == \A w \in Writers : Alone(w) => Numbered(w)

\* The results of a call are reset before its message is sent.
FreshInv == \A w \in Writers : pc[w] \in {"store", "lock"} => op[w].sta = 0

\* The writes on their way to the daemon, and the ends of writes on their way
\* back.
NoWrites(q) == \A m \in ToSet(q) : m.op # "write"
Single(q) == \A j, k \in DOMAIN q : q[j].op = "write" /\ q[k].op = "write" => j = k

\* A message that ended with its own result is settled: nothing that is under
\* way is of it.
Settled(e) ==
  /\ [id |-> e.id, n |-> e.n] \in dmn.stored
  /\ \A m \in ToSet(toDaemon) : m.op = "write" => e.id < m.id
  /\ \A m \in ToSet(dmn.owed) : e.id < m.id
SettledInv == \A w \in Writers : Alone(w) => \A i \in DOMAIN log[w] :
  log[w][i].how = "done" /\ InStep(w, i) => Settled(log[w][i])

\* While no message timed out, at most one thing is under way, and it is of
\* the message the writer waits for.
Waits(w) == pc[w] \in {"asleep", "woken"}
NoTimeout(w) == \A i \in DOMAIN log[w] : log[w][i].how # "timeout"
Stores(w, n) == [id |-> op[w].id, n |-> n] \in dmn.stored

AsksOne(w) ==
  /\ Single(toDaemon)
  /\ NoWrites(toDaemon) \/ (dmn.owed = <<>> /\ Waits(w))
  /\ \A m \in ToSet(toDaemon) : m.op = "write" => m.id = op[w].id
OwesOne(w) ==
  /\ Len(dmn.owed) <= 1
  /\ dmn.owed = <<>> \/ Waits(w)
  /\ \A m \in ToSet(dmn.owed) : m.id = op[w].id
EndsOne(w, q) ==
  /\ Single(q)
  /\ NoWrites(q) \/ (NoWrites(toDaemon) /\ dmn.owed = <<>> /\ Waits(w))
  /\ \A m \in ToSet(q) : m.op = "write" => Stores(w, m.n)
Ended(w) == Waits(w) /\ op[w].sta # 0
UnderWay(w) ==
  /\ AsksOne(w) /\ OwesOne(w) /\ EndsOne(w, rd.buf) /\ EndsOne(w, toClient)
  /\ NoWrites(rd.buf) \/ NoWrites(toClient)
  /\ Ended(w) =>
       /\ NoWrites(toDaemon) /\ dmn.owed = <<>>
       /\ NoWrites(rd.buf) /\ NoWrites(toClient)
       /\ Stores(w, op[w].sta)

UnderWayInv == \A w \in Writers :
  Alone(w) /\ NoTimeout(w) /\ ~ sock.exit_flg => UnderWay(w)

IInv == /\ KindsInv /\ WaitingInv /\ SleepInv /\ CalmInv /\ OpenedInv
        /\ MessagesInv /\ BytesInv /\ StoredInv /\ NumbersInv /\ FreshInv
        /\ SettledInv /\ UnderWayInv

-----------------------------------------------------------------------------
(* Sequences.                                                              *)

(* The first of a queue and the rest of it.                                *)
LEMMA QueueFacts ==
  ASSUME NEW T, NEW q \in Seq(T), q # <<>>
  PROVE  /\ Head(q) \in T /\ Tail(q) \in Seq(T) /\ ToSet(q) = {Head(q)} \cup ToSet(Tail(q))
         /\ Len(Tail(q)) = Len(q) - 1 /\ Len(q) \in Nat \ {0}
<1>1. /\ Head(q) \in T /\ Head(q) = q[1] /\ 1 \in DOMAIN q
      /\ Tail(q) \in Seq(T) /\ Len(Tail(q)) = Len(q) - 1 /\ Len(q) \in Nat \ {0}
      /\ \A k \in DOMAIN Tail(q) : k + 1 \in DOMAIN q /\ Tail(q)[k] = q[k + 1]
      /\ \A k \in DOMAIN q : k = 1 \/ (k - 1 \in DOMAIN Tail(q) /\ Tail(q)[k - 1] = q[k])
  OBVIOUS
<1>2. ASSUME NEW x \in ToSet(q) PROVE x = Head(q) \/ x \in ToSet(Tail(q))
  BY <1>1 DEF ToSet
<1>3. ASSUME NEW x \in ToSet(Tail(q)) PROVE x \in ToSet(q)
  BY <1>1 DEF ToSet
<1>4. Head(q) \in ToSet(q)
  BY <1>1 DEF ToSet
<1> QED
  BY <1>1, <1>2, <1>3, <1>4

(* A queue with one packet more.                                           *)
LEMMA AppendFacts ==
  ASSUME NEW T, NEW q \in Seq(T), NEW x \in T
  PROVE  /\ Append(q, x) \in Seq(T) /\ ToSet(Append(q, x)) = ToSet(q) \cup {x}
         /\ Len(Append(q, x)) = Len(q) + 1 /\ Append(q, x) # <<>>
<1>1. /\ Append(q, x) \in Seq(T) /\ Len(Append(q, x)) = Len(q) + 1
      /\ Len(q) + 1 \in DOMAIN Append(q, x) /\ Append(q, x)[Len(q) + 1] = x
      /\ \A k \in DOMAIN q : k \in DOMAIN Append(q, x) /\ Append(q, x)[k] = q[k]
      /\ \A k \in DOMAIN Append(q, x) : k = Len(q) + 1 \/ k \in DOMAIN q
  OBVIOUS
<1>2. ASSUME NEW y \in ToSet(Append(q, x)) PROVE y = x \/ y \in ToSet(q)
  BY <1>1 DEF ToSet
<1>3. ASSUME NEW y \in ToSet(q) PROVE y \in ToSet(Append(q, x))
  BY <1>1 DEF ToSet
<1>4. x \in ToSet(Append(q, x))
  BY <1>1 DEF ToSet
<1> QED
  BY <1>1, <1>2, <1>3, <1>4

(* The same, whatever is appended.                                         *)
LEMMA PlainAppend ==
  ASSUME NEW T, NEW q \in Seq(T), NEW x
  PROVE  ToSet(Append(q, x)) = ToSet(q) \cup {x}
<1>1. q \in Seq(T \cup {x}) /\ x \in T \cup {x}
  OBVIOUS
<1> QED
  BY <1>1, AppendFacts

(* The elements of a sequence.                                             *)
LEMMA Elements ==
  ASSUME NEW T, NEW q \in Seq(T)
  PROVE  /\ ToSet(q) \subseteq T
         /\ \A i \in DOMAIN q : q[i] \in T /\ q[i] \in ToSet(q)
<1> QED
  BY DEF ToSet

(* Nothing is in the empty sequence.                                       *)
LEMMA EmptyFacts == (\A T : <<>> \in Seq(T)) /\ Len(<<>>) = 0 /\ ToSet(<<>>) = {}
<1> QED
  BY DEF ToSet

(* The two parts of a sequence, and what a part has in it.                 *)
LEMMA PartFacts ==
  ASSUME NEW T, NEW q \in Seq(T), NEW n \in 0 .. Len(q)
  PROVE  /\ SubSeq(q, 1, n) \in Seq(T) /\ Len(SubSeq(q, 1, n)) = n
         /\ SubSeq(q, n + 1, Len(q)) \in Seq(T) /\ Len(SubSeq(q, n + 1, Len(q))) = Len(q) - n
         /\ \A i \in 1 .. n : SubSeq(q, 1, n)[i] = q[i]
         /\ \A i \in 1 .. Len(q) - n : SubSeq(q, n + 1, Len(q))[i] = q[n + i]
         /\ ToSet(q) = ToSet(SubSeq(q, 1, n)) \cup ToSet(SubSeq(q, n + 1, Len(q)))
<1> DEFINE a == SubSeq(q, 1, n)
           b == SubSeq(q, n + 1, Len(q))
<1>1. /\ Len(q) \in Nat /\ n \in Nat /\ n <= Len(q) /\ DOMAIN q = 1 .. Len(q)
      /\ a \in Seq(T) /\ Len(a) = n /\ \A i \in 1 .. n : a[i] = q[i]
  OBVIOUS
<1>2. /\ b \in Seq(T) /\ Len(b) = Len(q) - n /\ \A i \in 1 .. Len(q) - n : b[i] = q[n + i]
  <2>1. \A i \in n + 1 .. Len(q) : q[i] \in T
    BY <1>1
  <2> DEFINE c == n + 1
  <2>2. c \in Int /\ Len(q) \in Int /\ Len(q) - c + 1 = Len(q) - n
          /\ (c <= Len(q) <=> n < Len(q))
        /\ \A i \in 1 .. Len(q) - n : c + i - 1 = n + i
    BY <1>1
  <2>3. b = SubSeq(q, c, Len(q)) /\ \A i \in c .. Len(q) : q[i] \in T
    BY <2>1
  <2> HIDE DEF b, c
  <2>4. /\ SubSeq(q, c, Len(q)) \in Seq(T)
        /\ Len(SubSeq(q, c, Len(q))) = IF c <= Len(q) THEN Len(q) - c + 1 ELSE 0
        /\ \A i \in 1 .. Len(q) - c + 1 : SubSeq(q, c, Len(q))[i] = q[c + i - 1]
    BY <2>2, <2>3, SubSeqProperties
  <2>5. (IF c <= Len(q) THEN Len(q) - c + 1 ELSE 0) = Len(q) - n
    <3>1. CASE n < Len(q)
      BY <2>2, <3>1
    <3>2. CASE n = Len(q)
      <4>1. ~ (c <= Len(q)) /\ Len(q) - n = 0
        BY <1>1, <2>2, <3>2
      <4> QED
        BY <4>1
    <3>3. n < Len(q) \/ n = Len(q)
      BY ONLY n \in 0 .. Len(q), Len(q) \in Nat
    <3> QED
      BY ONLY <3>1, <3>2, <3>3
  <2> QED
    BY <2>2, <2>3, <2>4, <2>5
<1> HIDE DEF a, b
<1>3. ASSUME NEW x \in ToSet(q) PROVE x \in ToSet(a) \cup ToSet(b)
  <2>1. PICK k \in 1 .. Len(q) : q[k] = x
    BY <1>1 DEF ToSet
  <2>2. CASE k <= n
    BY <1>1, <2>1, <2>2 DEF ToSet
  <2>3. CASE k > n
    <3>1. k - n \in 1 .. Len(q) - n /\ n + (k - n) = k
      BY <1>1, <2>1, <2>3
    <3>2. k - n \in DOMAIN b /\ b[k - n] = x
      BY <1>2, <2>1, <3>1
    <3> QED
      BY <3>2 DEF ToSet
  <2> QED
    BY <1>1, <2>1, <2>2, <2>3
<1>4. ASSUME NEW x \in ToSet(a) PROVE x \in ToSet(q)
  <2>1. PICK k \in 1 .. n : a[k] = x
    BY <1>1, <1>4 DEF ToSet
  <2>2. k \in DOMAIN q /\ q[k] = x
    BY <1>1, <2>1
  <2> QED
    BY <2>2 DEF ToSet
<1>5. ASSUME NEW x \in ToSet(b) PROVE x \in ToSet(q)
  <2>1. PICK k \in 1 .. Len(q) - n : b[k] = x
    BY <1>2, <1>5 DEF ToSet
  <2>2. n + k \in DOMAIN q /\ q[n + k] = x
    BY <1>1, <1>2, <2>1
  <2> QED
    BY <2>2 DEF ToSet
<1> QED
  BY <1>1, <1>2, <1>3, <1>4, <1>5 DEF a, b

-----------------------------------------------------------------------------
(* Types.                                                                  *)

(* Threads.                                                                *)
LEMMA ThreadFacts ==
  /\ Main \in Threads /\ Callers \subseteq Threads
  /\ Writers \subseteq Callers /\ Readers \subseteq Callers /\ Queriers \subseteq Callers
  /\ Main \notin Callers
  /\ \A t \in Callers : /\ t \in Writers => t \notin Readers /\ t \notin Queriers
                        /\ t \in Readers => t \notin Queriers
<1> QED
  BY ThreadsAssumption DEF Threads, Callers

(* The changes of a call's results.                                        *)
LEMMA OpUpdates ==
  ASSUME NEW o \in Op, NEW i \in Nat, NEW n \in Int
  PROVE  /\ [o EXCEPT !.id = i, !.sta = 0, !.cpl = 0] \in Op
         /\ [o EXCEPT !.sta = n] \in Op /\ [o EXCEPT !.cpl = n] \in Op
         /\ [o EXCEPT !.cur = i] \in Op
<1>1. [o EXCEPT !.id = i, !.sta = 0, !.cpl = 0] \in Op
  <2>1. 0 \in Int
    OBVIOUS
  <2> QED
    BY <2>1 DEF Op
<1>2. [o EXCEPT !.sta = n] \in Op
  BY DEF Op
<1>3. [o EXCEPT !.cpl = n] \in Op
  BY DEF Op
<1>4. [o EXCEPT !.cur = i] \in Op
  BY DEF Op
<1> QED
  BY <1>1, <1>2, <1>3, <1>4

(* One call's results change.                                              *)
LEMMA OneOp ==
  ASSUME NEW f \in [Threads -> Op], NEW t \in Threads, NEW o \in Op
  PROVE  [f EXCEPT ![t] = o] \in [Threads -> Op]
<1> QED
  OBVIOUS

(* What a waiting thread takes from a message.                             *)
LEMMA TakesFacts ==
  ASSUME CallsInv, NEW t \in Threads, NEW m \in Answer
  PROVE  /\ Takes(t, m) \in Op /\ Takes(t, m).id = op[t].id /\ Takes(t, m).cur = op[t].cur
         /\ Takes(t, m).sta = op[t].sta
              \/ (t = Main /\ m.op = "open" /\ Takes(t, m).sta = m.n)
              \/ (t \in Queriers /\ m.op = "query")
              \/ (t \in Writers /\ m.op = "write" /\ Takes(t, m).sta = m.n)
         /\ Takes(t, m).cpl = op[t].cpl
              \/ (t \in Writers /\ m.op = "write_ret" /\ m.id = op[t].id /\ Takes(t,
              m).cpl = m.n)
<1>1. op[t] \in Op /\ m.n \in Int
  BY DEF CallsInv, Answer
<1> QED
  BY <1>1 DEF Takes, Op

(* The changes of the session.                                             *)
LEMMA SessionUpdates ==
  ASSUME sock \in Session, NEW H \in SUBSET Threads, NEW rb \in Seq(Nat), NEW k \in Nat
  PROVE  /\ [sock EXCEPT !.head = H] \in Session
         /\ [sock EXCEPT !.rx_rb = rb] \in Session
         /\ [sock EXCEPT !.head = H, !.rx_rb = rb] \in Session
         /\ [sock EXCEPT !.send_seq = k] \in Session
         /\ [sock EXCEPT !.rx_rb = rb, !.sockfd = TRUE, !.is_opened = TRUE] \in Session
<1>1. [sock EXCEPT !.head = H] \in Session
  BY DEF Session
<1>2. [sock EXCEPT !.rx_rb = rb] \in Session
  BY DEF Session
<1>3. [sock EXCEPT !.head = H, !.rx_rb = rb] \in Session
  BY DEF Session
<1>4. [sock EXCEPT !.send_seq = k] \in Session
  BY DEF Session
<1>5. [sock EXCEPT !.rx_rb = rb, !.sockfd = TRUE, !.is_opened = TRUE] \in Session
  BY DEF Session
<1> QED
  BY <1>1, <1>2, <1>3, <1>4, <1>5

(* Sleeping and leaving.                                                   *)
LEMMA LeaveFacts ==
  ASSUME KindsInv, NEW t \in Threads, Leave(t)
  PROVE  /\ sock' = [sock EXCEPT !.head = sock.head \ {t}] /\ sock' \in Session
         /\ ThreadInv' \/ hdl' # hdl
         /\ rd'.buf = rd.buf
<1>1. sock \in Session /\ sock.head \ {t} \in SUBSET Threads
  BY DEF KindsInv, SessionInv, Session
<1>2. sock' = [sock EXCEPT !.head = sock.head \ {t}] /\ sock' \in Session
  BY <1>1, SessionUpdates, EmptyFacts DEF Leave
<1>3. rd' = rd \/ (rd.pc = "exitwait" /\ rd' = [rd EXCEPT !.pc = "deinit"])
  BY DEF Leave, LeaveTells
<1> QED
  BY <1>2, <1>3 DEF KindsInv, ThreadInv

(* A thread goes to sleep on the list.                                     *)
LEMMA SleepFacts ==
  ASSUME KindsInv, NEW t \in Threads, Sleep(t)
  PROVE  /\ sock' = [sock EXCEPT !.head = sock.head \cup {t}] /\ sock' \in Session
         /\ pc' = [pc EXCEPT ![t] = "asleep"] /\ rd' = rd
<1>1. sock \in Session /\ sock.head \cup {t} \in SUBSET Threads
  BY DEF KindsInv, SessionInv, Session
<1> QED
  BY <1>1, SessionUpdates, EmptyFacts DEF Sleep, Go

(* A message that ends.                                                    *)
LEMMA EndFacts ==
  ASSUME KindsInv, NEW w \in Writers, NEW n \in Int, NEW how \in {"exit", "done", "timeout"},
         WriteEnd(w, n, how)
  PROVE  /\ sock' = [sock EXCEPT !.head = sock.head \ {w}] /\ sock' \in Session
         /\ ThreadInv' \/ hdl' # hdl
         /\ rd'.buf = rd.buf
         /\ log' = [log EXCEPT ![w] = Append(log[w], [id |-> op[w].id, n |-> n, how |-> how])]
         /\ log' \in [Writers -> Seq(Entry)]
         /\ op' \in [Threads -> Op]
         /\ \A t \in Threads : op'[t].id = op[t].id /\ op'[t].sta = op[t].sta
                                /\ op'[t].cpl = op[t].cpl
         /\ pc' = [pc EXCEPT ![w] = pc'[w]] /\ pc'[w] \in {"next", "idle"}
<1>1. w \in Threads /\ op \in [Threads -> Op] /\ op[w] \in Op
  BY ThreadFacts DEF KindsInv, CallsInv
<1>2. Leave(w)
  BY DEF WriteEnd
<1>3. [id |-> op[w].id, n |-> n, how |-> how] \in Entry
  BY <1>1 DEF Op, Entry
<1>4. log' = [log EXCEPT ![w] = Append(log[w], [id |-> op[w].id, n |-> n, how |-> how])]
  BY DEF WriteEnd
<1>5. log' \in [Writers -> Seq(Entry)]
  BY <1>3, <1>4, AppendFacts DEF KindsInv, HistoryInv
<1>6. PICK c \in Nat : op' = [op EXCEPT ![w].cur = c]
  <2>1. op[w].cur \in Nat /\ (n >= 0 => op[w].cur + n \in Nat)
    BY <1>1 DEF Op
  <2>2. op' = [op EXCEPT ![w].cur = IF n < 0 THEN op[w].cur ELSE op[w].cur + n]
    BY DEF WriteEnd
  <2>3. (IF n < 0 THEN op[w].cur ELSE op[w].cur + n) \in Nat
    BY <2>1
  <2> QED
    BY <2>2, <2>3
<1>7. op' \in [Threads -> Op]
  BY <1>1, <1>6, OpUpdates, OneOp
<1>8. \A t \in Threads : op'[t].id = op[t].id /\ op'[t].sta = op[t].sta
                         /\ op'[t].cpl = op[t].cpl
  BY <1>1, <1>6 DEF Op
<1>9. pc' = [pc EXCEPT ![w] = pc'[w]] /\ pc'[w] \in {"next", "idle"}
  BY <1>1 DEF WriteEnd, Go, KindsInv, CallsInv
<1> QED
  BY <1>1, <1>2, <1>4, <1>5, <1>7, <1>8, <1>9, LeaveFacts

(* What is sent to the daemon.                                             *)
LEMMA SendFacts ==
  ASSUME KindsInv, NEW m \in Asked, Send(m)
  PROVE  /\ toDaemon' \in Seq(Asked)
         /\ toDaemon' = toDaemon \/ toDaemon' = Append(toDaemon, m)
<1> QED
  BY AppendFacts DEF KindsInv, WiresInv, Send

(* so_rpc_cb: a message reaches the session.                               *)
LEMMA ProcFacts ==
  ASSUME KindsInv, RdProc
  PROVE  /\ Head(rd.buf) \in Answer /\ rd.buf # <<>> /\ SomtxFree
         /\ \E n \in 0 .. Len(Head(rd.buf).data) :
              /\ Len(sock.rx_rb) + n <= BufLen
              /\ sock.is_opened \/ n = 0
              /\ sock' = [sock EXCEPT !.rx_rb =
                            sock.rx_rb \o SubSeq(Head(rd.buf).data, 1, n)]
              /\ leaked' = leaked \cup
                   ToSet(SubSeq(Head(rd.buf).data, n + 1, Len(Head(rd.buf).data)))
              /\ n = 0 => sock' = sock
         /\ sock' \in Session /\ Len(sock'.rx_rb) <= BufLen /\ sock'.head = sock.head
         /\ sock'.mem = sock.mem /\ sock'.exit_flg = sock.exit_flg
         /\ sock'.is_opened = sock.is_opened /\ sock'.send_seq = sock.send_seq
         /\ leaked' \subseteq Nat
         /\ op' = [t \in Threads |->
                     IF t \in sock.head THEN Takes(t, Head(rd.buf)) ELSE op[t]]
         /\ op' \in [Threads -> Op]
         /\ \/ pc' = Woken
            \/ pc' = pc /\ \A t \in sock.head : ~ Wakes(t, Head(rd.buf), sock'.rx_rb)
         /\ rd'.buf = Tail(rd.buf) /\ rd'.buf \in Seq(Answer)
         /\ rd'.pc \in {"check", "proc"} /\ (rd'.pc = "proc" <=> rd'.buf # <<>>)
         /\ rd' = [pc |-> rd'.pc, buf |-> Tail(rd.buf)]
<1> DEFINE m == Head(rd.buf)
           n == IF sock.is_opened THEN Least(BufLen - Len(sock.rx_rb), Len(m.data)) ELSE 0
           a == SubSeq(m.data, 1, n)
           b == SubSeq(m.data, n + 1, Len(m.data))
<1>1. rd.buf \in Seq(Answer) /\ rd.buf # <<>> /\ SomtxFree
  BY DEF KindsInv, ThreadInv, RdProc
<1>2. m \in Answer /\ m.data \in Seq(Nat) /\ Len(m.data) \in Nat
  <2>1. m \in Answer
    BY <1>1, QueueFacts
  <2> HIDE DEF m
  <2> QED
    BY <2>1 DEF Answer
<1>3. sock \in Session /\ sock.rx_rb \in Seq(Nat) /\ Len(sock.rx_rb) \in 0 .. BufLen
  BY DEF KindsInv, SessionInv, Session
<1>4. /\ n \in 0 .. Len(m.data) /\ Len(sock.rx_rb) + n <= BufLen /\ (sock.is_opened \/ n = 0)
  <2> HIDE DEF m
  <2>1. BufLen \in Nat
    BY SizesAssumption
  <2>2. BufLen - Len(sock.rx_rb) \in Nat
    BY ONLY <1>3, <2>1
  <2>3. CASE sock.is_opened
    <3>1. n = Least(BufLen - Len(sock.rx_rb), Len(m.data))
      BY <2>3
    <3> HIDE DEF n
    <3>2. n \in 0 .. Len(m.data) /\ n <= BufLen - Len(sock.rx_rb)
      BY ONLY <1>2, <2>2, <3>1 DEF Least
    <3> QED
      BY <1>3, <2>1, <2>3, <3>2
  <2>4. CASE ~ sock.is_opened
    BY <1>2, <1>3, <2>4
  <2> QED
    BY <2>3, <2>4
<1>5. /\ sock' = [sock EXCEPT !.rx_rb = sock.rx_rb \o a]
      /\ leaked' = leaked \cup ToSet(b)
      /\ op' = [t \in Threads |-> IF t \in sock.head THEN Takes(t, m) ELSE op[t]]
      /\ pc' = IF \E t \in sock.head : Wakes(t, m, sock.rx_rb \o a) THEN Woken ELSE pc
      /\ rd' = [pc |-> IF Len(rd.buf) = 1 THEN "check" ELSE "proc", buf |-> Tail(rd.buf)]
  BY DEF RdProc, RpcCb
<1> HIDE DEF m, n
<1>6. a \in Seq(Nat) /\ Len(a) = n /\ b \in Seq(Nat) /\ ToSet(b) \subseteq Nat
  <2>1. /\ SubSeq(m.data, 1, n) \in Seq(Nat) /\ Len(SubSeq(m.data, 1, n)) = n
        /\ SubSeq(m.data, n + 1, Len(m.data)) \in Seq(Nat)
    BY ONLY <1>2, <1>4, PartFacts
  <2> HIDE DEF a, b
  <2>2. a \in Seq(Nat) /\ Len(a) = n /\ b \in Seq(Nat)
    BY <2>1 DEF a, b
  <2> QED
    BY <2>2, Elements
<1> HIDE DEF a, b
<1>7. n = 0 => a = <<>>
  BY <1>6
<1>8. /\ sock.rx_rb \o a \in Seq(Nat) /\ Len(sock.rx_rb \o a) = Len(sock.rx_rb) + n
      /\ n = 0 => sock.rx_rb \o a = sock.rx_rb
  <2>1. sock.rx_rb \o a \in Seq(Nat) /\ Len(sock.rx_rb \o a) = Len(sock.rx_rb) + Len(a)
    BY ONLY <1>3, <1>6, ConcatProperties
  <2>2. sock.rx_rb \o <<>> = sock.rx_rb
    BY <1>3
  <2> QED
    BY <1>6, <1>7, <2>1, <2>2
<1>9. /\ sock' \in Session /\ sock'.rx_rb = sock.rx_rb \o a
  <2>1. [sock EXCEPT !.rx_rb = sock.rx_rb \o a] \in Session
    BY <1>3, <1>8, EmptyFacts, SessionUpdates
  <2> QED
    BY <2>1, <1>3, <1>5 DEF Session
<1>10. /\ sock'.head = sock.head /\ sock'.mem = sock.mem /\ sock'.exit_flg = sock.exit_flg
       /\ sock'.is_opened = sock.is_opened /\ sock'.send_seq = sock.send_seq
       /\ n = 0 => sock' = sock
  BY <1>3, <1>5, <1>8 DEF Session
<1>11. Len(sock'.rx_rb) <= BufLen
  BY <1>4, <1>8, <1>9
<1>12. leaked' \subseteq Nat
  BY <1>5, <1>6 DEF KindsInv, HistoryInv
<1>13. op' \in [Threads -> Op]
  BY <1>2, <1>5, TakesFacts DEF KindsInv, CallsInv
<1>14. \/ pc' = Woken
       \/ pc' = pc /\ \A t \in sock.head : ~ Wakes(t, m, sock'.rx_rb)
  BY <1>5, <1>9
<1>15. /\ Tail(rd.buf) \in Seq(Answer) /\ Len(Tail(rd.buf)) = Len(rd.buf) - 1
       /\ Len(rd.buf) \in Nat \ {0} /\ (Len(rd.buf) = 1 <=> Tail(rd.buf) = <<>>)
  <2>1. /\ Tail(rd.buf) \in Seq(Answer) /\ Len(Tail(rd.buf)) = Len(rd.buf) - 1
        /\ Len(rd.buf) \in Nat \ {0}
    BY <1>1, QueueFacts
  <2>2. Len(Tail(rd.buf)) = 0 <=> Tail(rd.buf) = <<>>
    BY ONLY <2>1, EmptySeq
  <2> QED
    BY <2>1, <2>2
<1>16. /\ rd'.buf = Tail(rd.buf) /\ rd'.buf \in Seq(Answer)
       /\ rd'.pc \in {"check", "proc"} /\ (rd'.pc = "proc" <=> rd'.buf # <<>>)
       /\ rd' = [pc |-> rd'.pc, buf |-> Tail(rd.buf)]
  BY <1>5, <1>15
<1> QED
  BY <1>1, <1>2, <1>4, <1>5, <1>9, <1>10, <1>11, <1>12, <1>13, <1>14, <1>16 DEF m, a, b

(* The ways in which a message ends.                                       *)
EndsWith(w, n, how) ==
  \/ how = "exit" /\ n = -1 /\ sock.exit_flg
  \/ how = "done" /\ n = op[w].sta /\ n # 0 /\ ~ sock.exit_flg /\ pc[w] = "woken"
  \/ how = "timeout" /\ n = op[w].cpl /\ pc[w] \in {"asleep", "woken"}

(* A message faults, sleeps on, or ends in one of the three ways.          *)
LEMMA WriteEnds ==
  ASSUME KindsInv, NEW w \in Writers, WriteSend(w) \/ WriteWake(w) \/ WriteTimeout(w)
  PROVE  \/ Fault(w) /\ WriteSend(w) /\ UNCHANGED <<log, op>>
         \/ Sleep(w) /\ UNCHANGED <<log, op>>
         \/ \E n \in Int, how \in {"exit", "done", "timeout"} :
              WriteEnd(w, n, how) /\ EndsWith(w, n, how)
<1>1. w \in Threads /\ op[w].sta \in Int /\ op[w].cpl \in Int
  BY ThreadFacts DEF KindsInv, CallsInv, Op
<1>2. CASE WriteSend(w)
  <2>1. CASE WriteEnd(w, -1, "exit") /\ sock.exit_flg
    <3>1. WriteEnd(w, -1, "exit") /\ EndsWith(w, -1, "exit")
      BY <2>1 DEF EndsWith
    <3> QED
      BY <3>1
  <2> QED
    BY <1>2, <2>1 DEF WriteSend, Fault
<1>3. CASE WriteWake(w)
  <2>1. CASE WriteEnd(w, -1, "exit") /\ sock.exit_flg
    <3>1. WriteEnd(w, -1, "exit") /\ EndsWith(w, -1, "exit")
      BY <2>1 DEF EndsWith
    <3> QED
      BY <3>1
  <2>2. CASE WriteEnd(w, op[w].sta, "done") /\ ~ sock.exit_flg /\ op[w].sta # 0
    <3>1. WriteEnd(w, op[w].sta, "done") /\ EndsWith(w, op[w].sta, "done")
      BY <1>3, <2>2 DEF WriteWake, EndsWith
    <3> QED
      BY <1>1, <3>1
  <2> QED
    BY <1>3, <2>1, <2>2 DEF WriteWake
<1>4. CASE WriteTimeout(w)
  <2>1. WriteEnd(w, op[w].cpl, "timeout") /\ EndsWith(w, op[w].cpl, "timeout")
    BY <1>4 DEF WriteTimeout, EndsWith
  <2> QED
    BY <1>1, <2>1
<1> QED
  BY <1>2, <1>3, <1>4

(* A log that has one entry more.                                          *)
LogKept == \A v \in Writers : \A i \in DOMAIN log[v] :
  i \in DOMAIN log'[v] /\ log'[v][i] = log[v][i]
LogGrows(w, n, how) ==
  \A v \in Writers : \A i \in DOMAIN log'[v] :
    \/ i \in DOMAIN log[v] /\ log'[v][i] = log[v][i]
    \/ /\ v = w /\ i = Len(log[w]) + 1
       /\ log'[v][i].id = op[w].id /\ log'[v][i].n = n /\ log'[v][i].how = how

(* A message that ends is the next entry of the log of its writer.         *)
LEMMA LogFacts ==
  ASSUME KindsInv, NEW w \in Writers, NEW n \in Int, NEW how \in {"exit", "done", "timeout"},
         WriteEnd(w, n, how)
  PROVE  /\ \A v \in Writers \ {w} : log'[v] = log[v]
         /\ Len(log[w]) \in Nat /\ DOMAIN log[w] = 1 .. Len(log[w])
         /\ DOMAIN log'[w] = 1 .. Len(log[w]) + 1
         /\ \A i \in DOMAIN log[w] : log'[w][i] = log[w][i]
         /\ log'[w][Len(log[w]) + 1] = [id |-> op[w].id, n |-> n, how |-> how]
         /\ LogGrows(w, n, how) /\ LogKept
<1>1. log \in [Writers -> Seq(Entry)] /\ log[w] \in Seq(Entry)
  BY DEF KindsInv, HistoryInv
<1>2. log' = [log EXCEPT ![w] = Append(log[w], [id |-> op[w].id, n |-> n, how |-> how])]
  BY DEF WriteEnd
<1>3. log'[w] = Append(log[w], [id |-> op[w].id, n |-> n, how |-> how])
      /\ \A v \in Writers \ {w} : log'[v] = log[v]
  BY <1>1, <1>2
<1> DEFINE e == [id |-> op[w].id, n |-> n, how |-> how]
<1>4. log'[w] = Append(log[w], e)
  BY <1>3
<1> HIDE DEF e
<1>5. /\ Len(log[w]) \in Nat /\ DOMAIN log[w] = 1 .. Len(log[w])
      /\ DOMAIN log'[w] = 1 .. Len(log[w]) + 1
      /\ \A i \in DOMAIN log[w] : log'[w][i] = log[w][i]
      /\ log'[w][Len(log[w]) + 1] = e
  BY <1>1, <1>4
<1>6. e.id = op[w].id /\ e.n = n /\ e.how = how
  BY DEF e
<1>7. ASSUME NEW v \in Writers, NEW i \in DOMAIN log'[v]
      PROVE  \/ i \in DOMAIN log[v] /\ log'[v][i] = log[v][i]
             \/ v = w /\ i = Len(log[w]) + 1 /\ log'[v][i] = e
  <2>1. CASE v = w
    <3>1. i \in DOMAIN log[w] \/ i = Len(log[w]) + 1
      BY <1>5, <1>7, <2>1
    <3> QED
      BY <1>5, <2>1, <3>1
  <2> QED
    BY <1>3, <1>7, <2>1
<1>8. LogGrows(w, n, how)
  BY <1>6, <1>7 DEF LogGrows
<1>9. LogKept
  <2>1. ASSUME NEW v \in Writers, NEW i \in DOMAIN log[v]
        PROVE  i \in DOMAIN log'[v] /\ log'[v][i] = log[v][i]
    <3>1. CASE v = w
      BY <1>5, <2>1, <3>1
    <3> QED
      BY <1>3, <2>1, <3>1
  <2> QED
    BY <2>1 DEF LogKept
<1> QED
  BY <1>3, <1>5, <1>8, <1>9 DEF e

-----------------------------------------------------------------------------
(* The writes in a queue.                                                  *)

\* The queue r has no writes but those of q.
Fewer(q, r) ==
  /\ NoWrites(q) => NoWrites(r)
  /\ Single(q) => Single(r)
  /\ \A m \in ToSet(r) : m.op = "write" => m \in ToSet(q)

(* An empty queue has no writes.                                           *)
LEMMA NothingWritten ==
  /\ NoWrites(<<>>) /\ \A q : Fewer(q, <<>>) /\ Fewer(q, q) /\ (NoWrites(q) => Single(q))
<1>1. \A q : NoWrites(q) => Single(q)
  BY DEF NoWrites, Single, ToSet
<1>2. NoWrites(<<>>)
  BY EmptyFacts DEF NoWrites
<1> QED
  BY <1>1, <1>2, EmptyFacts DEF Fewer

(* Writes in a queue with one message more.                                *)
LEMMA AppendWrites ==
  ASSUME NEW T, NEW q \in Seq(T), NEW x
  PROVE  /\ x.op # "write" => Fewer(q, Append(q, x))
         /\ x.op = "write" /\ NoWrites(q) => Single(Append(q, x))
<1>1. ToSet(Append(q, x)) = ToSet(q) \cup {x}
  BY PlainAppend
<1>2. x.op # "write" => (NoWrites(q) => NoWrites(Append(q, x)))
  BY <1>1 DEF NoWrites
<1>3. /\ \A k \in DOMAIN Append(q, x) : \/ k \in DOMAIN q /\ Append(q, x)[k] = q[k]
                                        \/ k = Len(q) + 1 /\ Append(q, x)[k] = x
      /\ \A k \in DOMAIN q : q[k] \in ToSet(q)
  BY DEF ToSet
<1>4. x.op # "write" => (Single(q) => Single(Append(q, x)))
  BY <1>3 DEF Single
<1>5. x.op = "write" /\ NoWrites(q) => Single(Append(q, x))
  BY <1>3 DEF Single, NoWrites
<1> QED
  BY <1>1, <1>2, <1>4, <1>5 DEF Fewer

(* Writes in the rest of a queue.                                          *)
LEMMA TailWrites ==
  ASSUME NEW T, NEW q \in Seq(T), q # <<>>
  PROVE  /\ Fewer(q, Tail(q))
         /\ Single(q) /\ Head(q).op = "write" => NoWrites(Tail(q))
<1>1. ToSet(q) = {Head(q)} \cup ToSet(Tail(q))
  BY QueueFacts
<1>2. /\ \A k \in DOMAIN Tail(q) : k \in Nat \ {0} /\ k + 1 \in DOMAIN q
        /\ Tail(q)[k] = q[k + 1]
      /\ 1 \in DOMAIN q /\ Head(q) = q[1]
  OBVIOUS
<1>3. Single(q) => Single(Tail(q))
  BY <1>2 DEF Single
<1>4. Single(q) /\ Head(q).op = "write" => NoWrites(Tail(q))
  <2>1. ASSUME Single(q), Head(q).op = "write", NEW k \in DOMAIN Tail(q)
        PROVE  Tail(q)[k].op # "write"
    BY <1>2, <2>1 DEF Single
  <2> QED
    BY <2>1 DEF NoWrites, ToSet
<1> QED
  BY <1>1, <1>3, <1>4 DEF NoWrites, Fewer

(* A step that puts no write under way.                                    *)
LEMMA UnderWayKept ==
  ASSUME NEW w \in Writers, UnderWay(w), Waits(w)' <=> Waits(w),
         Waits(w) => op'[w].id = op[w].id /\ op'[w].sta = op[w].sta,
         Fewer(toDaemon, toDaemon'), Fewer(rd.buf, rd'.buf), Fewer(toClient, toClient'),
         dmn'.owed = dmn.owed, dmn.stored \subseteq dmn'.stored
  PROVE  UnderWay(w)'
<1>1. CASE ~ Waits(w)
  <2>1. NoWrites(toDaemon) /\ NoWrites(rd.buf) /\ NoWrites(toClient) /\ dmn.owed = <<>>
    BY <1>1 DEF UnderWay, AsksOne, OwesOne, EndsOne
  <2>2. NoWrites(toDaemon)' /\ NoWrites(rd.buf)' /\ NoWrites(toClient)' /\ dmn'.owed = <<>>
    BY <2>1 DEF Fewer
  <2>3. Single(toDaemon)' /\ Single(rd.buf)' /\ Single(toClient)'
    BY <2>2, NothingWritten
  <2> QED
    BY <1>1, <2>2, <2>3, EmptyFacts DEF UnderWay, AsksOne, OwesOne, EndsOne, Ended, NoWrites
<1>2. CASE Waits(w)
  <2>1. op'[w].id = op[w].id /\ op'[w].sta = op[w].sta /\ Waits(w)'
    BY <1>2
  <2>2. AsksOne(w)'
    BY <2>1 DEF UnderWay, AsksOne, Fewer
  <2>3. OwesOne(w)'
    BY <2>1 DEF UnderWay, OwesOne
  <2>4. EndsOne(w, rd.buf)'
    BY <2>1 DEF UnderWay, EndsOne, Fewer, Stores
  <2>5. EndsOne(w, toClient)'
    BY <2>1 DEF UnderWay, EndsOne, Fewer, Stores
  <2>6. NoWrites(rd.buf)' \/ NoWrites(toClient)'
    BY DEF UnderWay, Fewer
  <2>7. Ended(w)' =>
          /\ NoWrites(toDaemon)' /\ dmn'.owed = <<>>
          /\ NoWrites(rd.buf)' /\ NoWrites(toClient)'
          /\ Stores(w, op[w].sta)'
    BY <1>2, <2>1 DEF UnderWay, Fewer, Ended, Stores
  <2> QED
    BY <2>2, <2>3, <2>4, <2>5, <2>6, <2>7 DEF UnderWay
<1> QED
  BY <1>1, <1>2

(* When nothing is under way.                                              *)
LEMMA NothingUnderWay ==
  ASSUME NEW w \in Writers, NoWrites(toDaemon)', NoWrites(rd.buf)', NoWrites(toClient)',
         dmn'.owed = <<>>, Ended(w)' => Stores(w, op[w].sta)'
  PROVE  UnderWay(w)'
<1>1. Single(toDaemon)' /\ Single(rd.buf)' /\ Single(toClient)'
  BY NothingWritten
<1> QED
  BY <1>1, EmptyFacts DEF UnderWay, AsksOne, OwesOne, EndsOne, NoWrites


-----------------------------------------------------------------------------
(* Received bytes.                                                         *)

(* One sequence after the other.                                           *)
LEMMA ConcatFacts ==
  ASSUME NEW a \in Seq(Nat), NEW b \in Seq(Nat)
  PROVE  /\ a \o b \in Seq(Nat) /\ ToSet(a \o b) = ToSet(a) \cup ToSet(b)
         /\ Increasing(a \o b) <=>
              Increasing(a) /\ Increasing(b) /\ Before(ToSet(a), ToSet(b))
<1> DEFINE c == a \o b
<1>1. /\ c \in Seq(Nat) /\ Len(c) = Len(a) + Len(b) /\ Len(a) \in Nat /\ Len(b) \in Nat
      /\ \A i \in 1 .. Len(a) + Len(b) : c[i] = IF i <= Len(a) THEN a[i] ELSE b[i - Len(a)]
  BY ConcatProperties
<1>2. DOMAIN a = 1 .. Len(a) /\ DOMAIN b = 1 .. Len(b) /\ DOMAIN c = 1 .. Len(a) + Len(b)
  BY <1>1
<1> HIDE DEF c
<1>3. /\ \A i \in DOMAIN a : i \in DOMAIN c /\ c[i] = a[i]
      /\ \A i \in DOMAIN b : Len(a) + i \in DOMAIN c /\ c[Len(a) + i] = b[i]
      /\ \A i \in DOMAIN c : \/ i \in DOMAIN a /\ c[i] = a[i]
                             \/ i - Len(a) \in DOMAIN b /\ c[i] = b[i - Len(a)] /\ i > Len(a)
  <2>1. ASSUME NEW i \in DOMAIN a PROVE i \in DOMAIN c /\ c[i] = a[i]
    <3>1. i \in 1 .. Len(a) + Len(b) /\ i <= Len(a)
      BY ONLY <1>1, <1>2, <2>1
    <3> QED
      BY <1>1, <1>2, <3>1
  <2>2. ASSUME NEW i \in DOMAIN b PROVE Len(a) + i \in DOMAIN c /\ c[Len(a) + i] = b[i]
    <3>1. /\ Len(a) + i \in 1 .. Len(a) + Len(b) /\ ~ (Len(a) + i <= Len(a))
          /\ (Len(a) + i) - Len(a) = i
      BY ONLY <1>1, <1>2, <2>2
    <3> QED
      BY <1>1, <1>2, <3>1
  <2>3. ASSUME NEW i \in DOMAIN c
        PROVE  \/ i \in DOMAIN a /\ c[i] = a[i]
               \/ i - Len(a) \in DOMAIN b /\ c[i] = b[i - Len(a)] /\ i > Len(a)
    <3>1. CASE i <= Len(a)
      <4>1. i \in 1 .. Len(a)
        BY ONLY <1>1, <1>2, <2>3, <3>1
      <4> QED
        BY <1>1, <1>2, <2>3, <3>1, <4>1
    <3>2. CASE ~ (i <= Len(a))
      <4>1. i - Len(a) \in 1 .. Len(b) /\ i > Len(a)
        BY ONLY <1>1, <1>2, <2>3, <3>2
      <4> QED
        BY <1>1, <1>2, <2>3, <3>2, <4>1
    <3> QED
      BY <3>1, <3>2
  <2> QED
    BY <2>1, <2>2, <2>3
<1>4. ToSet(c) = ToSet(a) \cup ToSet(b)
  <2>1. \A x \in ToSet(c) : x \in ToSet(a) \cup ToSet(b)
    BY <1>3 DEF ToSet
  <2>2. \A x \in ToSet(a) : x \in ToSet(c)
    BY <1>3 DEF ToSet
  <2>3. \A x \in ToSet(b) : x \in ToSet(c)
    BY <1>3 DEF ToSet
  <2> QED
    BY <2>1, <2>2, <2>3
<1>5. ASSUME Increasing(c)
      PROVE  Increasing(a) /\ Increasing(b) /\ Before(ToSet(a), ToSet(b))
  <2>1. Increasing(a)
    BY <1>3, <1>5 DEF Increasing
  <2>2. Increasing(b)
    <3>1. ASSUME NEW i \in DOMAIN b, NEW j \in DOMAIN b, i < j PROVE b[i] < b[j]
      <4>1. Len(a) + i < Len(a) + j
        BY <1>1, <1>2, <3>1
      <4> QED
        BY <1>3, <1>5, <3>1, <4>1 DEF Increasing
    <3> QED
      BY <3>1 DEF Increasing
  <2>3. ASSUME NEW i \in DOMAIN a, NEW j \in DOMAIN b PROVE a[i] < b[j]
    <3>1. i < Len(a) + j
      BY <1>1, <1>2
    <3> QED
      BY <1>3, <1>5, <3>1 DEF Increasing
  <2> QED
    BY <2>1, <2>2, <2>3 DEF Before, ToSet
<1>6. ASSUME Increasing(a), Increasing(b), Before(ToSet(a), ToSet(b))
      PROVE  Increasing(c)
  <2>1. ASSUME NEW i \in DOMAIN c, NEW j \in DOMAIN c, i < j PROVE c[i] < c[j]
    <3>1. CASE j \in DOMAIN a /\ c[j] = a[j]
      <4>1. i \in DOMAIN a /\ c[i] = a[i]
        BY <1>1, <1>2, <2>1, <3>1
      <4> QED
        BY <1>6, <2>1, <3>1, <4>1 DEF Increasing
    <3>2. CASE j - Len(a) \in DOMAIN b /\ c[j] = b[j - Len(a)]
      <4>1. CASE i \in DOMAIN a /\ c[i] = a[i]
        BY <1>6, <3>2, <4>1 DEF Before, ToSet
      <4>2. CASE i - Len(a) \in DOMAIN b /\ c[i] = b[i - Len(a)]
        <5>1. i - Len(a) < j - Len(a)
          BY <1>1, <1>2, <2>1
        <5> QED
          BY <1>6, <3>2, <4>2, <5>1 DEF Increasing
      <4> QED
        BY <1>3, <4>1, <4>2
    <3> QED
      BY <1>3, <3>1, <3>2
  <2> QED
    BY <2>1 DEF Increasing
<1> QED
  BY <1>1, <1>4, <1>5, <1>6 DEF c

(* A sequence and its two parts.                                           *)
LEMMA SplitFacts ==
  ASSUME NEW q \in Seq(Nat), NEW n \in 0 .. Len(q)
  PROVE  q = SubSeq(q, 1, n) \o SubSeq(q, n + 1, Len(q))
<1> DEFINE a == SubSeq(q, 1, n)
           b == SubSeq(q, n + 1, Len(q))
<1>1. /\ a \in Seq(Nat) /\ Len(a) = n /\ b \in Seq(Nat) /\ Len(b) = Len(q) - n
      /\ \A i \in 1 .. n : a[i] = q[i]
      /\ \A i \in 1 .. Len(q) - n : b[i] = q[n + i]
  BY PartFacts
<1> DEFINE c == a \o b
<1> HIDE DEF a, b
<1>2. /\ c \in Seq(Nat) /\ Len(c) = Len(q)
      /\ \A i \in 1 .. Len(q) : c[i] = IF i <= n THEN a[i] ELSE b[i - n]
  <2>1. /\ a \o b \in Seq(Nat) /\ Len(a \o b) = Len(a) + Len(b)
        /\ \A i \in 1 .. Len(a) + Len(b) :
             (a \o b)[i] = IF i <= Len(a) THEN a[i] ELSE b[i - Len(a)]
    BY <1>1, ConcatProperties
  <2>2. Len(a) + Len(b) = Len(q)
    BY <1>1
  <2> QED
    BY <1>1, <2>1, <2>2
<1> HIDE DEF c
<1>3. ASSUME NEW i \in 1 .. Len(q) PROVE c[i] = q[i]
  <2>1. CASE i <= n
    BY <1>1, <1>2, <2>1
  <2>2. CASE i > n
    <3>1. i - n \in 1 .. Len(q) - n /\ n + (i - n) = i /\ ~ (i <= n)
      BY ONLY <2>2, i \in 1 .. Len(q), n \in 0 .. Len(q), Len(q) \in Nat
    <3> QED
      BY <1>1, <1>2, <2>2, <3>1
  <2> QED
    BY <2>1, <2>2
<1>4. q = c
  BY <1>2, <1>3
<1> QED
  BY <1>4 DEF a, b, c

(* Three sequences, one after the other.                                   *)
LEMMA ConcatRegroup ==
  ASSUME NEW a \in Seq(Nat), NEW b \in Seq(Nat), NEW c \in Seq(Nat)
  PROVE  (a \o b) \o c = a \o (b \o c)
<1> QED
  OBVIOUS

(* The bytes of a queue.                                                   *)
LEMMA NoBytes ==
  /\ Bytes(<<>>) = {} /\ InOrder(<<>>) /\ Increasing(<<>>)
  /\ \A S : Before(S, {}) /\ Before({}, S)
<1> QED
  BY DEF Bytes, InOrder, Increasing, Before

(* The bytes of a queue with one message more.                             *)
LEMMA BytesOfAppend ==
  ASSUME NEW q \in Seq(Answer), NEW x \in Answer
  PROVE  /\ Bytes(Append(q, x)) = Bytes(q) \cup ToSet(x.data)
         /\ InOrder(q) /\ Increasing(x.data) /\ Before(Bytes(q), ToSet(x.data))
              => InOrder(Append(q, x))
<1> DEFINE p == Append(q, x)
<1>1. /\ \A k \in DOMAIN q : k \in DOMAIN p /\ p[k] = q[k] /\ k < Len(q) + 1
      /\ Len(q) + 1 \in DOMAIN p /\ p[Len(q) + 1] = x
      /\ \A k \in DOMAIN p : k \in DOMAIN q \/ k = Len(q) + 1
  OBVIOUS
<1> HIDE DEF p
<1>2. Bytes(p) = Bytes(q) \cup ToSet(x.data)
  <2>1. \A b \in Bytes(p) : b \in Bytes(q) \cup ToSet(x.data)
    BY <1>1 DEF Bytes
  <2>2. \A b \in Bytes(q) : b \in Bytes(p)
    BY <1>1 DEF Bytes
  <2>3. \A b \in ToSet(x.data) : b \in Bytes(p)
    BY <1>1 DEF Bytes
  <2> QED
    BY <2>1, <2>2, <2>3
<1>3. ASSUME InOrder(q), Increasing(x.data), Before(Bytes(q), ToSet(x.data))
      PROVE  InOrder(p)
  <2>1. \A k \in DOMAIN p : Increasing(p[k].data)
    BY <1>1, <1>3 DEF InOrder
  <2>2. ASSUME NEW j \in DOMAIN p, NEW k \in DOMAIN p, j < k
        PROVE  Before(ToSet(p[j].data), ToSet(p[k].data))
    <3>1. CASE k \in DOMAIN q
      <4>1. j \in DOMAIN q
        <5>1. j # Len(q) + 1
          <6>1. k < Len(q) + 1 /\ Len(q) + 1 \in Int /\ k \in Int
            BY <1>1, <3>1
          <6> QED
            BY <2>2, <6>1
        <5> QED
          BY <1>1, <5>1
      <4> QED
        BY <1>1, <1>3, <2>2, <3>1, <4>1 DEF InOrder
    <3>2. CASE k = Len(q) + 1
      <4>1. j \in DOMAIN q
        <5>1. j # Len(q) + 1
          BY <2>2, <3>2
        <5> QED
          BY <1>1, <5>1
      <4>2. ToSet(p[j].data) \subseteq Bytes(q)
        BY <1>1, <4>1 DEF Bytes
      <4> QED
        BY <1>1, <1>3, <3>2, <4>2 DEF Before
    <3> QED
      BY <1>1, <3>1, <3>2
  <2> QED
    BY <2>1, <2>2 DEF InOrder
<1> QED
  BY <1>2, <1>3 DEF p

(* The bytes of the first message, and of the rest.                        *)
LEMMA BytesOfTail ==
  ASSUME NEW q \in Seq(Answer), q # <<>>
  PROVE  /\ Bytes(q) = ToSet(Head(q).data) \cup Bytes(Tail(q))
         /\ InOrder(q) =>
              /\ InOrder(Tail(q)) /\ Increasing(Head(q).data)
              /\ Before(ToSet(Head(q).data), Bytes(Tail(q)))
<1> DEFINE r == Tail(q)
           h == Head(q)
<1>1. /\ \A k \in DOMAIN r : k \in Nat \ {0} /\ k + 1 \in DOMAIN q /\ r[k] = q[k + 1]
      /\ \A k \in DOMAIN q : k = 1 \/ (k - 1 \in DOMAIN r /\ r[k - 1] = q[k])
      /\ 1 \in DOMAIN q /\ h = q[1]
  OBVIOUS
<1> HIDE DEF r, h
<1>2. Bytes(q) = ToSet(h.data) \cup Bytes(r)
  <2>1. ASSUME NEW b \in Bytes(q) PROVE b \in ToSet(h.data) \cup Bytes(r)
    <3>1. PICK k \in DOMAIN q : b \in ToSet(q[k].data)
      BY <2>1 DEF Bytes
    <3>2. CASE k = 1
      BY <1>1, <3>1, <3>2
    <3>3. CASE k - 1 \in DOMAIN r /\ r[k - 1] = q[k]
      BY <3>1, <3>3 DEF Bytes
    <3> QED
      BY <1>1, <3>2, <3>3
  <2>2. \A b \in Bytes(r) : b \in Bytes(q)
    BY <1>1 DEF Bytes
  <2>3. \A b \in ToSet(h.data) : b \in Bytes(q)
    BY <1>1 DEF Bytes
  <2> QED
    BY <2>1, <2>2, <2>3
<1>3. ASSUME InOrder(q)
      PROVE  InOrder(r) /\ Increasing(h.data) /\ Before(ToSet(h.data), Bytes(r))
  <2>1. \A k \in DOMAIN r : Increasing(r[k].data)
    BY <1>1, <1>3 DEF InOrder
  <2>2. ASSUME NEW j \in DOMAIN r, NEW k \in DOMAIN r, j < k
        PROVE  Before(ToSet(r[j].data), ToSet(r[k].data))
    <3>1. j + 1 < k + 1
      BY <1>1, <2>2
    <3> QED
      BY <1>1, <1>3, <2>2, <3>1 DEF InOrder
  <2>3. ASSUME NEW k \in DOMAIN r PROVE Before(ToSet(h.data), ToSet(r[k].data))
    <3>1. 1 < k + 1
      BY <1>1
    <3> QED
      BY <1>1, <1>3, <3>1 DEF InOrder
  <2>4. Before(ToSet(h.data), Bytes(r))
    BY <2>3 DEF Before, Bytes
  <2> QED
    BY <1>1, <1>3, <2>1, <2>2, <2>4 DEF InOrder
<1> QED
  BY <1>2, <1>3 DEF r, h

(* Bytes are numbers.                                                      *)
LEMMA BytesAreNumbers ==
  ASSUME NEW q \in Seq(Answer)
  PROVE  Bytes(q) \subseteq Nat
<1>1. \A k \in DOMAIN q : q[k] \in Answer
  OBVIOUS
<1>2. \A k \in DOMAIN q : q[k].data \in Seq(Nat)
  BY <1>1 DEF Answer
<1> QED
  BY <1>2, Elements DEF Bytes

(* What comes first has no gaps either.                                    *)
LEMMA FirstPart ==
  ASSUME NEW S \in SUBSET Nat, NEW T \in SUBSET Nat, Before(S, T), FromOne(S \cup T)
  PROVE  FromOne(S)
<1>1. ASSUME NEW b \in S, NEW x \in 1 .. b PROVE x \in S
  <2>1. x \in S \cup T
    BY <1>1 DEF FromOne
  <2>2. x \notin T
    BY <1>1 DEF Before
  <2> QED
    BY <2>1, <2>2
<1> QED
  BY <1>1 DEF FromOne
(* Threads go where the code sends them, with results of their kinds.      *)
LEMMA NextCalls == ASSUME IInv, [Next]_vars PROVE CallsInv'
<1>1. CASE MainStep \/ CloseDelFd
  BY <1>1, ThreadFacts
  DEF MainStep, SockInit, OpenSend, ComesLate, OpenWake, OpenRefused, OpenAddFd, OpenPublish,
    CloseLock,
    CloseTrig, CloseDelFd, Go, Fault, Touch, Send, LeaveTells, TrigClose, client, thread,
    wires, history, IInv, KindsInv, CallsInv, Places
<1>2. ASSUME NEW t \in Callers, Enter(t) PROVE CallsInv'
  <2>1. t \in Threads /\ op[t] \in Op /\ op \in [Threads -> Op]
          /\ [op[t] EXCEPT !.cur = 0] \in Op
    BY ThreadFacts DEF IInv, KindsInv, CallsInv, Op
  <2>2. op' = [op EXCEPT ![t] = [op[t] EXCEPT !.cur = 0]]
    BY <1>2 DEF Enter
  <2>3. op' \in [Threads -> Op]
    BY <2>1, <2>2, OneOp
  <2> QED
    BY <1>2, <2>1, <2>3 DEF Enter, Go, thread, wires, history, IInv, KindsInv, CallsInv, Places
<1>3. ASSUME NEW w \in Writers, WriteNext(w) PROVE CallsInv'
  <2>1. w \in Threads /\ op[w] \in Op /\ op \in [Threads -> Op] /\ sock.send_seq \in Nat
    BY ThreadFacts DEF IInv, KindsInv, CallsInv, SessionInv, Session
  <2>2. [op[w] EXCEPT !.id = sock.send_seq, !.sta = 0, !.cpl = 0] \in Op
    <3>1. op[w] \in Op /\ sock.send_seq \in Nat /\ 0 \in Int
      BY <2>1
    <3> QED
      BY ONLY <3>1 DEF Op
  <2>3. \/ op' = op
        \/ op' = [op EXCEPT ![w] = [op[w] EXCEPT !.id = sock.send_seq, !.sta = 0, !.cpl = 0]]
    BY <1>3 DEF WriteNext, Fault
  <2>4. op' \in [Threads -> Op]
    BY <2>1, <2>2, <2>3, OneOp
  <2> QED
    BY <1>3, <2>1, <2>4 DEF WriteNext, Fault, Go, thread, wires, history,
      IInv, KindsInv, CallsInv, Places
<1>4. ASSUME NEW w \in Writers, WriteStore(w) PROVE CallsInv'
  <2> QED
    BY <1>4, ThreadFacts DEF WriteStore, Fault, Go, thread, wires, history,
      IInv, KindsInv, CallsInv, Places
<1>5. ASSUME NEW w \in Writers, WriteSend(w) PROVE CallsInv'
  <2>1. w \in Threads /\ KindsInv /\ CallsInv
    BY ThreadFacts DEF IInv, KindsInv
  <2>2. CASE WriteEnd(w, -1, "exit")
    <3>1. op' \in [Threads -> Op] /\ pc' = [pc EXCEPT ![w] = pc'[w]] /\ pc'[w] \in {"next",
            "idle"}
      BY ONLY <2>1, <2>2, -1 \in Int, "exit" \in {"exit", "done", "timeout"}, EndFacts
    <3>2. setup' = setup /\ fdtab' \in BOOLEAN
      BY <1>5, <2>1 DEF WriteSend, Fault, CallsInv
    <3> QED
      BY <2>1, <3>1, <3>2 DEF CallsInv, Places
  <2>3. CASE ~ WriteEnd(w, -1, "exit")
    BY <1>5, <2>1, <2>3 DEF WriteSend, Fault, Sleep, Go, CallsInv, Places
  <2> QED
    BY <2>2, <2>3
<1>6. ASSUME NEW w \in Writers, WriteWake(w) PROVE CallsInv'
  <2>1. w \in Threads /\ KindsInv /\ CallsInv /\ op[w].sta \in Int
    BY ThreadFacts DEF IInv, KindsInv, CallsInv, Op
  <2>2. CASE WriteEnd(w, -1, "exit") \/ WriteEnd(w, op[w].sta, "done")
    <3>1. op' \in [Threads -> Op] /\ pc' = [pc EXCEPT ![w] = pc'[w]] /\ pc'[w] \in {"next",
            "idle"}
      <4>1. CASE WriteEnd(w, -1, "exit")
        BY ONLY <2>1, <4>1, -1 \in Int, "exit" \in {"exit", "done", "timeout"}, EndFacts
      <4>2. CASE WriteEnd(w, op[w].sta, "done")
        BY <2>1, <4>2, EndFacts
      <4> QED
        BY <2>2, <4>1, <4>2
    <3>2. setup' = setup /\ fdtab' \in BOOLEAN
      BY <1>6, <2>1 DEF WriteWake, CallsInv
    <3> QED
      BY <2>1, <3>1, <3>2 DEF CallsInv, Places
  <2>3. CASE Sleep(w) /\ UNCHANGED <<log, op>>
    BY <1>6, <2>1, <2>3 DEF WriteWake, Sleep, Go, CallsInv, Places
  <2> QED
    BY <1>6, <2>2, <2>3 DEF WriteWake
<1>7. ASSUME NEW w \in Writers, WriteTimeout(w) PROVE CallsInv'
  <2>1. w \in Threads /\ KindsInv /\ CallsInv /\ op[w].cpl \in Int
    BY ThreadFacts DEF IInv, KindsInv, CallsInv, Op
  <2>2. WriteEnd(w, op[w].cpl, "timeout")
    BY <1>7 DEF WriteTimeout
  <2>3. op' \in [Threads -> Op] /\ pc' = [pc EXCEPT ![w] = pc'[w]] /\ pc'[w] \in {"next",
          "idle"}
    BY <2>1, <2>2, EndFacts
  <2> QED
    BY <1>7, <2>1, <2>3 DEF WriteTimeout, CallsInv, Places
<1>8. ASSUME NEW r \in Readers, Read(r) \/ ReadTimeout(r) PROVE CallsInv'
  BY <1>8, ThreadFacts
  DEF Read, ReadTimeout, Go, Fault, Touch, Sleep, Leave, LeaveTells, client, thread, wires,
    history, IInv, KindsInv, CallsInv, Places
<1>9. ASSUME NEW q \in Queriers, QueryWake(q) PROVE CallsInv'
  BY <1>9, ThreadFacts
  DEF QueryWake, Go, Touch, Sleep, Leave, LeaveTells, client, thread, wires, history, IInv,
    KindsInv, CallsInv, Places
<1>10. ASSUME NEW q \in Queriers, QuerySend(q) PROVE CallsInv'
  <2>1. q \in Threads /\ CallsInv /\ op[q] \in Op /\ [op[q] EXCEPT !.sta = 0] \in Op
    BY ThreadFacts DEF IInv, KindsInv, CallsInv, Op
  <2>2. op' = op \/ op' = [op EXCEPT ![q] = [op[q] EXCEPT !.sta = 0]]
    BY <1>10 DEF QuerySend, Fault
  <2>3. op' \in [Threads -> Op]
    BY <2>1, <2>2, OneOp DEF CallsInv
  <2> QED
    BY <1>10, <2>1, <2>3 DEF QuerySend, Fault, Sleep, Go, CallsInv, Places
<1>11. CASE Discard
  BY <1>11, ThreadFacts
  DEF Discard, client, thread, wires, history, IInv, KindsInv, CallsInv, Places
<1>12. ASSUME NEW t \in Threads, Spurious(t) PROVE CallsInv'
  BY <1>12, ThreadFacts
  DEF Spurious, Go, client, thread, wires, history, IInv, KindsInv, CallsInv, Places
<1>13. CASE RdCheck \/ RdRecv \/ RdNotFound \/ RdEnd \/ RdDeinitWait \/ RdListEmpty \/ RdFree
  BY <1>13, ThreadFacts
  DEF RdCheck, RdRecv, RdNotFound, RdEnd, RdDeinitWait, RdListEmpty, RdFree, Woken, client,
    thread, wires,
    history, IInv, KindsInv, CallsInv, Places
<1>14. CASE RdProc
  <2>1. KindsInv /\ CallsInv
    BY DEF IInv, KindsInv
  <2>2. op' \in [Threads -> Op] /\ (pc' = Woken \/ pc' = pc)
    BY <1>14, <2>1, ProcFacts
  <2> QED
    BY <1>14, <2>1, <2>2 DEF RdProc, Woken, CallsInv, Places
<1>15. CASE DaemonStep \/ DaemonPush \/ HangUp
  BY <1>15, ThreadFacts
  DEF DaemonStep, DaemonOpen, DaemonWrite, DaemonComplete, DaemonQuery, DaemonPush, HangUp,
    Request, Reply, client, thread, wires, history, IInv, KindsInv, CallsInv, Places
<1>16. CASE UNCHANGED vars
  BY <1>16, ThreadFacts
  DEF vars, client, thread, wires, history, IInv, KindsInv, CallsInv, Places
<1> QED
  BY <1>1, <1>2, <1>3, <1>4, <1>5, <1>6, <1>7, <1>8, <1>9, <1>10, <1>11, <1>12, <1>13, <1>14,
    <1>15, <1>16
  DEF Next, MainStep, WriteStep, QueryStep, RdStep, DaemonStep

(* The session.                                                            *)
LEMMA NextSession == ASSUME IInv, [Next]_vars PROVE SessionInv'
<1>1. CASE SockInit
  BY <1>1, ThreadFacts
  DEF SockInit, Go, client, thread, wires, history, IInv, KindsInv, SessionInv, CallsInv,
    Session
<1>2. CASE OpenSend
  BY <1>2, ThreadFacts
  DEF OpenSend, ComesLate, Go, Fault, Touch, Send, client, thread, wires, history, IInv,
    KindsInv,
    SessionInv, CallsInv, Session
<1>3. CASE OpenWake
  BY <1>3, ThreadFacts
  DEF OpenWake, Fault, Go, Touch, LeaveTells, client, thread, wires, history, IInv, KindsInv,
    SessionInv, CallsInv, Session
<1>4. CASE OpenRefused
  BY <1>4, ThreadFacts
  DEF OpenRefused, Go, Fault, TrigClose, client, thread, wires, history, IInv, KindsInv,
    SessionInv, CallsInv, Session
<1>5. CASE OpenAddFd
  BY <1>5, ThreadFacts
  DEF OpenAddFd, Go, client, thread, wires, history, IInv, KindsInv, SessionInv, CallsInv,
    Session
<1>6. CASE OpenPublish
  <2>1. sock \in Session /\ SessionInv
    BY DEF IInv, KindsInv, SessionInv
  <2>2. [sock EXCEPT !.rx_rb = <<>>, !.sockfd = TRUE, !.is_opened = TRUE] \in Session
    BY <2>1, EmptyFacts, SessionUpdates DEF Session
  <2>3. CASE sock' = [sock EXCEPT !.rx_rb = <<>>, !.sockfd = TRUE, !.is_opened = TRUE]
    <3>1. sock'.rx_rb = <<>>
      BY <2>1, <2>3 DEF Session
    <3> QED
      BY <2>2, <2>3, <3>1, EmptyFacts, SizesAssumption DEF SessionInv
  <2> QED
    BY <1>6, <2>1, <2>3 DEF OpenPublish, Fault, SessionInv
<1>7. CASE CloseLock
  BY <1>7, ThreadFacts
  DEF CloseLock, ComesLate, Go, Fault, Touch, client, thread, wires, history, IInv, KindsInv,
    SessionInv,
    CallsInv, Session
<1>8. CASE CloseTrig
  BY <1>8, ThreadFacts
  DEF CloseTrig, Fault, Go, TrigClose, client, thread, wires, history, IInv, KindsInv,
    SessionInv,
    CallsInv, Session
<1>9. CASE CloseDelFd
  BY <1>9, ThreadFacts
  DEF CloseDelFd, Go, client, thread, wires, history, IInv, KindsInv, SessionInv, CallsInv,
    Session
<1>10. ASSUME NEW t \in Callers, Enter(t) PROVE SessionInv'
  BY <1>10, ThreadFacts
  DEF Enter, Go, client, thread, wires, history, IInv, KindsInv, SessionInv, CallsInv, Session
<1>11. ASSUME NEW w \in Writers, WriteNext(w) \/ WriteTimeout(w) PROVE SessionInv'
  BY <1>11, ThreadFacts
  DEF WriteNext, WriteTimeout, Go, Fault, Touch, WriteEnd, Leave, LeaveTells, client, thread,
    wires, history, IInv, KindsInv, SessionInv, CallsInv, Session
<1>12. ASSUME NEW w \in Writers, WriteStore(w) PROVE SessionInv'
  <2>1. w \in Threads /\ sock \in Session /\ SessionInv /\ op[w].id + 1 \in Nat
    BY ThreadFacts DEF IInv, KindsInv, SessionInv, CallsInv, Op
  <2>2. [sock EXCEPT !.send_seq = op[w].id + 1] \in Session
    BY <2>1, EmptyFacts, SessionUpdates
  <2>3. CASE sock' = [sock EXCEPT !.send_seq = op[w].id + 1]
    <3>1. sock'.rx_rb = sock.rx_rb
      BY <2>1, <2>3 DEF Session
    <3> QED
      BY <2>1, <2>2, <2>3, <3>1 DEF SessionInv
  <2> QED
    BY <1>12, <2>1, <2>3 DEF WriteStore, Fault, SessionInv
<1>13. ASSUME NEW w \in Writers, WriteSend(w) PROVE SessionInv'
  <2>1. w \in Threads /\ KindsInv /\ SessionInv /\ sock \in Session
    BY ThreadFacts DEF IInv, KindsInv, SessionInv
  <2>2. CASE Leave(w)
    <3>1. sock' \in Session /\ sock'.rx_rb = sock.rx_rb
      BY <2>1, <2>2, LeaveFacts DEF Session
    <3> QED
      BY <2>1, <3>1 DEF SessionInv
  <2>3. CASE Sleep(w)
    <3>1. sock' \in Session /\ sock'.rx_rb = sock.rx_rb
      BY <2>1, <2>3, SleepFacts DEF Session
    <3> QED
      BY <2>1, <3>1 DEF SessionInv
  <2>4. CASE sock' = sock
    BY <2>1, <2>4 DEF SessionInv
  <2> QED
    BY <1>13, <2>2, <2>3, <2>4 DEF WriteSend, WriteEnd, Fault
<1>14. ASSUME NEW w \in Writers, WriteWake(w) PROVE SessionInv'
  <2>1. w \in Threads /\ KindsInv /\ SessionInv /\ sock \in Session
    BY ThreadFacts DEF IInv, KindsInv, SessionInv
  <2>2. CASE Leave(w)
    <3>1. sock' \in Session /\ sock'.rx_rb = sock.rx_rb
      BY <2>1, <2>2, LeaveFacts DEF Session
    <3> QED
      BY <2>1, <3>1 DEF SessionInv
  <2>3. CASE Sleep(w)
    <3>1. sock' \in Session /\ sock'.rx_rb = sock.rx_rb
      BY <2>1, <2>3, SleepFacts DEF Session
    <3> QED
      BY <2>1, <3>1 DEF SessionInv
  <2>4. CASE sock' = sock
    BY <2>1, <2>4 DEF SessionInv
  <2> QED
    BY <1>14, <2>2, <2>3, <2>4 DEF WriteWake, WriteEnd, Fault
<1>15. ASSUME NEW r \in Readers, ReadTimeout(r) PROVE SessionInv'
  BY <1>15, ThreadFacts
  DEF ReadTimeout, Go, Touch, Leave, LeaveTells, client, thread, wires, history, IInv,
    KindsInv, SessionInv, CallsInv, Session
<1>16. ASSUME NEW r \in Readers, Read(r) PROVE SessionInv'
  <2>1. r \in Threads /\ KindsInv /\ SessionInv /\ sock \in Session
    BY ThreadFacts DEF IInv, KindsInv, SessionInv
  <2>2. CASE Leave(r)
    <3>1. sock' \in Session /\ sock'.rx_rb = sock.rx_rb
      BY <2>1, <2>2, LeaveFacts DEF Session
    <3> QED
      BY <2>1, <3>1 DEF SessionInv
  <2>3. CASE Sleep(r)
    <3>1. sock' \in Session /\ sock'.rx_rb = sock.rx_rb
      BY <2>1, <2>3, SleepFacts DEF Session
    <3> QED
      BY <2>1, <3>1 DEF SessionInv
  <2>4. CASE sock' = sock
    BY <2>1, <2>4 DEF SessionInv
  <2>5. ASSUME NEW n \in 1 .. Len(sock.rx_rb),
               sock' = [sock EXCEPT !.head = sock.head \ {r},
                                    !.rx_rb = SubSeq(sock.rx_rb, n + 1, Len(sock.rx_rb))]
        PROVE  SessionInv'
    <3>1. /\ sock.rx_rb \in Seq(Nat) /\ sock.head \ {r} \in SUBSET Threads
          /\ Len(sock.rx_rb) \in Nat /\ Len(sock.rx_rb) <= BufLen /\ n \in 0 .. Len(sock.rx_rb)
      BY <2>1 DEF Session, SessionInv
    <3>2. /\ SubSeq(sock.rx_rb, n + 1, Len(sock.rx_rb)) \in Seq(Nat)
          /\ Len(SubSeq(sock.rx_rb, n + 1, Len(sock.rx_rb))) = Len(sock.rx_rb) - n
      BY ONLY <3>1, PartFacts
    <3>3. sock' \in Session /\ Len(sock'.rx_rb) = Len(sock.rx_rb) - n
      <4> DEFINE rb == SubSeq(sock.rx_rb, n + 1, Len(sock.rx_rb))
      <4> HIDE DEF rb
      <4>1. rb \in Seq(Nat) /\ Len(rb) = Len(sock.rx_rb) - n
        BY <3>2 DEF rb
      <4>2. sock' = [sock EXCEPT !.head = sock.head \ {r}, !.rx_rb = rb]
        BY <2>5 DEF rb
      <4>3. [sock EXCEPT !.head = sock.head \ {r}, !.rx_rb = rb] \in Session
        BY <2>1, <3>1, <4>1, EmptyFacts, SessionUpdates
      <4> QED
        BY <2>1, <4>1, <4>2, <4>3 DEF Session
    <3> QED
      BY <3>1, <3>3, SizesAssumption DEF SessionInv
  <2>6. CASE Read(r) /\ sock.mem = "live" /\ ~ sock.exit_flg
    <3> DEFINE n == Least(ReadLen, Len(sock.rx_rb))
    <3>1. n \in 0 .. Len(sock.rx_rb)
      BY <2>1, SizesAssumption DEF Least, Session
    <3> HIDE DEF n
    <3>2. CASE n > 0
      <4>1. n \in 1 .. Len(sock.rx_rb)
        BY <3>1, <3>2
      <4>2. sock' = [sock EXCEPT !.head = sock.head \ {r},
                                 !.rx_rb = SubSeq(sock.rx_rb, n + 1, Len(sock.rx_rb))]
        BY <2>1, <2>6, <3>2 DEF Read, Fault, n, Session
      <4> QED
        BY ONLY <2>5, <4>1, <4>2
    <3> QED
      BY <2>2, <2>3, <2>4, <2>6, <3>1, <3>2 DEF Read, n, Fault
  <2>7. CASE Read(r) /\ ~ (sock.mem = "live" /\ ~ sock.exit_flg)
    BY <2>2, <2>4, <2>7 DEF Read, Fault, Touch
  <2> QED
    BY <1>16, <2>6, <2>7
<1>17. ASSUME NEW q \in Queriers, QuerySend(q) PROVE SessionInv'
  <2>1. q \in Threads /\ KindsInv /\ SessionInv /\ sock \in Session
    BY ThreadFacts DEF IInv, KindsInv, SessionInv
  <2>2. CASE Leave(q)
    <3>1. sock' \in Session /\ sock'.rx_rb = sock.rx_rb
      BY <2>1, <2>2, LeaveFacts DEF Session
    <3> QED
      BY <2>1, <3>1 DEF SessionInv
  <2>3. CASE Sleep(q)
    <3>1. sock' \in Session /\ sock'.rx_rb = sock.rx_rb
      BY <2>1, <2>3, SleepFacts DEF Session
    <3> QED
      BY <2>1, <3>1 DEF SessionInv
  <2>4. CASE sock' = sock
    BY <2>1, <2>4 DEF SessionInv
  <2> QED
    BY <1>17, <2>2, <2>3, <2>4 DEF QuerySend, Fault
<1>18. ASSUME NEW q \in Queriers, QueryWake(q) PROVE SessionInv'
  <2>1. q \in Threads /\ KindsInv /\ SessionInv /\ sock \in Session
    BY ThreadFacts DEF IInv, KindsInv, SessionInv
  <2>2. CASE Leave(q)
    <3>1. sock' \in Session /\ sock'.rx_rb = sock.rx_rb
      BY <2>1, <2>2, LeaveFacts DEF Session
    <3> QED
      BY <2>1, <3>1 DEF SessionInv
  <2>3. CASE Sleep(q)
    <3>1. sock' \in Session /\ sock'.rx_rb = sock.rx_rb
      BY <2>1, <2>3, SleepFacts DEF Session
    <3> QED
      BY <2>1, <3>1 DEF SessionInv
  <2>4. CASE sock' = sock
    BY <2>1, <2>4 DEF SessionInv
  <2> QED
    BY <1>18, <2>2, <2>3, <2>4 DEF QueryWake, Fault
<1>19. CASE Discard
  <2>1. sock \in Session /\ [sock EXCEPT !.rx_rb = <<>>] \in Session
    BY EmptyFacts, SessionUpdates DEF IInv, KindsInv, SessionInv, Session
  <2>2. sock' = [sock EXCEPT !.rx_rb = <<>>]
    BY <1>19 DEF Discard
  <2>3. sock' \in Session /\ sock'.rx_rb = <<>>
    BY <2>1, <2>2 DEF Session
  <2> QED
    BY <2>3, EmptyFacts, SizesAssumption DEF SessionInv
<1>20. ASSUME NEW t \in Threads, Spurious(t) PROVE SessionInv'
  BY <1>20, ThreadFacts
  DEF Spurious, Go, client, thread, wires, history, IInv, KindsInv, SessionInv, CallsInv,
    Session
<1>21. CASE RdCheck \/ RdRecv \/ RdNotFound \/ RdEnd \/ RdDeinitWait \/ RdListEmpty \/ RdFree
  BY <1>21, ThreadFacts
  DEF RdCheck, RdRecv, RdNotFound, RdEnd, RdDeinitWait, RdListEmpty, RdFree, Woken, client,
    thread, wires,
    history, IInv, KindsInv, SessionInv, CallsInv, Session
<1>22. CASE RdProc
  <2>1. KindsInv
    BY DEF IInv
  <2>2. sock' \in Session /\ Len(sock'.rx_rb) <= BufLen
    BY <1>22, <2>1, ProcFacts
  <2> QED
    BY <2>2 DEF SessionInv
<1>23. CASE DaemonStep \/ DaemonPush \/ HangUp
  BY <1>23, ThreadFacts
  DEF DaemonStep, DaemonOpen, DaemonWrite, DaemonComplete, DaemonQuery, DaemonPush, HangUp,
    Request, Reply, client, thread, wires, history, IInv, KindsInv, SessionInv, CallsInv,
    Session
<1>24. CASE UNCHANGED vars
  BY <1>24, ThreadFacts
  DEF vars, client, thread, wires, history, IInv, KindsInv, SessionInv, CallsInv, Session
<1> QED
  BY <1>1, <1>2, <1>3, <1>4, <1>5, <1>6, <1>7, <1>8, <1>9, <1>10, <1>11, <1>12, <1>13, <1>14,
    <1>15, <1>16, <1>17, <1>18, <1>19, <1>20, <1>21, <1>22, <1>23, <1>24
  DEF Next, MainStep, WriteStep, QueryStep, RdStep, DaemonStep

(* The read thread and the connection.                                     *)
LEMMA NextThread == ASSUME IInv, [Next]_vars PROVE ThreadInv'
<1>1. CASE SockInit
  BY <1>1
  DEF SockInit, Go, client, thread, wires, history, IInv, KindsInv, ThreadInv, Handle
<1>2. CASE OpenSend
  BY <1>2
  DEF OpenSend, ComesLate, Go, Fault, Touch, Send, client, thread, wires, history, IInv,
    KindsInv,
    ThreadInv, Handle
<1>3. CASE OpenWake
  BY <1>3
  DEF OpenWake, Fault, Go, Touch, LeaveTells, client, thread, wires, history, IInv, KindsInv,
    ThreadInv, Handle
<1>4. CASE OpenRefused
  BY <1>4
  DEF OpenRefused, Go, Fault, TrigClose, client, thread, wires, history, IInv, KindsInv,
    ThreadInv, Handle
<1>5. CASE OpenAddFd
  BY <1>5
  DEF OpenAddFd, Go, client, thread, wires, history, IInv, KindsInv, ThreadInv, Handle
<1>6. CASE OpenPublish
  BY <1>6
  DEF OpenPublish, Go, Fault, client, thread, wires, history, IInv, KindsInv, ThreadInv, Handle
<1>7. CASE CloseLock
  BY <1>7
  DEF CloseLock, ComesLate, Go, Fault, Touch, client, thread, wires, history, IInv, KindsInv,
    ThreadInv,
    Handle
<1>8. CASE CloseTrig
  BY <1>8
  DEF CloseTrig, Fault, Go, TrigClose, client, thread, wires, history, IInv, KindsInv,
    ThreadInv,
    Handle
<1>9. CASE CloseDelFd
  BY <1>9
  DEF CloseDelFd, Go, client, thread, wires, history, IInv, KindsInv, ThreadInv, Handle
<1>10. ASSUME NEW t \in Callers, Enter(t) PROVE ThreadInv'
  BY <1>10
  DEF Enter, Go, client, thread, wires, history, IInv, KindsInv, ThreadInv, Handle
<1>11. ASSUME NEW w \in Writers, WriteStep(w) \/ WriteTimeout(w) PROVE ThreadInv'
  BY <1>11
  DEF WriteStep, WriteNext, WriteStore, WriteSend, WriteWake, WriteTimeout, Go, Fault, Touch,
    Send, WriteEnd, Sleep, Leave, LeaveTells, client, thread, wires, history, IInv, KindsInv,
    ThreadInv, Handle
<1>12. ASSUME NEW r \in Readers, Read(r) \/ ReadTimeout(r) PROVE ThreadInv'
  BY <1>12
  DEF Read, ReadTimeout, Go, Fault, Touch, Sleep, Leave, LeaveTells, client, thread, wires,
    history, IInv, KindsInv, ThreadInv, Handle
<1>13. ASSUME NEW q \in Queriers, QueryStep(q) PROVE ThreadInv'
  BY <1>13
  DEF QueryStep, QuerySend, QueryWake, Go, Fault, Touch, Send, Sleep, Leave, LeaveTells,
    client, thread, wires, history, IInv, KindsInv, ThreadInv, Handle
<1>14. CASE Discard
  BY <1>14
  DEF Discard, client, thread, wires, history, IInv, KindsInv, ThreadInv, Handle
<1>15. ASSUME NEW t \in Threads, Spurious(t) PROVE ThreadInv'
  BY <1>15
  DEF Spurious, Go, client, thread, wires, history, IInv, KindsInv, ThreadInv, Handle
<1>16. CASE RdCheck
  BY <1>16
  DEF RdCheck, client, thread, wires, history, IInv, KindsInv, ThreadInv, Handle
<1>17. CASE RdRecv
  <2>1. ThreadInv /\ toClient \in Seq(Answer)
    BY DEF IInv, KindsInv, WiresInv
  <2> QED
    BY <1>17, <2>1 DEF RdRecv, ThreadInv
<1>18. CASE RdNotFound
  <2>1. ThreadInv /\ <<>> \in Seq(Answer)
    BY EmptyFacts DEF IInv, KindsInv
  <2> QED
    BY <1>18, <2>1 DEF RdNotFound, ThreadInv, Handle
<1>19. CASE RdProc
  <2>1. KindsInv /\ ThreadInv
    BY DEF IInv, KindsInv
  <2>2. /\ rd' = [pc |-> rd'.pc, buf |-> Tail(rd.buf)] /\ rd'.buf = Tail(rd.buf)
        /\ rd'.buf \in Seq(Answer) /\ rd'.pc \in {"check", "proc"}
        /\ rd'.pc = "proc" <=> rd'.buf # <<>>
    BY <1>19, <2>1, ProcFacts
  <2> QED
    BY <1>19, <2>1, <2>2 DEF RdProc, ThreadInv
<1>20. CASE RdEnd
  <2>1. hdl \in Handle /\ ThreadInv
    BY DEF IInv, KindsInv, ThreadInv
  <2>2. hdl' \in Handle
    BY <1>20, <2>1 DEF RdEnd, Handle
  <2>3. rd' = [rd EXCEPT !.pc = "over"] \/ rd' = [rd EXCEPT !.pc = "deinit"]
    BY <1>20 DEF RdEnd
  <2> QED
    BY <1>20, <2>1, <2>2, <2>3 DEF RdEnd, ThreadInv
<1>21. CASE RdDeinitWait
  BY <1>21
  DEF RdDeinitWait, Woken, client, thread, wires, history, IInv, KindsInv, ThreadInv, Handle
<1>22. CASE RdListEmpty \/ RdFree
  BY <1>22
  DEF RdListEmpty, RdFree, client, thread, wires, history, IInv, KindsInv, ThreadInv, Handle
<1>23. CASE DaemonStep \/ DaemonPush \/ HangUp
  BY <1>23
  DEF DaemonStep, DaemonOpen, DaemonWrite, DaemonComplete, DaemonQuery, DaemonPush, HangUp,
    Request, Reply, client, thread, wires, history, IInv, KindsInv, ThreadInv, Handle
<1>24. CASE UNCHANGED vars
  BY <1>24
  DEF vars, client, thread, wires, history, IInv, KindsInv, ThreadInv, Handle
<1> QED
  BY <1>1, <1>2, <1>3, <1>4, <1>5, <1>6, <1>7, <1>8, <1>9, <1>10, <1>11, <1>12, <1>13, <1>14,
    <1>15, <1>16, <1>17, <1>18, <1>19, <1>20, <1>21, <1>22, <1>23, <1>24
  DEF Next, MainStep, WriteStep, QueryStep, RdStep, DaemonStep

(* What is on the way.                                                     *)
LEMMA NextWires == ASSUME IInv, [Next]_vars PROVE WiresInv'
<1>1. CASE SockInit \/ OpenWake \/ OpenRefused \/ OpenAddFd \/ OpenPublish \/ CloseLock
           \/ CloseTrig \/ CloseDelFd
  BY <1>1, EmptyFacts
  DEF SockInit, OpenWake, OpenRefused, OpenAddFd, OpenPublish, CloseLock, ComesLate, CloseTrig,
    CloseDelFd, Go, Touch, LeaveTells, Fault, TrigClose, client, thread, wires, history, IInv,
    KindsInv, WiresInv
<1>2. CASE OpenSend
  <2>1. KindsInv /\ [op |-> "open", id |-> 0, n |-> 0] \in Asked
    BY DEF IInv, Asked
  <2>2. toDaemon' \in Seq(Asked)
    BY <1>2, <2>1, SendFacts DEF OpenSend, ComesLate, KindsInv, WiresInv
  <2> QED
    BY <1>2, <2>1, <2>2 DEF OpenSend, KindsInv, WiresInv
<1>3. ASSUME NEW t \in Callers, Enter(t) PROVE WiresInv'
  BY <1>3, EmptyFacts
  DEF Enter, Go, client, thread, wires, history, IInv, KindsInv, WiresInv
<1>4. ASSUME NEW w \in Writers,
       WriteNext(w) \/ WriteStore(w) \/ WriteWake(w) \/ WriteTimeout(w)
     PROVE  WiresInv'
  BY <1>4, EmptyFacts
  DEF WriteNext, WriteStore, WriteWake, WriteTimeout, Go, Fault, Touch, WriteEnd, Sleep, Leave,
    LeaveTells, client, thread, wires, history, IInv, KindsInv, WiresInv
<1>5. ASSUME NEW w \in Writers, WriteSend(w) PROVE WiresInv'
  <2>1. KindsInv /\ w \in Threads /\ op[w] \in Op
    BY ThreadFacts DEF IInv, KindsInv, CallsInv
  <2>2. [op |-> "write", id |-> op[w].id, n |-> Piece(w)] \in Asked
    BY <2>1, SizesAssumption DEF Asked, Piece, Least, Op
  <2>3. toDaemon' \in Seq(Asked)
    BY <1>5, <2>1, <2>2, SendFacts DEF WriteSend, KindsInv, WiresInv
  <2> QED
    BY <1>5, <2>1, <2>3 DEF WriteSend, KindsInv, WiresInv
<1>6. ASSUME NEW r \in Readers, Read(r) \/ ReadTimeout(r) PROVE WiresInv'
  BY <1>6, EmptyFacts
  DEF Read, ReadTimeout, Go, Fault, Touch, Sleep, Leave, LeaveTells, client, thread, wires,
    history, IInv, KindsInv, WiresInv
<1>7. ASSUME NEW q \in Queriers, QueryWake(q) PROVE WiresInv'
  BY <1>7, EmptyFacts
  DEF QueryWake, Go, Touch, Sleep, Leave, LeaveTells, client, thread, wires, history, IInv,
    KindsInv, WiresInv
<1>8. ASSUME NEW q \in Queriers, QuerySend(q) PROVE WiresInv'
  <2>1. KindsInv /\ [op |-> "query", id |-> 0, n |-> 0] \in Asked
    BY DEF IInv, Asked
  <2>2. toDaemon' \in Seq(Asked)
    BY <1>8, <2>1, SendFacts DEF QuerySend, KindsInv, WiresInv
  <2> QED
    BY <1>8, <2>1, <2>2 DEF QuerySend, KindsInv, WiresInv
<1>9. CASE Discard
  BY <1>9, EmptyFacts
  DEF Discard, client, thread, wires, history, IInv, KindsInv, WiresInv
<1>10. ASSUME NEW t \in Threads, Spurious(t) PROVE WiresInv'
  BY <1>10, EmptyFacts
  DEF Spurious, Go, client, thread, wires, history, IInv, KindsInv, WiresInv
<1>11. CASE RdStep
  BY <1>11, EmptyFacts
  DEF RdStep, RdCheck, RdRecv, RdNotFound, RdProc, RdEnd, RdDeinitWait, RdListEmpty, RdFree,
    RpcCb, Woken,
    client, thread, wires, history, IInv, KindsInv, WiresInv
<1>12. CASE HangUp
  BY <1>12, EmptyFacts
  DEF HangUp, client, thread, wires, history, IInv, KindsInv, WiresInv
<1>13. CASE DaemonOpen
  <2>1. WiresInv /\ toDaemon' \in Seq(Asked)
    BY <1>13, QueueFacts DEF DaemonOpen, Request, IInv, KindsInv, WiresInv
  <2>2. ASSUME NEW o \in {"open", "notfound"}, NEW n \in {0, -1}, Reply(o, 0, n, <<>>)
        PROVE  toClient' \in Seq(Answer)
    <3>1. [op |-> o, id |-> 0, n |-> n, data |-> <<>>] \in Answer
      BY EmptyFacts DEF Answer
    <3> QED
      BY <2>1, <2>2, <3>1, AppendFacts DEF Reply, WiresInv
  <2>3. toClient' \in Seq(Answer)
    BY <1>13, <2>2 DEF DaemonOpen
  <2> QED
    BY <1>13, <2>1, <2>3 DEF DaemonOpen, WiresInv
<1>14. CASE DaemonWrite
  <2>1. WiresInv /\ toDaemon' \in Seq(Asked) /\ Head(toDaemon) \in Asked
    BY <1>14, QueueFacts DEF DaemonWrite, Request, IInv, KindsInv, WiresInv
  <2>2. PICK n \in 0 .. Head(toDaemon).n :
          /\ Reply("write_ret", Head(toDaemon).id, n, <<>>)
          /\ dmn' = [dmn EXCEPT !.owed = Append(dmn.owed, [id |-> Head(toDaemon).id, n |-> n]),
                                !.stored = dmn.stored \cup {[id |-> Head(toDaemon).id,
                                n |-> n]}]
    BY <1>14 DEF DaemonWrite
  <2>3. n \in Int /\ Head(toDaemon).id \in Nat
    BY <2>1 DEF Asked
  <2>4. /\ [op |-> "write_ret", id |-> Head(toDaemon).id, n |-> n, data |-> <<>>] \in Answer
        /\ [id |-> Head(toDaemon).id, n |-> n] \in Stored
    BY <2>3, EmptyFacts DEF Answer, Stored
  <2>5. toClient' \in Seq(Answer)
    BY <2>1, <2>2, <2>4, AppendFacts DEF Reply, WiresInv
  <2>6. /\ Append(dmn.owed, [id |-> Head(toDaemon).id, n |-> n]) \in Seq(Stored)
        /\ dmn.stored \cup {[id |-> Head(toDaemon).id, n |-> n]} \subseteq Stored
    BY <2>1, <2>4, AppendFacts DEF WiresInv
  <2> QED
    BY <2>1, <2>2, <2>5, <2>6 DEF WiresInv
<1>15. CASE DaemonComplete
  <2>1. WiresInv /\ Head(dmn.owed) \in Stored /\ Tail(dmn.owed) \in Seq(Stored)
    BY <1>15, QueueFacts DEF DaemonComplete, IInv, KindsInv, WiresInv
  <2>2. [op |-> "write", id |-> 0, n |-> Head(dmn.owed).n, data |-> <<>>] \in Answer
    BY <2>1, EmptyFacts DEF Answer, Stored
  <2>3. toClient' \in Seq(Answer)
    BY <1>15, <2>1, <2>2, AppendFacts DEF DaemonComplete, Reply, WiresInv
  <2> QED
    BY <1>15, <2>1, <2>3 DEF DaemonComplete, WiresInv
<1>16. CASE DaemonQuery
  <2>1. WiresInv /\ toDaemon' \in Seq(Asked)
    BY <1>16, QueueFacts DEF DaemonQuery, Request, IInv, KindsInv, WiresInv
  <2>2. [op |-> "query", id |-> 0, n |-> 0, data |-> <<>>] \in Answer
    BY EmptyFacts DEF Answer
  <2>3. toClient' \in Seq(Answer)
    BY <1>16, <2>1, <2>2, AppendFacts DEF DaemonQuery, Reply, WiresInv
  <2> QED
    BY <1>16, <2>1, <2>3 DEF DaemonQuery, WiresInv
<1>17. CASE DaemonPush
  <2>1. WiresInv /\ dmn.sent \in Nat
    BY DEF IInv, KindsInv, WiresInv
  <2>2. PICK n \in 1 .. Least(2, MaxRecv - dmn.sent) :
          /\ Reply("read", 0, n, [i \in 1 .. n |-> dmn.sent + i])
          /\ dmn' = [dmn EXCEPT !.sent = dmn.sent + n]
    BY <1>17 DEF DaemonPush
  <2>3. n \in Nat /\ [i \in 1 .. n |-> dmn.sent + i] \in Seq(Nat)
    <3>1. n \in Nat
      BY <2>1, SizesAssumption DEF Least
    <3> QED
      BY <2>1, <3>1
  <2>4. [op |-> "read", id |-> 0, n |-> n, data |-> [i \in 1 .. n |-> dmn.sent + i]] \in Answer
    BY <2>3 DEF Answer
  <2>5. toClient' \in Seq(Answer)
    BY <2>1, <2>2, <2>4, AppendFacts DEF Reply, WiresInv
  <2> QED
    <3>1. dmn.sent + n \in Nat
      BY <2>1, <2>3
    <3>2. dmn' \in [hung : BOOLEAN, opened : BOOLEAN, owed : Seq(Stored), sent : Nat,
                    stored : SUBSET Stored]
      BY <2>1, <2>2, <3>1 DEF WiresInv
    <3> QED
      BY <1>17, <2>1, <2>5, <3>2 DEF DaemonPush, WiresInv
<1>18. CASE UNCHANGED vars
  BY <1>18, EmptyFacts
  DEF vars, client, thread, wires, history, IInv, KindsInv, WiresInv
<1> QED
  BY <1>1, <1>2, <1>3, <1>4, <1>5, <1>6, <1>7, <1>8, <1>9, <1>10, <1>11, <1>12, <1>13, <1>14,
    <1>15, <1>16, <1>17, <1>18
  DEF Next, MainStep, WriteStep, QueryStep, RdStep, DaemonStep

(* The histories.                                                          *)
LEMMA NextHistory == ASSUME IInv, [Next]_vars PROVE HistoryInv'
<1>1. CASE MainStep \/ CloseDelFd
  BY <1>1
  DEF MainStep, SockInit, OpenSend, ComesLate, OpenWake, OpenRefused, OpenAddFd, OpenPublish,
    CloseLock,
    CloseTrig, CloseDelFd, Go, Fault, Touch, Send, LeaveTells, TrigClose, client, thread,
    wires, history, IInv, KindsInv, HistoryInv
<1>2. ASSUME NEW t \in Callers, Enter(t) PROVE HistoryInv'
  BY <1>2
  DEF Enter, Go, client, thread, wires, history, IInv, KindsInv, HistoryInv
<1>3. ASSUME NEW w \in Writers, WriteNext(w) \/ WriteStore(w) PROVE HistoryInv'
  BY <1>3
  DEF WriteNext, WriteStore, Go, Fault, client, thread, wires, history, IInv, KindsInv,
    HistoryInv
<1>4. ASSUME NEW w \in Writers, WriteSend(w) PROVE HistoryInv'
  <2>1. w \in Threads /\ KindsInv /\ HistoryInv /\ op[w].sta \in Int /\ op[w].cpl \in Int
    BY ThreadFacts DEF IInv, KindsInv, CallsInv, Op
  <2>2. ASSUME NEW n \in Int, NEW how \in {"exit", "done", "timeout"}, WriteEnd(w, n, how)
        PROVE  log' \in [Writers -> Seq(Entry)]
    BY <2>1, <2>2, EndFacts
  <2>3. log' \in [Writers -> Seq(Entry)]
    BY <1>4, <2>1, <2>2 DEF WriteSend, HistoryInv
  <2> QED
    BY <1>4, <2>1, <2>3 DEF WriteSend, HistoryInv
<1>5. ASSUME NEW w \in Writers, WriteWake(w) PROVE HistoryInv'
  <2>1. w \in Threads /\ KindsInv /\ HistoryInv /\ op[w].sta \in Int /\ op[w].cpl \in Int
    BY ThreadFacts DEF IInv, KindsInv, CallsInv, Op
  <2>2. ASSUME NEW n \in Int, NEW how \in {"exit", "done", "timeout"}, WriteEnd(w, n, how)
        PROVE  log' \in [Writers -> Seq(Entry)]
    BY <2>1, <2>2, EndFacts
  <2>3. log' \in [Writers -> Seq(Entry)]
    BY <1>5, <2>1, <2>2 DEF WriteWake, HistoryInv
  <2> QED
    BY <1>5, <2>1, <2>3 DEF WriteWake, HistoryInv
<1>6. ASSUME NEW w \in Writers, WriteTimeout(w) PROVE HistoryInv'
  <2>1. w \in Threads /\ KindsInv /\ HistoryInv /\ op[w].sta \in Int /\ op[w].cpl \in Int
    BY ThreadFacts DEF IInv, KindsInv, CallsInv, Op
  <2>2. ASSUME NEW n \in Int, NEW how \in {"exit", "done", "timeout"}, WriteEnd(w, n, how)
        PROVE  log' \in [Writers -> Seq(Entry)]
    BY <2>1, <2>2, EndFacts
  <2>3. log' \in [Writers -> Seq(Entry)]
    BY <1>6, <2>1, <2>2 DEF WriteTimeout, HistoryInv
  <2> QED
    BY <1>6, <2>1, <2>3 DEF WriteTimeout, HistoryInv
<1>7. ASSUME NEW r \in Readers, ReadTimeout(r) PROVE HistoryInv'
  BY <1>7
  DEF ReadTimeout, Go, Touch, Leave, LeaveTells, client, thread, wires, history, IInv,
    KindsInv, HistoryInv
<1>8. ASSUME NEW r \in Readers, Read(r) PROVE HistoryInv'
  <2> DEFINE n == Least(ReadLen, Len(sock.rx_rb))
  <2>1. HistoryInv /\ sock.rx_rb \in Seq(Nat) /\ Len(sock.rx_rb) \in Nat
    BY DEF IInv, KindsInv, SessionInv, Session
  <2>2. n \in 0 .. Len(sock.rx_rb)
    BY <2>1, SizesAssumption DEF Least
  <2>3. got' = got \/ got' = got \o SubSeq(sock.rx_rb, 1, n)
    BY <1>8 DEF Read
  <2> HIDE DEF n
  <2>4. SubSeq(sock.rx_rb, 1, n) \in Seq(Nat)
    BY ONLY <2>1, <2>2, PartFacts
  <2>5. got' \in Seq(Nat)
    BY ONLY <2>1, <2>3, <2>4, ConcatProperties DEF HistoryInv
  <2> QED
    BY <1>8, <2>1, <2>5 DEF Read, HistoryInv
<1>9. ASSUME NEW q \in Queriers, QueryStep(q) PROVE HistoryInv'
  BY <1>9
  DEF QueryStep, QuerySend, QueryWake, Go, Fault, Touch, Send, Sleep, Leave, LeaveTells,
    client, thread, wires, history, IInv, KindsInv, HistoryInv
<1>10. CASE Discard
  <2>1. ToSet(sock.rx_rb) \subseteq Nat /\ HistoryInv
    BY Elements DEF IInv, KindsInv, SessionInv, Session
  <2> QED
    BY <1>10, <2>1 DEF Discard, HistoryInv
<1>11. ASSUME NEW t \in Threads, Spurious(t) PROVE HistoryInv'
  BY <1>11
  DEF Spurious, Go, client, thread, wires, history, IInv, KindsInv, HistoryInv
<1>12. CASE RdCheck \/ RdRecv \/ RdNotFound \/ RdEnd \/ RdDeinitWait \/ RdListEmpty \/ RdFree
  BY <1>12
  DEF RdCheck, RdRecv, RdNotFound, RdEnd, RdDeinitWait, RdListEmpty, RdFree, Woken, client,
    thread, wires,
    history, IInv, KindsInv, HistoryInv
<1>13. CASE RdProc
  <2>1. KindsInv /\ HistoryInv
    BY DEF IInv, KindsInv
  <2>2. leaked' \subseteq Nat
    BY <1>13, <2>1, ProcFacts
  <2> QED
    BY <1>13, <2>1, <2>2 DEF RdProc, HistoryInv
<1>14. CASE DaemonStep \/ DaemonPush \/ HangUp
  BY <1>14
  DEF DaemonStep, DaemonOpen, DaemonWrite, DaemonComplete, DaemonQuery, DaemonPush, HangUp,
    Request, Reply, client, thread, wires, history, IInv, KindsInv, HistoryInv
<1>15. CASE UNCHANGED vars
  BY <1>15
  DEF vars, client, thread, wires, history, IInv, KindsInv, HistoryInv
<1> QED
  BY <1>1, <1>2, <1>3, <1>4, <1>5, <1>6, <1>7, <1>8, <1>9, <1>10, <1>11, <1>12, <1>13, <1>14,
    <1>15
  DEF Next, MainStep, WriteStep, QueryStep, RdStep, DaemonStep

(* Who waits is on the list.                                               *)
LEMMA NextWaiting == ASSUME IInv, [Next]_vars PROVE WaitingInv'
<1>1. CASE SockInit
  BY <1>1, ThreadFacts
  DEF SockInit, Go, client, thread, wires, history, IInv, KindsInv, CallsInv, SessionInv,
    Session, ThreadInv, Places, WaitingInv
<1>2. CASE OpenSend
  BY <1>2, ThreadFacts
  DEF OpenSend, ComesLate, Go, Fault, Touch, Send, client, thread, wires, history, IInv,
    KindsInv, CallsInv, SessionInv, Session, ThreadInv, Places, WaitingInv
<1>3. CASE OpenWake
  <2>1. /\ WaitingInv /\ sock \in Session /\ pc \in [Threads -> Places] /\ Main \in Threads
        /\ ThreadInv
    BY ThreadFacts DEF IInv, KindsInv, SessionInv, CallsInv
  <2>2. late' = late /\ pc[Main] = "woken"
    BY <1>3 DEF OpenWake, history
  <2>3. CASE Fault(Main) /\ UNCHANGED rd
    BY <2>1, <2>2, <2>3 DEF Fault, Go, WaitingInv
  <2>4. CASE ~ (Fault(Main) /\ UNCHANGED rd)
    <3>1. /\ sock' = [sock EXCEPT !.head = sock.head \ {Main}] /\ LeaveTells
          /\ sock.mem = "live"
      BY <1>3, <2>4 DEF OpenWake, Touch
    <3>2. PICK p \in {"failed", "refused", "opened"} : pc' = [pc EXCEPT ![Main] = p]
      BY <1>3, <2>4 DEF OpenWake, Go
    <3>3. \/ rd' = rd
          \/ rd.pc = "exitwait" /\ rd'.pc = "deinit"
      BY <2>1, <3>1 DEF LeaveTells, ThreadInv
    <3>4. /\ sock'.head = sock.head \ {Main} /\ sock'.mem = sock.mem
          /\ sock'.exit_flg = sock.exit_flg
      BY <2>1, <3>1 DEF Session
    <3> QED
      BY <2>1, <2>2, <3>1, <3>2, <3>3, <3>4 DEF WaitingInv
  <2> QED
    BY <2>3, <2>4
<1>4. CASE OpenRefused
  BY <1>4, ThreadFacts
  DEF OpenRefused, Go, Fault, TrigClose, client, thread, wires, history, IInv, KindsInv,
    CallsInv, SessionInv, Session, ThreadInv, Places, WaitingInv
<1>5. CASE OpenAddFd
  BY <1>5, ThreadFacts
  DEF OpenAddFd, Go, client, thread, wires, history, IInv, KindsInv, CallsInv, SessionInv,
    Session, ThreadInv, Places, WaitingInv
<1>6. CASE OpenPublish
  <2>1. WaitingInv /\ sock \in Session /\ pc \in [Threads -> Places] /\ Main \in Threads
    BY ThreadFacts DEF IInv, KindsInv, SessionInv, CallsInv
  <2>2. /\ pc' = [pc EXCEPT ![Main] = pc'[Main]] /\ pc'[Main] \in {"open", "fault"} /\ rd' = rd
        /\ late' = late
    BY <1>6, <2>1 DEF OpenPublish, Fault, Go, thread, history
  <2>3. sock'.head = sock.head /\ sock'.mem = sock.mem /\ sock'.exit_flg = sock.exit_flg
    BY <1>6, <2>1 DEF OpenPublish, Fault, Session
  <2> QED
    BY <1>6, <2>1, <2>2, <2>3 DEF OpenPublish, WaitingInv
<1>7. CASE CloseLock
  BY <1>7, ThreadFacts
  DEF CloseLock, ComesLate, Go, Fault, Touch, client, thread, wires, history, IInv, KindsInv,
    CallsInv,
    SessionInv, Session, ThreadInv, Places, WaitingInv
<1>8. CASE CloseTrig
  BY <1>8, ThreadFacts
  DEF CloseTrig, Fault, Go, TrigClose, client, thread, wires, history, IInv, KindsInv, CallsInv,
    SessionInv, Session, ThreadInv, Places, WaitingInv
<1>9. CASE CloseDelFd
  BY <1>9, ThreadFacts
  DEF CloseDelFd, Go, client, thread, wires, history, IInv, KindsInv, CallsInv, SessionInv,
    Session, ThreadInv, Places, WaitingInv
<1>10. ASSUME NEW t \in Callers, Enter(t) PROVE WaitingInv'
  BY <1>10, ThreadFacts
  DEF Enter, Go, client, thread, wires, history, IInv, KindsInv, CallsInv, SessionInv, Session,
    ThreadInv, Places, WaitingInv
<1>11. ASSUME NEW w \in Writers, WriteNext(w) PROVE WaitingInv'
  BY <1>11, ThreadFacts
  DEF WriteNext, Go, Fault, client, thread, wires, history, IInv, KindsInv, CallsInv,
    SessionInv, Session, ThreadInv, Places, WaitingInv
<1>12. ASSUME NEW w \in Writers, WriteStore(w) PROVE WaitingInv'
  <2>1. /\ w \in Threads \ {Main} /\ WaitingInv /\ sock \in Session
        /\ pc \in [Threads -> Places] /\ Main \in Threads
    BY ThreadFacts DEF IInv, KindsInv, SessionInv, CallsInv
  <2>2. /\ sock'.head = sock.head /\ sock'.mem = sock.mem /\ sock'.exit_flg = sock.exit_flg
        /\ rd' = rd /\ late' = late
    BY <1>12, <2>1 DEF WriteStore, Fault, Session, thread, history
  <2>3. \/ pc' = [pc EXCEPT ![w] = "lock"]
        \/ pc' = [pc EXCEPT ![w] = "fault"]
    BY <1>12 DEF WriteStore, Fault, Go
  <2>4. pc[w] = "store"
    BY <1>12 DEF WriteStore
  <2> QED
    BY <2>1, <2>2, <2>3, <2>4 DEF WaitingInv
<1>13. ASSUME NEW w \in Writers, WriteSend(w) PROVE WaitingInv'
  <2>1. /\ w \in Threads \ {Main} /\ KindsInv /\ WaitingInv /\ sock \in Session
        /\ pc \in [Threads -> Places] /\ Main \in Threads
    BY ThreadFacts DEF IInv, KindsInv, SessionInv, CallsInv
  <2>9. late' = late
    BY <1>13 DEF WriteSend, history
  <2>2. ASSUME Leave(w), NEW p \in {"next", "idle"}, pc' = [pc EXCEPT ![w] = p]
        PROVE  WaitingInv'
    <3>1. sock' = [sock EXCEPT !.head = sock.head \ {w}] /\ (rd' = rd \/ rd'.pc = "deinit")
      BY <2>1, <2>2 DEF Leave, LeaveTells, KindsInv, ThreadInv
    <3>2. rd'.pc = "deinit" => rd.pc \in {"deinit", "exitwait"}
      BY <2>2 DEF Leave, LeaveTells
    <3> QED
      BY <2>1, <2>2, <2>9, <3>1, <3>2 DEF WaitingInv, Session
  <2>3. ASSUME Sleep(w), sock.mem = "live", ~ sock.exit_flg PROVE WaitingInv'
    BY <2>1, <2>3, <2>9 DEF WaitingInv, Session, Sleep, Go
  <2>4. CASE Fault(w) /\ pc[w] = "lock" /\ UNCHANGED rd
    BY <2>1, <2>4, <2>9 DEF WaitingInv, Session, Fault, Go
  <2>5. ASSUME NEW n, NEW how, WriteEnd(w, n, how) PROVE WaitingInv'
    BY <2>2, <2>5 DEF WriteEnd, Go
  <2> QED
    BY <1>13, <2>3, <2>4, <2>5 DEF WriteSend, Touch
<1>14. ASSUME NEW w \in Writers, WriteWake(w) PROVE WaitingInv'
  <2>1. /\ w \in Threads \ {Main} /\ KindsInv /\ WaitingInv /\ sock \in Session
        /\ pc \in [Threads -> Places] /\ Main \in Threads
    BY ThreadFacts DEF IInv, KindsInv, SessionInv, CallsInv
  <2>9. late' = late
    BY <1>14 DEF WriteWake, history
  <2>2. ASSUME Leave(w), NEW p \in {"next", "idle"}, pc' = [pc EXCEPT ![w] = p]
        PROVE  WaitingInv'
    <3>1. sock' = [sock EXCEPT !.head = sock.head \ {w}] /\ (rd' = rd \/ rd'.pc = "deinit")
      BY <2>1, <2>2 DEF Leave, LeaveTells, KindsInv, ThreadInv
    <3>2. rd'.pc = "deinit" => rd.pc \in {"deinit", "exitwait"}
      BY <2>2 DEF Leave, LeaveTells
    <3> QED
      BY <2>1, <2>2, <2>9, <3>1, <3>2 DEF WaitingInv, Session
  <2>3. ASSUME Sleep(w), sock.mem = "live", ~ sock.exit_flg PROVE WaitingInv'
    BY <2>1, <2>3, <2>9 DEF WaitingInv, Session, Sleep, Go
  <2>4. CASE Fault(w) /\ pc[w] = "lock" /\ UNCHANGED rd
    BY <2>1, <2>4, <2>9 DEF WaitingInv, Session, Fault, Go
  <2>5. ASSUME NEW n, NEW how, WriteEnd(w, n, how) PROVE WaitingInv'
    BY <2>2, <2>5 DEF WriteEnd, Go
  <2> QED
    BY <1>14, <2>3, <2>4, <2>5 DEF WriteWake, Touch
<1>15. ASSUME NEW w \in Writers, WriteTimeout(w) PROVE WaitingInv'
  BY <1>15, ThreadFacts
  DEF WriteTimeout, Go, Touch, WriteEnd, Leave, LeaveTells, client, thread, wires, history,
    IInv, KindsInv, CallsInv, SessionInv, Session, ThreadInv, Places, WaitingInv
<1>16. ASSUME NEW r \in Readers, Read(r) PROVE WaitingInv'
  <2>1. /\ r \in Threads \ {Main} /\ KindsInv /\ WaitingInv /\ sock \in Session
        /\ pc \in [Threads -> Places] /\ Main \in Threads
    BY ThreadFacts DEF IInv, KindsInv, SessionInv, CallsInv
  <2>9. late' = late
    BY <1>16 DEF Read, history
  <2>2. ASSUME Leave(r), NEW p \in {"next", "idle"}, pc' = [pc EXCEPT ![r] = p]
        PROVE  WaitingInv'
    <3>1. sock' = [sock EXCEPT !.head = sock.head \ {r}] /\ (rd' = rd \/ rd'.pc = "deinit")
      BY <2>1, <2>2 DEF Leave, LeaveTells, KindsInv, ThreadInv
    <3>2. rd'.pc = "deinit" => rd.pc \in {"deinit", "exitwait"}
      BY <2>2 DEF Leave, LeaveTells
    <3> QED
      BY <2>1, <2>2, <2>9, <3>1, <3>2 DEF WaitingInv, Session
  <2>3. ASSUME Sleep(r), sock.mem = "live", ~ sock.exit_flg PROVE WaitingInv'
    BY <2>1, <2>3, <2>9 DEF WaitingInv, Session, Sleep, Go
  <2>4. CASE Fault(r) /\ pc[r] = "lock" /\ UNCHANGED rd
    BY <2>1, <2>4, <2>9 DEF WaitingInv, Session, Fault, Go
  <2>5. CASE got' = got \o SubSeq(sock.rx_rb, 1, Least(ReadLen, Len(sock.rx_rb)))
             /\ sock' = [sock EXCEPT !.head = sock.head \ {r},
                           !.rx_rb = SubSeq(sock.rx_rb, Least(ReadLen, Len(sock.rx_rb)) + 1,
                                            Len(sock.rx_rb))]
             /\ Go(r, "idle") /\ UNCHANGED rd
    <3> DEFINE rb == SubSeq(sock.rx_rb, Least(ReadLen, Len(sock.rx_rb)) + 1, Len(sock.rx_rb))
    <3>1. sock' = [sock EXCEPT !.head = sock.head \ {r}, !.rx_rb = rb]
      BY <2>5
    <3> HIDE DEF rb
    <3>2. /\ sock'.head = sock.head \ {r} /\ sock'.mem = sock.mem
          /\ sock'.exit_flg = sock.exit_flg
      BY <2>1, <3>1 DEF Session
    <3>3. pc' = [pc EXCEPT ![r] = "idle"] /\ UNCHANGED rd
      BY <2>5 DEF Go
    <3>4. \A t \in Threads :
            /\ pc'[t] \in {"asleep", "woken"} => t \in sock'.head
            /\ t \in sock'.head => pc'[t] \in {"asleep", "woken"} \/ sock'.mem = "freed"
            /\ pc'[t] = "trig" => t = Main
      BY <2>1, <3>2, <3>3 DEF WaitingInv
    <3>5. pc'[Main] = pc[Main] /\ rd' = rd /\ sock'.head \subseteq sock.head
      BY <2>1, <3>2, <3>3
    <3> QED
      BY <2>1, <2>9, <3>2, <3>4, <3>5 DEF WaitingInv
  <2>6. CASE Leave(r) /\ Go(r, "idle")
    BY <2>2, <2>6 DEF Go
  <2>7. CASE Sleep(r) /\ Touch(r) /\ ~ sock.exit_flg
    BY <2>3, <2>7 DEF Touch
  <2> QED
    BY <1>16, <2>1, <2>4, <2>5, <2>6, <2>7 DEF Read, Session
<1>17. ASSUME NEW r \in Readers, ReadTimeout(r) PROVE WaitingInv'
  BY <1>17, ThreadFacts
  DEF ReadTimeout, Go, Touch, Leave, LeaveTells, client, thread, wires, history, IInv,
    KindsInv, CallsInv, SessionInv, Session, ThreadInv, Places, WaitingInv
<1>18. ASSUME NEW q \in Queriers, QuerySend(q) PROVE WaitingInv'
  <2>1. /\ q \in Threads \ {Main} /\ KindsInv /\ WaitingInv /\ sock \in Session
        /\ pc \in [Threads -> Places] /\ Main \in Threads
    BY ThreadFacts DEF IInv, KindsInv, SessionInv, CallsInv
  <2>9. late' = late
    BY <1>18 DEF QuerySend, history
  <2>2. ASSUME Leave(q), NEW p \in {"next", "idle"}, pc' = [pc EXCEPT ![q] = p]
        PROVE  WaitingInv'
    <3>1. sock' = [sock EXCEPT !.head = sock.head \ {q}] /\ (rd' = rd \/ rd'.pc = "deinit")
      BY <2>1, <2>2 DEF Leave, LeaveTells, KindsInv, ThreadInv
    <3>2. rd'.pc = "deinit" => rd.pc \in {"deinit", "exitwait"}
      BY <2>2 DEF Leave, LeaveTells
    <3> QED
      BY <2>1, <2>2, <2>9, <3>1, <3>2 DEF WaitingInv, Session
  <2>3. ASSUME Sleep(q), sock.mem = "live", ~ sock.exit_flg PROVE WaitingInv'
    BY <2>1, <2>3, <2>9 DEF WaitingInv, Session, Sleep, Go
  <2>4. CASE Fault(q) /\ pc[q] = "lock" /\ UNCHANGED rd
    BY <2>1, <2>4, <2>9 DEF WaitingInv, Session, Fault, Go
  <2> QED
    BY <1>18, <2>2, <2>3, <2>4 DEF QuerySend, Touch, Go
<1>19. ASSUME NEW q \in Queriers, QueryWake(q) PROVE WaitingInv'
  <2>1. /\ q \in Threads \ {Main} /\ KindsInv /\ WaitingInv /\ sock \in Session
        /\ pc \in [Threads -> Places] /\ Main \in Threads
    BY ThreadFacts DEF IInv, KindsInv, SessionInv, CallsInv
  <2>9. late' = late
    BY <1>19 DEF QueryWake, history
  <2>2. ASSUME Leave(q), NEW p \in {"next", "idle"}, pc' = [pc EXCEPT ![q] = p]
        PROVE  WaitingInv'
    <3>1. sock' = [sock EXCEPT !.head = sock.head \ {q}] /\ (rd' = rd \/ rd'.pc = "deinit")
      BY <2>1, <2>2 DEF Leave, LeaveTells, KindsInv, ThreadInv
    <3>2. rd'.pc = "deinit" => rd.pc \in {"deinit", "exitwait"}
      BY <2>2 DEF Leave, LeaveTells
    <3> QED
      BY <2>1, <2>2, <2>9, <3>1, <3>2 DEF WaitingInv, Session
  <2>3. ASSUME Sleep(q), sock.mem = "live", ~ sock.exit_flg PROVE WaitingInv'
    BY <2>1, <2>3, <2>9 DEF WaitingInv, Session, Sleep, Go
  <2>4. CASE Fault(q) /\ pc[q] = "lock" /\ UNCHANGED rd
    BY <2>1, <2>4, <2>9 DEF WaitingInv, Session, Fault, Go
  <2> QED
    BY <1>19, <2>2, <2>3, <2>4 DEF QueryWake, Touch, Go
<1>20. CASE Discard
  BY <1>20, ThreadFacts
  DEF Discard, client, thread, wires, history, IInv, KindsInv, CallsInv, SessionInv, Session,
    ThreadInv, Places, WaitingInv
<1>21. ASSUME NEW t \in Threads, Spurious(t) PROVE WaitingInv'
  BY <1>21, ThreadFacts
  DEF Spurious, Go, client, thread, wires, history, IInv, KindsInv, CallsInv, SessionInv,
    Session, ThreadInv, Places, WaitingInv
<1>22. CASE RdCheck
  BY <1>22, ThreadFacts
  DEF RdCheck, client, thread, wires, history, IInv, KindsInv, CallsInv, SessionInv, Session,
    ThreadInv, Places, WaitingInv
<1>23. CASE RdRecv
  BY <1>23, ThreadFacts
  DEF RdRecv, client, thread, wires, history, IInv, KindsInv, CallsInv, SessionInv, Session,
    ThreadInv, Places, WaitingInv
<1>24. CASE RdNotFound
  BY <1>24, ThreadFacts
  DEF RdNotFound, client, thread, wires, history, IInv, KindsInv, CallsInv, SessionInv,
    Session, ThreadInv, Places, WaitingInv
<1>25. CASE RdProc
  <2>1. KindsInv /\ WaitingInv
    BY DEF IInv
  <2>2. /\ sock'.head = sock.head /\ sock'.mem = sock.mem /\ sock'.exit_flg = sock.exit_flg
        /\ pc' = Woken \/ pc' = pc
        /\ rd'.pc \in {"check", "proc"} /\ SomtxFree
    BY <1>25, <2>1, ProcFacts
  <2>3. late' = late /\ rd.pc = "proc"
    BY <1>25 DEF RdProc
  <2> QED
    BY <2>1, <2>2, <2>3 DEF WaitingInv, Woken, KindsInv, CallsInv, SomtxFree, Threads
<1>26. CASE RdEnd
  BY <1>26, ThreadFacts
  DEF RdEnd, client, thread, wires, history, IInv, KindsInv, CallsInv, SessionInv, Session,
    ThreadInv, Places, WaitingInv
<1>27. CASE RdDeinitWait
  BY <1>27, ThreadFacts
  DEF RdDeinitWait, Woken, client, thread, wires, history, IInv, KindsInv, CallsInv,
    SessionInv, Session, ThreadInv, Places, WaitingInv
<1>28. CASE RdListEmpty \/ RdFree
  <2>1. WaitingInv /\ sock \in Session /\ ThreadInv
    BY DEF IInv, KindsInv, SessionInv
  <2>2. CASE RdListEmpty
    <3>1. UNCHANGED <<pc, sock, late>> /\ rd'.pc = "free" /\ rd.pc = "deinit"
      BY <2>1, <2>2 DEF RdListEmpty, ThreadInv, client, history
    <3>2. sock.head = {} /\ pc[Main] # "trig"
      BY <2>2 DEF RdListEmpty, SomtxFree
    <3> QED
      BY <2>1, <3>1, <3>2 DEF WaitingInv
  <2>3. CASE RdFree
    <3>1. /\ sock' = [sock EXCEPT !.mem = "freed"] /\ UNCHANGED <<pc, late>>
          /\ rd.pc = "free" /\ rd'.pc = "over"
      BY <2>1, <2>3 DEF RdFree, ThreadInv, history
    <3> QED
      BY <2>1, <3>1 DEF WaitingInv, Session
  <2> QED
    BY <1>28, <2>2, <2>3
<1>29. CASE DaemonStep \/ DaemonPush \/ HangUp
  BY <1>29, ThreadFacts
  DEF DaemonStep, DaemonOpen, DaemonWrite, DaemonComplete, DaemonQuery, DaemonPush, HangUp,
    Request, Reply, client, thread, wires, history, IInv, KindsInv, CallsInv, SessionInv,
    Session, ThreadInv, Places, WaitingInv
<1>30. CASE UNCHANGED vars
  BY <1>30, ThreadFacts
  DEF vars, client, thread, wires, history, IInv, KindsInv, CallsInv, SessionInv, Session,
    ThreadInv, Places, WaitingInv
<1> QED
  BY <1>1, <1>2, <1>3, <1>4, <1>5, <1>6, <1>7, <1>8, <1>9, <1>10, <1>11, <1>12, <1>13, <1>14,
    <1>15, <1>16, <1>17, <1>18, <1>19, <1>20, <1>21, <1>22, <1>23, <1>24, <1>25, <1>26, <1>27,
    <1>28, <1>29, <1>30
  DEF Next, MainStep, WriteStep, QueryStep, RdStep, DaemonStep

(* Readers sleep on the empty ring.                                        *)
LEMMA NextSleep == ASSUME IInv, [Next]_vars PROVE SleepInv'
<1>1. CASE SockInit
  BY <1>1, ThreadFacts
  DEF SockInit, Go, client, thread, wires, history, IInv, KindsInv, CallsInv, SessionInv,
    Session, Places, WaitingInv, SleepInv
<1>2. CASE OpenSend
  BY <1>2, ThreadFacts
  DEF OpenSend, ComesLate, Go, Fault, Touch, Send, client, thread, wires, history, IInv,
    KindsInv,
    CallsInv, SessionInv, Session, Places, WaitingInv, SleepInv
<1>3. CASE OpenWake
  BY <1>3, ThreadFacts
  DEF OpenWake, Fault, Go, Touch, LeaveTells, client, thread, wires, history, IInv, KindsInv,
    CallsInv, SessionInv, Session, Places, WaitingInv, SleepInv
<1>4. CASE OpenRefused
  BY <1>4, ThreadFacts
  DEF OpenRefused, Go, Fault, TrigClose, client, thread, wires, history, IInv, KindsInv,
    CallsInv, SessionInv, Session, Places, WaitingInv, SleepInv
<1>5. CASE OpenAddFd
  BY <1>5, ThreadFacts
  DEF OpenAddFd, Go, client, thread, wires, history, IInv, KindsInv, CallsInv, SessionInv,
    Session, Places, WaitingInv, SleepInv
<1>6. CASE OpenPublish
  BY <1>6, ThreadFacts
  DEF OpenPublish, Go, Fault, client, thread, wires, history, IInv, KindsInv, CallsInv,
    SessionInv, Session, Places, WaitingInv, SleepInv
<1>7. CASE CloseLock
  BY <1>7, ThreadFacts
  DEF CloseLock, ComesLate, Go, Fault, Touch, client, thread, wires, history, IInv, KindsInv,
    CallsInv,
    SessionInv, Session, Places, WaitingInv, SleepInv
<1>8. CASE CloseTrig
  BY <1>8, ThreadFacts
  DEF CloseTrig, Fault, Go, TrigClose, client, thread, wires, history, IInv, KindsInv, CallsInv,
    SessionInv, Session, Places, WaitingInv, SleepInv
<1>9. CASE CloseDelFd
  BY <1>9, ThreadFacts
  DEF CloseDelFd, Go, client, thread, wires, history, IInv, KindsInv, CallsInv, SessionInv,
    Session, Places, WaitingInv, SleepInv
<1>10. ASSUME NEW t \in Callers, Enter(t) PROVE SleepInv'
  BY <1>10, ThreadFacts
  DEF Enter, Go, client, thread, wires, history, IInv, KindsInv, CallsInv, SessionInv, Session,
    Places, WaitingInv, SleepInv
<1>11. ASSUME NEW w \in Writers, WriteNext(w) PROVE SleepInv'
  BY <1>11, ThreadFacts
  DEF WriteNext, Go, Fault, client, thread, wires, history, IInv, KindsInv, CallsInv,
    SessionInv, Session, Places, WaitingInv, SleepInv
<1>12. ASSUME NEW w \in Writers, WriteStore(w) PROVE SleepInv'
  BY <1>12, ThreadFacts
  DEF WriteStore, Go, Fault, client, thread, wires, history, IInv, KindsInv, CallsInv,
    SessionInv, Session, Places, WaitingInv, SleepInv
<1>13. ASSUME NEW w \in Writers, WriteSend(w) PROVE SleepInv'
  BY <1>13, ThreadFacts
  DEF WriteSend, Go, Fault, Touch, Send, WriteEnd, Sleep, Leave, LeaveTells, client, thread,
    wires, history, IInv, KindsInv, CallsInv, SessionInv, Session, Places, WaitingInv, SleepInv
<1>14. ASSUME NEW w \in Writers, WriteWake(w) PROVE SleepInv'
  BY <1>14, ThreadFacts
  DEF WriteWake, Go, Touch, WriteEnd, Sleep, Leave, LeaveTells, client, thread, wires, history,
    IInv, KindsInv, CallsInv, SessionInv, Session, Places, WaitingInv, SleepInv
<1>15. ASSUME NEW w \in Writers, WriteTimeout(w) PROVE SleepInv'
  BY <1>15, ThreadFacts
  DEF WriteTimeout, Go, Touch, WriteEnd, Leave, LeaveTells, client, thread, wires, history,
    IInv, KindsInv, CallsInv, SessionInv, Session, Places, WaitingInv, SleepInv
<1>16. ASSUME NEW r \in Readers, Read(r) PROVE SleepInv'
  <2>1. SleepInv /\ sock.rx_rb \in Seq(Nat) /\ pc \in [Threads -> Places] /\ r \in Threads
        /\ ReadLen \in Nat \ {0} /\ sock \in Session /\ Readers \subseteq Threads
    BY ThreadFacts, SizesAssumption DEF IInv, KindsInv, SessionInv, CallsInv, Session
  <2>2. pc' = [pc EXCEPT ![r] = pc'[r]]
    BY <1>16, <2>1 DEF Read, Fault, Go, Sleep
  <2>3. ASSUME NEW s \in Readers, pc'[s] = "asleep" PROVE sock'.rx_rb = <<>>
    <3>1. CASE pc'[r] = "asleep"
      <4>1. Least(ReadLen, Len(sock.rx_rb)) = 0
              /\ sock' = [sock EXCEPT !.head = sock.head \cup {r}]
        BY <1>16, <2>1, <3>1 DEF Read, Fault, Go, Sleep
      <4>2. Len(sock.rx_rb) = 0
        BY <2>1, <4>1 DEF Least
      <4>3. sock.rx_rb = <<>>
        BY <2>1, <4>2
      <4> QED
        BY <2>1, <4>1, <4>3 DEF Session
    <3>2. CASE pc'[r] # "asleep"
      <4>1. pc[s] = "asleep" /\ sock.rx_rb = <<>>
        BY <2>1, <2>2, <2>3, <3>2 DEF SleepInv
      <4>2. Least(ReadLen, Len(sock.rx_rb)) = 0
        BY <2>1, <4>1 DEF Least
      <4>3. sock' = sock \/ sock' = [sock EXCEPT !.head = sock.head \ {r}]
             \/ sock' = [sock EXCEPT !.head = sock.head \cup {r}]
        BY <1>16, <4>2 DEF Read, Fault, Leave, Sleep
      <4> QED
        BY <2>1, <4>1, <4>3 DEF Session
    <3> QED
      BY <3>1, <3>2
  <2> QED
    BY <2>3 DEF SleepInv
<1>17. ASSUME NEW r \in Readers, ReadTimeout(r) PROVE SleepInv'
  BY <1>17, ThreadFacts
  DEF ReadTimeout, Go, Touch, Leave, LeaveTells, client, thread, wires, history, IInv,
    KindsInv, CallsInv, SessionInv, Session, Places, WaitingInv, SleepInv
<1>18. ASSUME NEW q \in Queriers, QuerySend(q) PROVE SleepInv'
  BY <1>18, ThreadFacts
  DEF QuerySend, Go, Fault, Touch, Send, Sleep, Leave, LeaveTells, client, thread, wires,
    history, IInv, KindsInv, CallsInv, SessionInv, Session, Places, WaitingInv, SleepInv
<1>19. ASSUME NEW q \in Queriers, QueryWake(q) PROVE SleepInv'
  BY <1>19, ThreadFacts
  DEF QueryWake, Go, Touch, Sleep, Leave, LeaveTells, client, thread, wires, history, IInv,
    KindsInv, CallsInv, SessionInv, Session, Places, WaitingInv, SleepInv
<1>20. CASE Discard
  BY <1>20, ThreadFacts
  DEF Discard, client, thread, wires, history, IInv, KindsInv, CallsInv, SessionInv, Session,
    Places, WaitingInv, SleepInv
<1>21. ASSUME NEW t \in Threads, Spurious(t) PROVE SleepInv'
  BY <1>21, ThreadFacts
  DEF Spurious, Go, client, thread, wires, history, IInv, KindsInv, CallsInv, SessionInv,
    Session, Places, WaitingInv, SleepInv
<1>22. CASE RdCheck
  BY <1>22, ThreadFacts
  DEF RdCheck, client, thread, wires, history, IInv, KindsInv, CallsInv, SessionInv, Session,
    Places, WaitingInv, SleepInv
<1>23. CASE RdRecv
  BY <1>23, ThreadFacts
  DEF RdRecv, client, thread, wires, history, IInv, KindsInv, CallsInv, SessionInv, Session,
    Places, WaitingInv, SleepInv
<1>24. CASE RdNotFound
  BY <1>24, ThreadFacts
  DEF RdNotFound, client, thread, wires, history, IInv, KindsInv, CallsInv, SessionInv,
    Session, Places, WaitingInv, SleepInv
<1>25. CASE RdProc
  <2>1. KindsInv /\ SleepInv /\ WaitingInv /\ Readers \subseteq Threads
    BY ThreadFacts DEF IInv
  <2>2. CASE pc' = Woken
    BY <2>2, <2>1 DEF Woken, SleepInv
  <2>3. CASE pc' = pc /\ \A t \in sock.head : ~ Wakes(t, Head(rd.buf), sock'.rx_rb)
    <3>1. ASSUME NEW r \in Readers, pc'[r] = "asleep" PROVE sock'.rx_rb = <<>>
      <4>1. r \in sock.head
        BY <2>1, <2>3, <3>1 DEF WaitingInv
      <4> QED
        BY <2>3, <4>1 DEF Wakes
    <3> QED
      BY <3>1 DEF SleepInv
  <2> QED
    BY <1>25, <2>1, <2>2, <2>3, ProcFacts
<1>26. CASE RdEnd
  BY <1>26, ThreadFacts
  DEF RdEnd, client, thread, wires, history, IInv, KindsInv, CallsInv, SessionInv, Session,
    Places, WaitingInv, SleepInv
<1>27. CASE RdDeinitWait
  BY <1>27, ThreadFacts
  DEF RdDeinitWait, Woken, client, thread, wires, history, IInv, KindsInv, CallsInv,
    SessionInv, Session, Places, WaitingInv, SleepInv
<1>28. CASE RdListEmpty \/ RdFree
  BY <1>28, ThreadFacts
  DEF RdListEmpty, RdFree, client, thread, wires, history, IInv, KindsInv, CallsInv,
    SessionInv, Session,
    Places, WaitingInv, SleepInv
<1>29. CASE DaemonStep \/ DaemonPush \/ HangUp
  BY <1>29, ThreadFacts
  DEF DaemonStep, DaemonOpen, DaemonWrite, DaemonComplete, DaemonQuery, DaemonPush, HangUp,
    Request, Reply, client, thread, wires, history, IInv, KindsInv, CallsInv, SessionInv,
    Session, Places, WaitingInv, SleepInv
<1>30. CASE UNCHANGED vars
  BY <1>30, ThreadFacts
  DEF vars, client, thread, wires, history, IInv, KindsInv, CallsInv, SessionInv, Session,
    Places, WaitingInv, SleepInv
<1> QED
  BY <1>1, <1>2, <1>3, <1>4, <1>5, <1>6, <1>7, <1>8, <1>9, <1>10, <1>11, <1>12, <1>13, <1>14,
    <1>15, <1>16, <1>17, <1>18, <1>19, <1>20, <1>21, <1>22, <1>23, <1>24, <1>25, <1>26, <1>27,
    <1>28, <1>29, <1>30
  DEF Next, MainStep, WriteStep, QueryStep, RdStep, DaemonStep

(* Nobody calls, and nothing is received, before the socket is open.       *)
LEMMA NextCalm == ASSUME IInv, [Next]_vars PROVE CalmInv'
<1>1. CASE SockInit
  BY <1>1, ThreadFacts
  DEF SockInit, Go, client, thread, wires, history, IInv, KindsInv, CallsInv, SessionInv,
    Session, Places, WaitingInv, CalmInv, Opening
<1>2. CASE OpenSend
  BY <1>2, ThreadFacts
  DEF OpenSend, ComesLate, Go, Fault, Touch, Send, client, thread, wires, history, IInv,
    KindsInv,
    CallsInv, SessionInv, Session, Places, WaitingInv, CalmInv, Opening
<1>3. CASE OpenWake
  BY <1>3, ThreadFacts
  DEF OpenWake, Fault, Go, Touch, LeaveTells, client, thread, wires, history, IInv, KindsInv,
    CallsInv, SessionInv, Session, Places, WaitingInv, CalmInv, Opening
<1>4. CASE OpenRefused
  BY <1>4, ThreadFacts
  DEF OpenRefused, Go, Fault, TrigClose, client, thread, wires, history, IInv, KindsInv,
    CallsInv, SessionInv, Session, Places, WaitingInv, CalmInv, Opening
<1>5. CASE OpenAddFd
  BY <1>5, ThreadFacts
  DEF OpenAddFd, Go, client, thread, wires, history, IInv, KindsInv, CallsInv, SessionInv,
    Session, Places, WaitingInv, CalmInv, Opening
<1>6. CASE OpenPublish
  <2>1. CalmInv /\ sock \in Session /\ pc \in [Threads -> Places] /\ Main \in Threads
        /\ \A t \in Callers : t \in Threads /\ t # Main
    BY ThreadFacts DEF IInv, KindsInv, SessionInv, CallsInv
  <2>2. CASE Fault(Main)
    BY <2>1, <2>2 DEF Fault, Go, CalmInv, Opening
  <2>3. CASE Go(Main, "open")
             /\ sock' = [sock EXCEPT !.rx_rb = <<>>, !.sockfd = TRUE, !.is_opened = TRUE]
    BY <2>1, <2>3 DEF Go, CalmInv, Opening, Session
  <2> QED
    BY <1>6, <2>2, <2>3 DEF OpenPublish
<1>7. CASE CloseLock
  BY <1>7, ThreadFacts
  DEF CloseLock, ComesLate, Go, Fault, Touch, client, thread, wires, history, IInv, KindsInv,
    CallsInv,
    SessionInv, Session, Places, WaitingInv, CalmInv, Opening
<1>8. CASE CloseTrig
  BY <1>8, ThreadFacts
  DEF CloseTrig, Fault, Go, TrigClose, client, thread, wires, history, IInv, KindsInv, CallsInv,
    SessionInv, Session, Places, WaitingInv, CalmInv, Opening
<1>9. CASE CloseDelFd
  BY <1>9, ThreadFacts
  DEF CloseDelFd, Go, client, thread, wires, history, IInv, KindsInv, CallsInv, SessionInv,
    Session, Places, WaitingInv, CalmInv, Opening
<1>10. ASSUME NEW t \in Callers, Enter(t) PROVE CalmInv'
  BY <1>10, ThreadFacts
  DEF Enter, Go, client, thread, wires, history, IInv, KindsInv, CallsInv, SessionInv, Session,
    Places, WaitingInv, CalmInv, Opening
<1>11. ASSUME NEW w \in Writers, WriteNext(w) PROVE CalmInv'
  BY <1>11, ThreadFacts
  DEF WriteNext, Go, Fault, client, thread, wires, history, IInv, KindsInv, CallsInv,
    SessionInv, Session, Places, WaitingInv, CalmInv, Opening
<1>12. ASSUME NEW w \in Writers, WriteStore(w) PROVE CalmInv'
  <2>1. CalmInv /\ sock \in Session /\ pc \in [Threads -> Places] /\ w \in Callers
        /\ Main \in Threads /\ Main # w
    BY ThreadFacts DEF IInv, KindsInv, SessionInv, CallsInv
  <2>2. pc[w] # "idle" /\ pc'[Main] = pc[Main]
    BY <1>12, <2>1 DEF WriteStore, Fault, Go, Sleep, Leave
  <2>3. ~ Opening /\ ~ Opening'
    BY <2>1, <2>2 DEF CalmInv, Opening
  <2>4. sock'.is_opened = sock.is_opened /\ sock'.rx_rb = sock.rx_rb
    BY <1>12, <2>1 DEF WriteStore, Fault, Sleep, Leave, Session
  <2> QED
    BY <2>1, <2>3, <2>4 DEF CalmInv
<1>13. ASSUME NEW w \in Writers, WriteSend(w) PROVE CalmInv'
  <2>1. CalmInv /\ sock \in Session /\ pc \in [Threads -> Places] /\ w \in Callers
        /\ Main \in Threads /\ Main # w /\ sock.rx_rb \in Seq(Nat) /\ ReadLen \in Nat
    BY ThreadFacts, SizesAssumption DEF IInv, KindsInv, SessionInv, CallsInv, Session
  <2>2. ~ Opening /\ pc'[Main] = pc[Main]
    BY <1>13, <2>1 DEF WriteSend, Fault, Go, Sleep, WriteEnd, CalmInv
  <2>3. ~ Opening'
    BY <2>2 DEF Opening
  <2>4. sock'.is_opened = sock.is_opened /\ (sock.rx_rb = <<>> => sock'.rx_rb = <<>>)
    BY <1>13, <2>1 DEF WriteSend, Fault, Sleep, WriteEnd, Leave, Session
  <2> QED
    BY <2>1, <2>3, <2>4 DEF CalmInv
<1>14. ASSUME NEW w \in Writers, WriteWake(w) PROVE CalmInv'
  BY <1>14, ThreadFacts
  DEF WriteWake, Go, Touch, WriteEnd, Sleep, Leave, LeaveTells, client, thread, wires, history,
    IInv, KindsInv, CallsInv, SessionInv, Session, Places, WaitingInv, CalmInv, Opening
<1>15. ASSUME NEW w \in Writers, WriteTimeout(w) PROVE CalmInv'
  BY <1>15, ThreadFacts
  DEF WriteTimeout, Go, Touch, WriteEnd, Leave, LeaveTells, client, thread, wires, history,
    IInv, KindsInv, CallsInv, SessionInv, Session, Places, WaitingInv, CalmInv, Opening
<1>16. ASSUME NEW r \in Readers, Read(r) PROVE CalmInv'
  <2>1. CalmInv /\ sock \in Session /\ pc \in [Threads -> Places] /\ r \in Callers
        /\ Main \in Threads /\ Main # r /\ sock.rx_rb \in Seq(Nat) /\ ReadLen \in Nat
    BY ThreadFacts, SizesAssumption DEF IInv, KindsInv, SessionInv, CallsInv, Session
  <2>2. ~ Opening /\ pc'[Main] = pc[Main]
    BY <1>16, <2>1 DEF Read, Fault, Go, Sleep, WriteEnd, CalmInv
  <2>3. ~ Opening'
    BY <2>2 DEF Opening
  <2>4. sock'.is_opened = sock.is_opened /\ (sock.rx_rb = <<>> => sock'.rx_rb = <<>>)
    <3>1. CASE sock.rx_rb = <<>>
      <4>1. Least(ReadLen, Len(sock.rx_rb)) = 0
        BY <2>1, <3>1 DEF Least
      <4>2. sock' = sock \/ sock' = [sock EXCEPT !.head = sock.head \ {r}]
            \/ sock' = [sock EXCEPT !.head = sock.head \cup {r}]
        BY <1>16, <4>1 DEF Read, Fault, Leave, Sleep
      <4> QED
        BY <2>1, <4>2 DEF Session
    <3>2. sock'.is_opened = sock.is_opened
      BY <1>16, <2>1 DEF Read, Fault, Leave, Sleep, Session
    <3> QED
      BY <3>1, <3>2
  <2> QED
    BY <2>1, <2>3, <2>4 DEF CalmInv
<1>17. ASSUME NEW r \in Readers, ReadTimeout(r) PROVE CalmInv'
  BY <1>17, ThreadFacts
  DEF ReadTimeout, Go, Touch, Leave, LeaveTells, client, thread, wires, history, IInv,
    KindsInv, CallsInv, SessionInv, Session, Places, WaitingInv, CalmInv, Opening
<1>18. ASSUME NEW q \in Queriers, QuerySend(q) PROVE CalmInv'
  <2>1. CalmInv /\ sock \in Session /\ pc \in [Threads -> Places] /\ q \in Callers
        /\ Main \in Threads /\ Main # q
    BY ThreadFacts DEF IInv, KindsInv, SessionInv, CallsInv
  <2>2. pc[q] # "idle" /\ pc'[Main] = pc[Main]
    BY <1>18, <2>1 DEF QuerySend, Fault, Go, Sleep, Leave
  <2>3. ~ Opening /\ ~ Opening'
    BY <2>1, <2>2 DEF CalmInv, Opening
  <2>4. sock'.is_opened = sock.is_opened /\ sock'.rx_rb = sock.rx_rb
    BY <1>18, <2>1 DEF QuerySend, Fault, Sleep, Leave, Session
  <2> QED
    BY <2>1, <2>3, <2>4 DEF CalmInv
<1>19. ASSUME NEW q \in Queriers, QueryWake(q) PROVE CalmInv'
  BY <1>19, ThreadFacts
  DEF QueryWake, Go, Touch, Sleep, Leave, LeaveTells, client, thread, wires, history, IInv,
    KindsInv, CallsInv, SessionInv, Session, Places, WaitingInv, CalmInv, Opening
<1>20. CASE Discard
  BY <1>20, ThreadFacts
  DEF Discard, client, thread, wires, history, IInv, KindsInv, CallsInv, SessionInv, Session,
    Places, WaitingInv, CalmInv, Opening
<1>21. ASSUME NEW t \in Threads, Spurious(t) PROVE CalmInv'
  BY <1>21, ThreadFacts
  DEF Spurious, Go, client, thread, wires, history, IInv, KindsInv, CallsInv, SessionInv,
    Session, Places, WaitingInv, CalmInv, Opening
<1>22. CASE RdCheck
  BY <1>22, ThreadFacts
  DEF RdCheck, client, thread, wires, history, IInv, KindsInv, CallsInv, SessionInv, Session,
    Places, WaitingInv, CalmInv, Opening
<1>23. CASE RdRecv
  BY <1>23, ThreadFacts
  DEF RdRecv, client, thread, wires, history, IInv, KindsInv, CallsInv, SessionInv, Session,
    Places, WaitingInv, CalmInv, Opening
<1>24. CASE RdNotFound
  BY <1>24, ThreadFacts
  DEF RdNotFound, client, thread, wires, history, IInv, KindsInv, CallsInv, SessionInv,
    Session, Places, WaitingInv, CalmInv, Opening
<1>25. CASE RdProc
  <2>1. KindsInv /\ CalmInv /\ Main \in Threads /\ Callers \subseteq Threads
    BY ThreadFacts DEF IInv
  <2>2. /\ sock'.is_opened = sock.is_opened /\ (~ sock.is_opened => sock' = sock)
        /\ pc' = Woken \/ pc' = pc
    BY <1>25, <2>1, ProcFacts
  <2> QED
    BY <2>1, <2>2 DEF CalmInv, Opening, Woken
<1>26. CASE RdEnd
  BY <1>26, ThreadFacts
  DEF RdEnd, client, thread, wires, history, IInv, KindsInv, CallsInv, SessionInv, Session,
    Places, WaitingInv, CalmInv, Opening
<1>27. CASE RdDeinitWait
  BY <1>27, ThreadFacts
  DEF RdDeinitWait, Woken, client, thread, wires, history, IInv, KindsInv, CallsInv,
    SessionInv, Session, Places, WaitingInv, CalmInv, Opening
<1>28. CASE RdListEmpty \/ RdFree
  BY <1>28, ThreadFacts
  DEF RdListEmpty, RdFree, client, thread, wires, history, IInv, KindsInv, CallsInv,
    SessionInv, Session,
    Places, WaitingInv, CalmInv, Opening
<1>29. CASE DaemonStep \/ DaemonPush \/ HangUp
  BY <1>29, ThreadFacts
  DEF DaemonStep, DaemonOpen, DaemonWrite, DaemonComplete, DaemonQuery, DaemonPush, HangUp,
    Request, Reply, client, thread, wires, history, IInv, KindsInv, CallsInv, SessionInv,
    Session, Places, WaitingInv, CalmInv, Opening
<1>30. CASE UNCHANGED vars
  BY <1>30, ThreadFacts
  DEF vars, client, thread, wires, history, IInv, KindsInv, CallsInv, SessionInv, Session,
    Places, WaitingInv, CalmInv, Opening
<1> QED
  BY <1>1, <1>2, <1>3, <1>4, <1>5, <1>6, <1>7, <1>8, <1>9, <1>10, <1>11, <1>12, <1>13, <1>14,
    <1>15, <1>16, <1>17, <1>18, <1>19, <1>20, <1>21, <1>22, <1>23, <1>24, <1>25, <1>26, <1>27,
    <1>28, <1>29, <1>30
  DEF Next, MainStep, WriteStep, QueryStep, RdStep, DaemonStep

(* The socket is open because the daemon said so.                          *)
LEMMA NextOpened == ASSUME IInv, [Next]_vars PROVE OpenedInv'
<1>1. CASE SockInit
  BY <1>1, ThreadFacts
  DEF SockInit, Go, client, thread, wires, history, IInv, KindsInv, CallsInv, SessionInv,
    Session, Places, WaitingInv, CalmInv, Opening, OpenedInv, May
<1>2. CASE OpenSend
  BY <1>2, ThreadFacts
  DEF OpenSend, ComesLate, Go, Fault, Touch, Send, client, thread, wires, history, IInv,
    KindsInv,
    CallsInv, SessionInv, Session, Places, WaitingInv, CalmInv, Opening, OpenedInv, May
<1>3. CASE OpenWake
  BY <1>3, ThreadFacts
  DEF OpenWake, Fault, Go, Touch, LeaveTells, client, thread, wires, history, IInv, KindsInv,
    CallsInv, SessionInv, Session, Places, WaitingInv, CalmInv, Opening, OpenedInv, May
<1>4. CASE OpenRefused
  BY <1>4, ThreadFacts
  DEF OpenRefused, Go, Fault, TrigClose, client, thread, wires, history, IInv, KindsInv,
    CallsInv, SessionInv, Session, Places, WaitingInv, CalmInv, Opening, OpenedInv, May
<1>5. CASE OpenAddFd
  BY <1>5, ThreadFacts
  DEF OpenAddFd, Go, client, thread, wires, history, IInv, KindsInv, CallsInv, SessionInv,
    Session, Places, WaitingInv, CalmInv, Opening, OpenedInv, May
<1>6. CASE OpenPublish
  BY <1>6, ThreadFacts
  DEF OpenPublish, Go, Fault, client, thread, wires, history, IInv, KindsInv, CallsInv,
    SessionInv, Session, Places, WaitingInv, CalmInv, Opening, OpenedInv, May
<1>7. CASE CloseLock
  BY <1>7, ThreadFacts
  DEF CloseLock, ComesLate, Go, Fault, Touch, client, thread, wires, history, IInv, KindsInv,
    CallsInv,
    SessionInv, Session, Places, WaitingInv, CalmInv, Opening, OpenedInv, May
<1>8. CASE CloseTrig
  BY <1>8, ThreadFacts
  DEF CloseTrig, Fault, Go, TrigClose, client, thread, wires, history, IInv, KindsInv, CallsInv,
    SessionInv, Session, Places, WaitingInv, CalmInv, Opening, OpenedInv, May
<1>9. CASE CloseDelFd
  BY <1>9, ThreadFacts
  DEF CloseDelFd, Go, client, thread, wires, history, IInv, KindsInv, CallsInv, SessionInv,
    Session, Places, WaitingInv, CalmInv, Opening, OpenedInv, May
<1>10. ASSUME NEW t \in Callers, Enter(t) PROVE OpenedInv'
  BY <1>10, ThreadFacts
  DEF Enter, Go, client, thread, wires, history, IInv, KindsInv, CallsInv, SessionInv, Session,
    Places, WaitingInv, CalmInv, Opening, OpenedInv, May
<1>11. ASSUME NEW w \in Writers, WriteNext(w) PROVE OpenedInv'
  BY <1>11, ThreadFacts
  DEF WriteNext, Go, Fault, client, thread, wires, history, IInv, KindsInv, CallsInv,
    SessionInv, Session, Places, WaitingInv, CalmInv, Opening, OpenedInv, May
<1>12. ASSUME NEW w \in Writers, WriteStore(w) PROVE OpenedInv'
  BY <1>12, ThreadFacts
  DEF WriteStore, Go, Fault, client, thread, wires, history, IInv, KindsInv, CallsInv,
    SessionInv, Session, Places, WaitingInv, CalmInv, Opening, OpenedInv, May
<1>13. ASSUME NEW w \in Writers, WriteSend(w) PROVE OpenedInv'
  BY <1>13, ThreadFacts
  DEF WriteSend, Go, Fault, Touch, Send, WriteEnd, Sleep, Leave, LeaveTells, client, thread,
    wires, history, IInv, KindsInv, CallsInv, SessionInv, Session, Places, WaitingInv, CalmInv,
    Opening, OpenedInv, May
<1>14. ASSUME NEW w \in Writers, WriteWake(w) PROVE OpenedInv'
  BY <1>14, ThreadFacts
  DEF WriteWake, Go, Touch, WriteEnd, Sleep, Leave, LeaveTells, client, thread, wires, history,
    IInv, KindsInv, CallsInv, SessionInv, Session, Places, WaitingInv, CalmInv, Opening,
    OpenedInv, May
<1>15. ASSUME NEW w \in Writers, WriteTimeout(w) PROVE OpenedInv'
  BY <1>15, ThreadFacts
  DEF WriteTimeout, Go, Touch, WriteEnd, Leave, LeaveTells, client, thread, wires, history,
    IInv, KindsInv, CallsInv, SessionInv, Session, Places, WaitingInv, CalmInv, Opening,
    OpenedInv, May
<1>16. ASSUME NEW r \in Readers, Read(r) PROVE OpenedInv'
  BY <1>16, ThreadFacts
  DEF Read, Go, Fault, Touch, Sleep, Leave, LeaveTells, client, thread, wires, history, IInv,
    KindsInv, CallsInv, SessionInv, Session, Places, WaitingInv, CalmInv, Opening, OpenedInv,
    May
<1>17. ASSUME NEW r \in Readers, ReadTimeout(r) PROVE OpenedInv'
  BY <1>17, ThreadFacts
  DEF ReadTimeout, Go, Touch, Leave, LeaveTells, client, thread, wires, history, IInv,
    KindsInv, CallsInv, SessionInv, Session, Places, WaitingInv, CalmInv, Opening, OpenedInv,
    May
<1>18. ASSUME NEW q \in Queriers, QuerySend(q) PROVE OpenedInv'
  BY <1>18, ThreadFacts
  DEF QuerySend, Go, Fault, Touch, Send, Sleep, Leave, LeaveTells, client, thread, wires,
    history, IInv, KindsInv, CallsInv, SessionInv, Session, Places, WaitingInv, CalmInv,
    Opening, OpenedInv, May
<1>19. ASSUME NEW q \in Queriers, QueryWake(q) PROVE OpenedInv'
  BY <1>19, ThreadFacts
  DEF QueryWake, Go, Touch, Sleep, Leave, LeaveTells, client, thread, wires, history, IInv,
    KindsInv, CallsInv, SessionInv, Session, Places, WaitingInv, CalmInv, Opening, OpenedInv,
    May
<1>20. CASE Discard
  BY <1>20, ThreadFacts
  DEF Discard, client, thread, wires, history, IInv, KindsInv, CallsInv, SessionInv, Session,
    Places, WaitingInv, CalmInv, Opening, OpenedInv, May
<1>21. ASSUME NEW t \in Threads, Spurious(t) PROVE OpenedInv'
  BY <1>21, ThreadFacts
  DEF Spurious, Go, client, thread, wires, history, IInv, KindsInv, CallsInv, SessionInv,
    Session, Places, WaitingInv, CalmInv, Opening, OpenedInv, May
<1>22. CASE RdCheck
  BY <1>22, ThreadFacts
  DEF RdCheck, client, thread, wires, history, IInv, KindsInv, CallsInv, SessionInv, Session,
    Places, WaitingInv, CalmInv, Opening, OpenedInv, May
<1>23. CASE RdRecv
  BY <1>23, ThreadFacts
  DEF RdRecv, client, thread, wires, history, IInv, KindsInv, CallsInv, SessionInv, Session,
    Places, WaitingInv, CalmInv, Opening, OpenedInv, May
<1>24. CASE RdNotFound
  BY <1>24, ThreadFacts
  DEF RdNotFound, client, thread, wires, history, IInv, KindsInv, CallsInv, SessionInv,
    Session, Places, WaitingInv, CalmInv, Opening, OpenedInv, May
<1>25. CASE RdProc
  <2>1. /\ KindsInv /\ WaitingInv /\ CalmInv /\ OpenedInv /\ Main \in Threads
        /\ Threads = Callers \cup {Main} /\ pc \in [Threads -> Places]
        /\ Writers \cup Queriers \cup Readers \subseteq Callers
    BY ThreadFacts DEF IInv, KindsInv, CallsInv, Threads
  <2> DEFINE m == Head(rd.buf)
  <2>2. /\ sock'.head = sock.head /\ sock'.exit_flg = sock.exit_flg /\ UNCHANGED <<dmn, setup>>
        /\ op'[Main] = IF Main \in sock.head THEN Takes(Main, m) ELSE op[Main]
        /\ \/ pc' = Woken /\ \E t \in sock.head : Wakes(t, m, sock'.rx_rb)
           \/ pc' = pc
    <3>1. pc' = Woken => pc' = pc \/ \E t \in sock.head : Wakes(t, m, sock'.rx_rb)
      BY <1>25 DEF RdProc, RpcCb
    <3> QED
      BY <1>25, <2>1, <3>1, ProcFacts DEF RdProc, wires
  <2>3. m.op = "open" /\ m.n = 0 => dmn.opened
    <3>1. m \in ToSet(rd.buf)
      BY <1>25, QueueFacts DEF RdProc, IInv, KindsInv, ThreadInv
    <3> QED
      BY <3>1 DEF IInv, MessagesInv, Arriving
  <2>4. Takes(Main, m).sta = op[Main].sta \/ (m.op = "open" /\ Takes(Main, m).sta = m.n)
    <3>1. op[Main] \in Op /\ Main \notin Writers /\ Main \notin Queriers
      BY <2>1, ThreadFacts DEF KindsInv, CallsInv
    <3> HIDE DEF m
    <3> QED
      BY <3>1 DEF Takes, Op
  <2>5. pc[Main] = "asleep" /\ pc'[Main] = "woken" =>
          op'[Main].sta # 0 \/ dmn.opened
    <3>1. SUFFICES ASSUME pc[Main] = "asleep", pc'[Main] = "woken"
                   PROVE  op'[Main].sta # 0 \/ dmn.opened
      OBVIOUS
    <3>2. Opening /\ \A t \in Callers : t \notin sock.head
      BY <2>1, <3>1 DEF Opening, CalmInv, WaitingInv
    <3>3. m.op = "open" /\ Main \in sock.head
      BY <2>1, <2>2, <3>1, <3>2 DEF Wakes, WaitingInv
    <3>4. op'[Main].sta = m.n
      <4>1. op[Main] \in Op /\ op'[Main] = Takes(Main, m)
        BY <2>1, <2>2, <3>3 DEF KindsInv, CallsInv
      <4> HIDE DEF m
      <4> QED
        BY <3>3, <4>1 DEF Takes, Op
    <3> QED
      BY <2>3, <3>3, <3>4
  <2>6. pc'[Main] # pc[Main] => pc[Main] = "asleep" /\ pc'[Main] = "woken"
    BY <2>1, <2>2 DEF Woken
  <2> HIDE DEF m
  <2> QED
    BY <2>1, <2>2, <2>3, <2>4, <2>5, <2>6 DEF OpenedInv, May
<1>26. CASE RdEnd
  BY <1>26, ThreadFacts
  DEF RdEnd, client, thread, wires, history, IInv, KindsInv, CallsInv, SessionInv, Session,
    Places, WaitingInv, CalmInv, Opening, OpenedInv, May
<1>27. CASE RdDeinitWait
  BY <1>27, ThreadFacts
  DEF RdDeinitWait, Woken, client, thread, wires, history, IInv, KindsInv, CallsInv,
    SessionInv, Session, Places, WaitingInv, CalmInv, Opening, OpenedInv, May
<1>28. CASE RdListEmpty \/ RdFree
  BY <1>28, ThreadFacts
  DEF RdListEmpty, RdFree, client, thread, wires, history, IInv, KindsInv, CallsInv,
    SessionInv, Session,
    Places, WaitingInv, CalmInv, Opening, OpenedInv, May
<1>29. CASE DaemonOpen
  <2>1. WiresInv /\ OpenedInv
    BY DEF IInv, KindsInv
  <2>2. UNCHANGED <<pc, sock, op, setup>> /\ (dmn'.opened \/ dmn' = dmn)
    BY <1>29, <2>1 DEF DaemonOpen, client, WiresInv
  <2> QED
    BY <2>1, <2>2 DEF OpenedInv, May
<1>30. CASE DaemonWrite
  BY <1>30, ThreadFacts
  DEF DaemonWrite, Request, Reply, client, thread, wires, history, IInv, KindsInv, CallsInv,
    SessionInv, Session, Places, WaitingInv, CalmInv, Opening, OpenedInv, May
<1>31. CASE DaemonComplete
  BY <1>31, ThreadFacts
  DEF DaemonComplete, Reply, client, thread, wires, history, IInv, KindsInv, CallsInv,
    SessionInv, Session, Places, WaitingInv, CalmInv, Opening, OpenedInv, May
<1>32. CASE DaemonQuery
  BY <1>32, ThreadFacts
  DEF DaemonQuery, Request, Reply, client, thread, wires, history, IInv, KindsInv, CallsInv,
    SessionInv, Session, Places, WaitingInv, CalmInv, Opening, OpenedInv, May
<1>33. CASE DaemonPush
  BY <1>33, ThreadFacts
  DEF DaemonPush, Reply, client, thread, wires, history, IInv, KindsInv, CallsInv, SessionInv,
    Session, Places, WaitingInv, CalmInv, Opening, OpenedInv, May
<1>34. CASE HangUp
  BY <1>34, ThreadFacts
  DEF HangUp, client, thread, wires, history, IInv, KindsInv, CallsInv, SessionInv, Session,
    Places, WaitingInv, CalmInv, Opening, OpenedInv, May
<1>35. CASE UNCHANGED vars
  BY <1>35, ThreadFacts
  DEF vars, client, thread, wires, history, IInv, KindsInv, CallsInv, SessionInv, Session,
    Places, WaitingInv, CalmInv, Opening, OpenedInv, May
<1> QED
  BY <1>1, <1>2, <1>3, <1>4, <1>5, <1>6, <1>7, <1>8, <1>9, <1>10, <1>11, <1>12, <1>13, <1>14,
    <1>15, <1>16, <1>17, <1>18, <1>19, <1>20, <1>21, <1>22, <1>23, <1>24, <1>25, <1>26, <1>27,
    <1>28, <1>29, <1>30, <1>31, <1>32, <1>33, <1>34, <1>35
  DEF Next, MainStep, WriteStep, QueryStep, RdStep, DaemonStep

(* What the daemon says it did, it did.                                    *)
LEMMA NextMessages == ASSUME IInv, [Next]_vars PROVE MessagesInv'
<1>1. CASE MainStep \/ CloseDelFd
  BY <1>1, EmptyFacts
  DEF MainStep, SockInit, OpenSend, ComesLate, OpenWake, OpenRefused, OpenAddFd, OpenPublish,
    CloseLock,
    CloseTrig, CloseDelFd, Go, Fault, Touch, Send, LeaveTells, TrigClose, client, thread,
    wires, history, IInv, MessagesInv, Arriving, KindsInv, WiresInv, ThreadInv
<1>2. ASSUME NEW t \in Callers, Enter(t) PROVE MessagesInv'
  BY <1>2, EmptyFacts
  DEF Enter, Go, client, thread, wires, history, IInv, MessagesInv, Arriving, KindsInv,
    WiresInv, ThreadInv
<1>3. ASSUME NEW w \in Writers, WriteNext(w) PROVE MessagesInv'
  BY <1>3, EmptyFacts
  DEF WriteNext, Go, Fault, client, thread, wires, history, IInv, MessagesInv, Arriving,
    KindsInv, WiresInv, ThreadInv
<1>4. ASSUME NEW w \in Writers, WriteStore(w) PROVE MessagesInv'
  BY <1>4, EmptyFacts
  DEF WriteStore, Go, Fault, client, thread, wires, history, IInv, MessagesInv, Arriving,
    KindsInv, WiresInv, ThreadInv
<1>5. ASSUME NEW w \in Writers, WriteSend(w) PROVE MessagesInv'
  BY <1>5, EmptyFacts
  DEF WriteSend, Go, Fault, Touch, Send, WriteEnd, Sleep, Leave, LeaveTells, client, thread,
    wires, history, IInv, MessagesInv, Arriving, KindsInv, WiresInv, ThreadInv
<1>6. ASSUME NEW w \in Writers, WriteWake(w) PROVE MessagesInv'
  BY <1>6, EmptyFacts
  DEF WriteWake, Go, Touch, WriteEnd, Sleep, Leave, LeaveTells, client, thread, wires, history,
    IInv, MessagesInv, Arriving, KindsInv, WiresInv, ThreadInv
<1>7. ASSUME NEW w \in Writers, WriteTimeout(w) PROVE MessagesInv'
  BY <1>7, EmptyFacts
  DEF WriteTimeout, Go, Touch, WriteEnd, Leave, LeaveTells, client, thread, wires, history,
    IInv, MessagesInv, Arriving, KindsInv, WiresInv, ThreadInv
<1>8. ASSUME NEW r \in Readers, Read(r) PROVE MessagesInv'
  BY <1>8, EmptyFacts
  DEF Read, Go, Fault, Touch, Sleep, Leave, LeaveTells, client, thread, wires, history, IInv,
    MessagesInv, Arriving, KindsInv, WiresInv, ThreadInv
<1>9. ASSUME NEW r \in Readers, ReadTimeout(r) PROVE MessagesInv'
  BY <1>9, EmptyFacts
  DEF ReadTimeout, Go, Touch, Leave, LeaveTells, client, thread, wires, history, IInv,
    MessagesInv, Arriving, KindsInv, WiresInv, ThreadInv
<1>10. ASSUME NEW q \in Queriers, QuerySend(q) PROVE MessagesInv'
  BY <1>10, EmptyFacts
  DEF QuerySend, Go, Fault, Touch, Send, Sleep, Leave, LeaveTells, client, thread, wires,
    history, IInv, MessagesInv, Arriving, KindsInv, WiresInv, ThreadInv
<1>11. ASSUME NEW q \in Queriers, QueryWake(q) PROVE MessagesInv'
  BY <1>11, EmptyFacts
  DEF QueryWake, Go, Touch, Sleep, Leave, LeaveTells, client, thread, wires, history, IInv,
    MessagesInv, Arriving, KindsInv, WiresInv, ThreadInv
<1>12. CASE Discard
  BY <1>12, EmptyFacts
  DEF Discard, client, thread, wires, history, IInv, MessagesInv, Arriving, KindsInv, WiresInv,
    ThreadInv
<1>13. ASSUME NEW t \in Threads, Spurious(t) PROVE MessagesInv'
  BY <1>13, EmptyFacts
  DEF Spurious, Go, client, thread, wires, history, IInv, MessagesInv, Arriving, KindsInv,
    WiresInv, ThreadInv
<1>14. CASE RdCheck
  BY <1>14, EmptyFacts
  DEF RdCheck, client, thread, wires, history, IInv, MessagesInv, Arriving, KindsInv, WiresInv,
    ThreadInv
<1>15. CASE RdRecv
  <2>1. Arriving' = Arriving /\ UNCHANGED dmn
    BY <1>15, EmptyFacts DEF RdRecv, Arriving, IInv, KindsInv, ThreadInv
  <2> QED
    BY <2>1 DEF IInv, MessagesInv
<1>16. CASE RdNotFound
  BY <1>16, EmptyFacts
  DEF RdNotFound, client, thread, wires, history, IInv, MessagesInv, Arriving, KindsInv,
    WiresInv, ThreadInv
<1>17. CASE RdProc
  <2>1. ToSet(rd.buf) = {Head(rd.buf)} \cup ToSet(rd'.buf) /\ UNCHANGED <<toClient, dmn>>
    BY <1>17, QueueFacts DEF RdProc, IInv, KindsInv, ThreadInv, wires
  <2>2. Arriving' \subseteq Arriving
    BY <2>1 DEF Arriving
  <2> QED
    BY <2>1, <2>2 DEF IInv, MessagesInv
<1>18. CASE RdEnd
  BY <1>18, EmptyFacts
  DEF RdEnd, client, thread, wires, history, IInv, MessagesInv, Arriving, KindsInv, WiresInv,
    ThreadInv
<1>19. CASE RdDeinitWait
  BY <1>19, EmptyFacts
  DEF RdDeinitWait, Woken, client, thread, wires, history, IInv, MessagesInv, Arriving,
    KindsInv, WiresInv, ThreadInv
<1>20. CASE RdListEmpty \/ RdFree
  BY <1>20, EmptyFacts
  DEF RdListEmpty, RdFree, client, thread, wires, history, IInv, MessagesInv, Arriving,
    KindsInv, WiresInv,
    ThreadInv
<1>21. CASE DaemonOpen
  <2>1. WiresInv /\ toClient \in Seq(Answer) /\ MessagesInv /\ UNCHANGED rd
    BY <1>21 DEF DaemonOpen, thread, IInv, KindsInv, WiresInv
  <2>2. PICK x \in Answer : /\ toClient' = Append(toClient, x) /\ x.op \in {"open", "notfound"}
                            /\ dmn'.stored = dmn.stored /\ (dmn.opened => dmn'.opened)
                            /\ x.op = "open" /\ x.n = 0 => dmn'.opened
    <3>1. \A o \in {"open", "notfound"}, n \in {0, -1} :
            [op |-> o, id |-> 0, n |-> n, data |-> <<>>] \in Answer
      BY EmptyFacts DEF Answer
    <3> QED
      BY <1>21, <2>1, <3>1 DEF DaemonOpen, Reply, WiresInv
  <2>3. ToSet(toClient') = ToSet(toClient) \cup {x}
    BY <2>1, <2>2, AppendFacts
  <2> QED
    BY <2>1, <2>2, <2>3 DEF MessagesInv, Arriving
<1>22. CASE DaemonWrite
  <2>1. WiresInv /\ toClient \in Seq(Answer) /\ MessagesInv /\ UNCHANGED rd
        /\ Head(toDaemon) \in Asked
    BY <1>22, QueueFacts DEF DaemonWrite, Request, thread, IInv, KindsInv, WiresInv
  <2>2. PICK n \in 0 .. Head(toDaemon).n :
          /\ Reply("write_ret", Head(toDaemon).id, n, <<>>)
          /\ dmn' = [dmn EXCEPT !.owed = Append(dmn.owed, [id |-> Head(toDaemon).id, n |-> n]),
                                !.stored = dmn.stored \cup {[id |-> Head(toDaemon).id,
                                n |-> n]}]
    BY <1>22 DEF DaemonWrite
  <2> DEFINE x == [op |-> "write_ret", id |-> Head(toDaemon).id, n |-> n, data |-> <<>>]
  <2>3. n \in Int /\ Head(toDaemon).id \in Nat
    BY <2>1 DEF Asked
  <2>4. x \in Answer /\ toClient' = Append(toClient, x)
    BY <2>2, <2>3, EmptyFacts DEF Answer, Reply
  <2>5. ToSet(toClient') = ToSet(toClient) \cup {x}
    BY <2>1, <2>4, AppendFacts
  <2>6. /\ [id |-> x.id, n |-> x.n] \in dmn'.stored /\ dmn'.opened = dmn.opened
        /\ dmn.stored \subseteq dmn'.stored /\ x.op = "write_ret"
    BY <2>1, <2>2 DEF WiresInv
  <2> HIDE DEF x
  <2> QED
    BY <2>1, <2>5, <2>6 DEF MessagesInv, Arriving
<1>23. CASE DaemonComplete
  <2>1. WiresInv /\ toClient \in Seq(Answer) /\ MessagesInv /\ UNCHANGED rd
    BY <1>23 DEF DaemonComplete, thread, IInv, KindsInv, WiresInv
  <2>2. PICK x : toClient' = Append(toClient, x) /\ x.op \in {"write", "query", "read"}
    BY <1>23 DEF DaemonComplete, Reply
  <2>3. ToSet(toClient') = ToSet(toClient) \cup {x}
    BY <2>1, <2>2, PlainAppend
  <2>4. dmn'.stored = dmn.stored /\ dmn'.opened = dmn.opened
    BY <1>23, <2>1 DEF DaemonComplete, WiresInv
  <2> QED
    BY <2>1, <2>2, <2>3, <2>4 DEF MessagesInv, Arriving
<1>24. CASE DaemonQuery
  <2>1. WiresInv /\ toClient \in Seq(Answer) /\ MessagesInv /\ UNCHANGED rd
    BY <1>24 DEF DaemonQuery, thread, IInv, KindsInv, WiresInv
  <2>2. PICK x : toClient' = Append(toClient, x) /\ x.op \in {"write", "query", "read"}
    BY <1>24 DEF DaemonQuery, Reply
  <2>3. ToSet(toClient') = ToSet(toClient) \cup {x}
    BY <2>1, <2>2, PlainAppend
  <2>4. dmn'.stored = dmn.stored /\ dmn'.opened = dmn.opened
    BY <1>24, <2>1 DEF DaemonQuery, WiresInv
  <2> QED
    BY <2>1, <2>2, <2>3, <2>4 DEF MessagesInv, Arriving
<1>25. CASE DaemonPush
  <2>1. WiresInv /\ toClient \in Seq(Answer) /\ MessagesInv /\ UNCHANGED rd
    BY <1>25 DEF DaemonPush, thread, IInv, KindsInv, WiresInv
  <2>2. PICK x : toClient' = Append(toClient, x) /\ x.op \in {"write", "query", "read"}
    BY <1>25 DEF DaemonPush, Reply
  <2>3. ToSet(toClient') = ToSet(toClient) \cup {x}
    BY <2>1, <2>2, PlainAppend
  <2>4. dmn'.stored = dmn.stored /\ dmn'.opened = dmn.opened
    BY <1>25, <2>1 DEF DaemonPush, WiresInv
  <2> QED
    BY <2>1, <2>2, <2>3, <2>4 DEF MessagesInv, Arriving
<1>26. CASE HangUp
  BY <1>26, EmptyFacts
  DEF HangUp, client, thread, wires, history, IInv, MessagesInv, Arriving, KindsInv, WiresInv,
    ThreadInv
<1>27. CASE UNCHANGED vars
  BY <1>27, EmptyFacts
  DEF vars, client, thread, wires, history, IInv, MessagesInv, Arriving, KindsInv, WiresInv,
    ThreadInv
<1> QED
  BY <1>1, <1>2, <1>3, <1>4, <1>5, <1>6, <1>7, <1>8, <1>9, <1>10, <1>11, <1>12, <1>13, <1>14,
    <1>15, <1>16, <1>17, <1>18, <1>19, <1>20, <1>21, <1>22, <1>23, <1>24, <1>25, <1>26, <1>27
  DEF Next, MainStep, WriteStep, QueryStep, RdStep, DaemonStep

(* What a message that timed out reports was stored.                       *)
LEMMA NextStored == ASSUME IInv, [Next]_vars PROVE StoredInv'
<1>1. CASE MainStep \/ CloseDelFd
  BY <1>1, ThreadFacts
  DEF MainStep, SockInit, OpenSend, ComesLate, OpenWake, OpenRefused, OpenAddFd, OpenPublish,
    CloseLock,
    CloseTrig, CloseDelFd, Go, Fault, Touch, Send, LeaveTells, TrigClose, client, thread,
    wires, history, IInv, StoredInv, KindsInv, CallsInv, WiresInv, HistoryInv
<1>2. ASSUME NEW t \in Callers, Enter(t) PROVE StoredInv'
  BY <1>2, ThreadFacts
  DEF Enter, Go, client, thread, wires, history, IInv, StoredInv, KindsInv, CallsInv, WiresInv,
    HistoryInv
<1>3. ASSUME NEW w \in Writers, WriteNext(w) PROVE StoredInv'
  <2>1. w \in Threads /\ op \in [Threads -> Op] /\ StoredInv /\ UNCHANGED <<dmn, log>>
        /\ Writers \subseteq Threads
    BY <1>3, ThreadFacts DEF WriteNext, wires, history, IInv, KindsInv, CallsInv
  <2>2. \A v \in Writers : op'[v].cpl = 0 \/ op'[v] = op[v]
    BY <1>3, <2>1 DEF WriteNext, Fault, Op
  <2> QED
    BY <2>1, <2>2 DEF StoredInv
<1>4. ASSUME NEW w \in Writers, WriteStore(w) PROVE StoredInv'
  BY <1>4, ThreadFacts
  DEF WriteStore, Go, Fault, client, thread, wires, history, IInv, StoredInv, KindsInv,
    CallsInv, WiresInv, HistoryInv
<1>5. ASSUME NEW w \in Writers, WriteSend(w) PROVE StoredInv'
  <2>1. KindsInv /\ StoredInv /\ Writers \subseteq Threads
    BY ThreadFacts DEF IInv
  <2>2. UNCHANGED dmn
    BY <1>5 DEF WriteSend, wires
  <2>3. CASE UNCHANGED <<log, op>>
    BY <2>1, <2>2, <2>3 DEF StoredInv
  <2>4. ASSUME NEW n \in Int, NEW how \in {"exit", "done", "timeout"},
               WriteEnd(w, n, how), EndsWith(w, n, how)
        PROVE  StoredInv'
    <3>1. \A t \in Threads : op'[t].id = op[t].id /\ op'[t].cpl = op[t].cpl
      BY <2>1, <2>4, EndFacts
    <3>2. how = "timeout" => n = op[w].cpl
      BY <2>4 DEF EndsWith
    <3>3. LogGrows(w, n, how)
      BY <2>1, <2>4, LogFacts
    <3>4. \A v \in Writers :
            op'[v].cpl = 0 \/ [id |-> op'[v].id, n |-> op'[v].cpl] \in dmn.stored
      BY <2>1, <3>1 DEF StoredInv
    <3>5. ASSUME NEW v \in Writers, NEW i \in DOMAIN log'[v], log'[v][i].how = "timeout"
          PROVE  \/ log'[v][i].n = 0
                 \/ [id |-> log'[v][i].id, n |-> log'[v][i].n] \in dmn.stored
      <4>1. CASE i \in DOMAIN log[v] /\ log'[v][i] = log[v][i]
        BY <2>1, <3>5, <4>1 DEF StoredInv
      <4>2. CASE v = w /\ log'[v][i].id = op[w].id /\ log'[v][i].n = n /\ how = "timeout"
        BY <2>1, <3>2, <4>2 DEF StoredInv
      <4> QED
        BY <3>3, <3>5, <4>1, <4>2 DEF LogGrows
    <3> QED
      BY <2>1, <2>2, <3>4, <3>5 DEF StoredInv
  <2> QED
    BY <1>5, <2>1, <2>3, <2>4, WriteEnds
<1>6. ASSUME NEW w \in Writers, WriteWake(w) PROVE StoredInv'
  <2>1. KindsInv /\ StoredInv /\ Writers \subseteq Threads
    BY ThreadFacts DEF IInv
  <2>2. UNCHANGED dmn
    BY <1>6 DEF WriteWake, wires
  <2>3. CASE UNCHANGED <<log, op>>
    BY <2>1, <2>2, <2>3 DEF StoredInv
  <2>4. ASSUME NEW n \in Int, NEW how \in {"exit", "done", "timeout"},
               WriteEnd(w, n, how), EndsWith(w, n, how)
        PROVE  StoredInv'
    <3>1. \A t \in Threads : op'[t].id = op[t].id /\ op'[t].cpl = op[t].cpl
      BY <2>1, <2>4, EndFacts
    <3>2. how = "timeout" => n = op[w].cpl
      BY <2>4 DEF EndsWith
    <3>3. LogGrows(w, n, how)
      BY <2>1, <2>4, LogFacts
    <3>4. \A v \in Writers :
            op'[v].cpl = 0 \/ [id |-> op'[v].id, n |-> op'[v].cpl] \in dmn.stored
      BY <2>1, <3>1 DEF StoredInv
    <3>5. ASSUME NEW v \in Writers, NEW i \in DOMAIN log'[v], log'[v][i].how = "timeout"
          PROVE  \/ log'[v][i].n = 0
                 \/ [id |-> log'[v][i].id, n |-> log'[v][i].n] \in dmn.stored
      <4>1. CASE i \in DOMAIN log[v] /\ log'[v][i] = log[v][i]
        BY <2>1, <3>5, <4>1 DEF StoredInv
      <4>2. CASE v = w /\ log'[v][i].id = op[w].id /\ log'[v][i].n = n /\ how = "timeout"
        BY <2>1, <3>2, <4>2 DEF StoredInv
      <4> QED
        BY <3>3, <3>5, <4>1, <4>2 DEF LogGrows
    <3> QED
      BY <2>1, <2>2, <3>4, <3>5 DEF StoredInv
  <2> QED
    BY <1>6, <2>1, <2>3, <2>4, WriteEnds
<1>7. ASSUME NEW w \in Writers, WriteTimeout(w) PROVE StoredInv'
  <2>1. KindsInv /\ StoredInv /\ Writers \subseteq Threads
    BY ThreadFacts DEF IInv
  <2>2. UNCHANGED dmn
    BY <1>7 DEF WriteTimeout, wires
  <2>3. CASE UNCHANGED <<log, op>>
    BY <2>1, <2>2, <2>3 DEF StoredInv
  <2>4. ASSUME NEW n \in Int, NEW how \in {"exit", "done", "timeout"},
               WriteEnd(w, n, how), EndsWith(w, n, how)
        PROVE  StoredInv'
    <3>1. \A t \in Threads : op'[t].id = op[t].id /\ op'[t].cpl = op[t].cpl
      BY <2>1, <2>4, EndFacts
    <3>2. how = "timeout" => n = op[w].cpl
      BY <2>4 DEF EndsWith
    <3>3. LogGrows(w, n, how)
      BY <2>1, <2>4, LogFacts
    <3>4. \A v \in Writers :
            op'[v].cpl = 0 \/ [id |-> op'[v].id, n |-> op'[v].cpl] \in dmn.stored
      BY <2>1, <3>1 DEF StoredInv
    <3>5. ASSUME NEW v \in Writers, NEW i \in DOMAIN log'[v], log'[v][i].how = "timeout"
          PROVE  \/ log'[v][i].n = 0
                 \/ [id |-> log'[v][i].id, n |-> log'[v][i].n] \in dmn.stored
      <4>1. CASE i \in DOMAIN log[v] /\ log'[v][i] = log[v][i]
        BY <2>1, <3>5, <4>1 DEF StoredInv
      <4>2. CASE v = w /\ log'[v][i].id = op[w].id /\ log'[v][i].n = n /\ how = "timeout"
        BY <2>1, <3>2, <4>2 DEF StoredInv
      <4> QED
        BY <3>3, <3>5, <4>1, <4>2 DEF LogGrows
    <3> QED
      BY <2>1, <2>2, <3>4, <3>5 DEF StoredInv
  <2> QED
    BY <1>7, <2>1, <2>3, <2>4, WriteEnds
<1>8. ASSUME NEW r \in Readers, Read(r) \/ ReadTimeout(r) PROVE StoredInv'
  BY <1>8, ThreadFacts
  DEF Read, ReadTimeout, Go, Fault, Touch, Sleep, Leave, LeaveTells, client, thread, wires,
    history, IInv, StoredInv, KindsInv, CallsInv, WiresInv, HistoryInv
<1>9. ASSUME NEW q \in Queriers, QuerySend(q) PROVE StoredInv'
  BY <1>9, ThreadFacts
  DEF QuerySend, Go, Fault, Touch, Send, Sleep, Leave, LeaveTells, client, thread, wires,
    history, IInv, StoredInv, KindsInv, CallsInv, WiresInv, HistoryInv
<1>10. ASSUME NEW q \in Queriers, QueryWake(q) PROVE StoredInv'
  BY <1>10, ThreadFacts
  DEF QueryWake, Go, Touch, Sleep, Leave, LeaveTells, client, thread, wires, history, IInv,
    StoredInv, KindsInv, CallsInv, WiresInv, HistoryInv
<1>11. CASE Discard
  BY <1>11, ThreadFacts
  DEF Discard, client, thread, wires, history, IInv, StoredInv, KindsInv, CallsInv, WiresInv,
    HistoryInv
<1>12. ASSUME NEW t \in Threads, Spurious(t) PROVE StoredInv'
  BY <1>12, ThreadFacts
  DEF Spurious, Go, client, thread, wires, history, IInv, StoredInv, KindsInv, CallsInv,
    WiresInv, HistoryInv
<1>13. CASE RdCheck
  BY <1>13, ThreadFacts
  DEF RdCheck, client, thread, wires, history, IInv, StoredInv, KindsInv, CallsInv, WiresInv,
    HistoryInv
<1>14. CASE RdRecv
  BY <1>14, ThreadFacts
  DEF RdRecv, client, thread, wires, history, IInv, StoredInv, KindsInv, CallsInv, WiresInv,
    HistoryInv
<1>15. CASE RdNotFound
  BY <1>15, ThreadFacts
  DEF RdNotFound, client, thread, wires, history, IInv, StoredInv, KindsInv, CallsInv,
    WiresInv, HistoryInv
<1>16. CASE RdProc
  <2>1. /\ KindsInv /\ StoredInv /\ MessagesInv /\ Writers \subseteq Threads /\ CallsInv
        /\ UNCHANGED <<dmn, log>>
    BY <1>16, ThreadFacts DEF RdProc, wires, IInv, KindsInv
  <2> DEFINE m == Head(rd.buf)
  <2>2. /\ m \in Answer
        /\ op' = [t \in Threads |-> IF t \in sock.head THEN Takes(t, m) ELSE op[t]]
    BY <1>16, <2>1, ProcFacts
  <2>3. m.op = "write_ret" => [id |-> m.id, n |-> m.n] \in dmn.stored
    <3>1. m \in ToSet(rd.buf)
      BY <1>16, QueueFacts DEF RdProc, IInv, KindsInv, ThreadInv
    <3> QED
      BY <2>1, <3>1 DEF MessagesInv, Arriving
  <2> HIDE DEF m
  <2>4. ASSUME NEW w \in Writers
        PROVE  /\ op'[w].id = op[w].id
               /\ op'[w].cpl = op[w].cpl
                    \/ (m.op = "write_ret" /\ m.id = op[w].id /\ op'[w].cpl = m.n)
    BY <2>1, <2>2, TakesFacts
  <2> QED
    BY <2>1, <2>3, <2>4 DEF StoredInv
<1>17. CASE RdEnd
  BY <1>17, ThreadFacts
  DEF RdEnd, client, thread, wires, history, IInv, StoredInv, KindsInv, CallsInv, WiresInv,
    HistoryInv
<1>18. CASE RdDeinitWait
  BY <1>18, ThreadFacts
  DEF RdDeinitWait, Woken, client, thread, wires, history, IInv, StoredInv, KindsInv, CallsInv,
    WiresInv, HistoryInv
<1>19. CASE RdListEmpty \/ RdFree
  BY <1>19, ThreadFacts
  DEF RdListEmpty, RdFree, client, thread, wires, history, IInv, StoredInv, KindsInv,
    CallsInv, WiresInv,
    HistoryInv
<1>20. CASE DaemonOpen
  BY <1>20, ThreadFacts
  DEF DaemonOpen, Request, Reply, client, thread, wires, history, IInv, StoredInv, KindsInv,
    CallsInv, WiresInv, HistoryInv
<1>21. CASE DaemonWrite
  <2>1. WiresInv /\ StoredInv /\ UNCHANGED <<op, log>> /\ dmn.owed \in Seq(Stored)
    BY <1>21 DEF DaemonWrite, client, history, IInv, KindsInv, WiresInv
  <2>2. PICK x : /\ dmn'.owed = Append(dmn.owed, x) /\ dmn'.stored = dmn.stored \cup {x}
    BY <1>21, <2>1 DEF DaemonWrite, WiresInv
  <2>3. ToSet(dmn'.owed) = ToSet(dmn.owed) \cup {x}
    BY <2>1, <2>2, PlainAppend
  <2> QED
    BY <2>1, <2>2, <2>3 DEF StoredInv
<1>22. CASE DaemonComplete
  <2>1. WiresInv /\ StoredInv /\ UNCHANGED <<op, log>> /\ dmn.owed \in Seq(Stored)
    BY <1>22 DEF DaemonComplete, client, history, IInv, KindsInv, WiresInv
  <2>2. dmn'.owed = Tail(dmn.owed) /\ dmn'.stored = dmn.stored /\ dmn.owed # <<>>
    BY <1>22, <2>1 DEF DaemonComplete, WiresInv
  <2>3. ToSet(dmn'.owed) \subseteq ToSet(dmn.owed)
    BY <2>1, <2>2, QueueFacts
  <2> QED
    BY <2>1, <2>2, <2>3 DEF StoredInv
<1>23. CASE DaemonQuery
  BY <1>23, ThreadFacts
  DEF DaemonQuery, Request, Reply, client, thread, wires, history, IInv, StoredInv, KindsInv,
    CallsInv, WiresInv, HistoryInv
<1>24. CASE DaemonPush
  BY <1>24, ThreadFacts
  DEF DaemonPush, Reply, client, thread, wires, history, IInv, StoredInv, KindsInv, CallsInv,
    WiresInv, HistoryInv
<1>25. CASE HangUp
  BY <1>25, ThreadFacts
  DEF HangUp, client, thread, wires, history, IInv, StoredInv, KindsInv, CallsInv, WiresInv,
    HistoryInv
<1>26. CASE UNCHANGED vars
  BY <1>26, ThreadFacts
  DEF vars, client, thread, wires, history, IInv, StoredInv, KindsInv, CallsInv, WiresInv,
    HistoryInv
<1> QED
  BY <1>1, <1>2, <1>3, <1>4, <1>5, <1>6, <1>7, <1>8, <1>9, <1>10, <1>11, <1>12, <1>13, <1>14,
    <1>15, <1>16, <1>17, <1>18, <1>19, <1>20, <1>21, <1>22, <1>23, <1>24, <1>25, <1>26
  DEF Next, MainStep, WriteStep, QueryStep, RdStep, DaemonStep

\* The writers are where they were, or woken up, and their logs are the same.
WritersKept ==
  /\ UNCHANGED <<log, setup>> /\ sock'.send_seq = sock.send_seq
  /\ \A w \in Writers :
       /\ pc'[w] = pc[w] \/ (pc[w] = "asleep" /\ pc'[w] = "woken")
       /\ op'[w].id = op[w].id
Others == \/ WritersKept
          \/ \E t \in Callers : Enter(t)
          \/ \E w \in Writers : WriteStep(w) \/ WriteTimeout(w)

(* What a step of somebody else does to the writers.                       *)
LEMMA NextOthers == ASSUME IInv, [Next]_vars PROVE Others
<1>1. CASE SockInit
  BY <1>1, ThreadFacts
  DEF SockInit, Go, client, thread, wires, history, WritersKept, Others, IInv, KindsInv,
    CallsInv, SessionInv, Session
<1>2. CASE OpenSend
  BY <1>2, ThreadFacts
  DEF OpenSend, ComesLate, Go, Fault, Touch, Send, client, thread, wires, history,
    WritersKept, Others,
    IInv, KindsInv, CallsInv, SessionInv, Session
<1>3. CASE OpenWake
  BY <1>3, ThreadFacts
  DEF OpenWake, Fault, Go, Touch, LeaveTells, client, thread, wires, history, WritersKept,
    Others,
    IInv, KindsInv, CallsInv, SessionInv, Session
<1>4. CASE OpenRefused
  BY <1>4, ThreadFacts
  DEF OpenRefused, Go, Fault, TrigClose, client, thread, wires, history, WritersKept, Others,
    IInv, KindsInv, CallsInv, SessionInv, Session
<1>5. CASE OpenAddFd
  BY <1>5, ThreadFacts
  DEF OpenAddFd, Go, client, thread, wires, history, WritersKept, Others, IInv, KindsInv,
    CallsInv, SessionInv, Session
<1>6. CASE OpenPublish
  BY <1>6, ThreadFacts
  DEF OpenPublish, Go, Fault, client, thread, wires, history, WritersKept, Others, IInv,
    KindsInv, CallsInv, SessionInv, Session
<1>7. CASE CloseLock
  BY <1>7, ThreadFacts
  DEF CloseLock, ComesLate, Go, Fault, Touch, client, thread, wires, history, WritersKept,
    Others, IInv,
    KindsInv, CallsInv, SessionInv, Session
<1>8. CASE CloseTrig
  BY <1>8, ThreadFacts
  DEF CloseTrig, Fault, Go, TrigClose, client, thread, wires, history, WritersKept, Others,
    IInv,
    KindsInv, CallsInv, SessionInv, Session
<1>9. CASE CloseDelFd
  BY <1>9, ThreadFacts
  DEF CloseDelFd, Go, client, thread, wires, history, WritersKept, Others, IInv, KindsInv,
    CallsInv, SessionInv, Session
<1>10. ASSUME NEW t \in Callers, Enter(t) PROVE Others
  BY <1>10 DEF Others
<1>11. ASSUME NEW w \in Writers, WriteNext(w) PROVE Others
  BY <1>11 DEF Others, WriteStep
<1>12. ASSUME NEW w \in Writers, WriteStore(w) PROVE Others
  BY <1>12 DEF Others, WriteStep
<1>13. ASSUME NEW w \in Writers, WriteSend(w) PROVE Others
  BY <1>13 DEF Others, WriteStep
<1>14. ASSUME NEW w \in Writers, WriteWake(w) PROVE Others
  BY <1>14 DEF Others, WriteStep
<1>15. ASSUME NEW w \in Writers, WriteTimeout(w) PROVE Others
  BY <1>15 DEF Others
<1>16. ASSUME NEW r \in Readers, Read(r) PROVE Others
  BY <1>16, ThreadFacts
  DEF Read, Go, Fault, Touch, Sleep, Leave, LeaveTells, client, thread, wires, history,
    WritersKept, Others, IInv, KindsInv, CallsInv, SessionInv, Session
<1>17. ASSUME NEW r \in Readers, ReadTimeout(r) PROVE Others
  BY <1>17, ThreadFacts
  DEF ReadTimeout, Go, Touch, Leave, LeaveTells, client, thread, wires, history, WritersKept,
    Others, IInv, KindsInv, CallsInv, SessionInv, Session
<1>18. ASSUME NEW q \in Queriers, QuerySend(q) PROVE Others
  BY <1>18, ThreadFacts
  DEF QuerySend, Go, Fault, Touch, Send, Sleep, Leave, LeaveTells, client, thread, wires,
    history, WritersKept, Others, IInv, KindsInv, CallsInv, SessionInv, Session
<1>19. ASSUME NEW q \in Queriers, QueryWake(q) PROVE Others
  BY <1>19, ThreadFacts
  DEF QueryWake, Go, Touch, Sleep, Leave, LeaveTells, client, thread, wires, history,
    WritersKept, Others, IInv, KindsInv, CallsInv, SessionInv, Session
<1>20. CASE Discard
  BY <1>20, ThreadFacts
  DEF Discard, client, thread, wires, history, WritersKept, Others, IInv, KindsInv, CallsInv,
    SessionInv, Session
<1>21. ASSUME NEW t \in Threads, Spurious(t) PROVE Others
  BY <1>21, ThreadFacts
  DEF Spurious, Go, client, thread, wires, history, WritersKept, Others, IInv, KindsInv,
    CallsInv, SessionInv, Session
<1>22. CASE RdCheck
  BY <1>22, ThreadFacts
  DEF RdCheck, client, thread, wires, history, WritersKept, Others, IInv, KindsInv, CallsInv,
    SessionInv, Session
<1>23. CASE RdRecv
  BY <1>23, ThreadFacts
  DEF RdRecv, client, thread, wires, history, WritersKept, Others, IInv, KindsInv, CallsInv,
    SessionInv, Session
<1>24. CASE RdNotFound
  BY <1>24, ThreadFacts
  DEF RdNotFound, client, thread, wires, history, WritersKept, Others, IInv, KindsInv,
    CallsInv, SessionInv, Session
<1>25. CASE RdProc
  <2>1. KindsInv /\ CallsInv /\ Writers \subseteq Threads /\ UNCHANGED <<log, setup>>
    BY <1>25, ThreadFacts DEF RdProc, IInv, KindsInv
  <2> DEFINE m == Head(rd.buf)
  <2>2. /\ m \in Answer /\ sock'.send_seq = sock.send_seq /\ (pc' = Woken \/ pc' = pc)
        /\ op' = [t \in Threads |-> IF t \in sock.head THEN Takes(t, m) ELSE op[t]]
    BY <1>25, <2>1, ProcFacts
  <2> HIDE DEF m
  <2>3. \A w \in Writers : op'[w].id = op[w].id
    BY <2>1, <2>2, TakesFacts
  <2> QED
    BY <2>1, <2>2, <2>3 DEF Others, WritersKept, Woken
<1>26. CASE RdEnd
  BY <1>26, ThreadFacts
  DEF RdEnd, client, thread, wires, history, WritersKept, Others, IInv, KindsInv, CallsInv,
    SessionInv, Session
<1>27. CASE RdDeinitWait
  BY <1>27, ThreadFacts
  DEF RdDeinitWait, Woken, client, thread, wires, history, WritersKept, Others, IInv, KindsInv,
    CallsInv, SessionInv, Session
<1>28. CASE RdListEmpty \/ RdFree
  BY <1>28, ThreadFacts
  DEF RdListEmpty, RdFree, client, thread, wires, history, WritersKept, Others, IInv,
    KindsInv, CallsInv,
    SessionInv, Session
<1>29. CASE DaemonStep \/ DaemonPush \/ HangUp
  BY <1>29, ThreadFacts
  DEF DaemonStep, DaemonOpen, DaemonWrite, DaemonComplete, DaemonQuery, DaemonPush, HangUp,
    Request, Reply, client, thread, wires, history, WritersKept, Others, IInv, KindsInv,
    CallsInv, SessionInv, Session
<1>30. CASE UNCHANGED vars
  BY <1>30, ThreadFacts
  DEF vars, client, thread, wires, history, WritersKept, Others, IInv, KindsInv, CallsInv,
    SessionInv, Session
<1> QED
  BY <1>1, <1>2, <1>3, <1>4, <1>5, <1>6, <1>7, <1>8, <1>9, <1>10, <1>11, <1>12, <1>13, <1>14,
    <1>15, <1>16, <1>17, <1>18, <1>19, <1>20, <1>21, <1>22, <1>23, <1>24, <1>25, <1>26, <1>27,
    <1>28, <1>29, <1>30
  DEF Next, MainStep, WriteStep, QueryStep, RdStep, DaemonStep

(* The messages of a thread that writes alone are numbered in order.       *)
LEMMA NextNumbers == ASSUME IInv, [Next]_vars PROVE NumbersInv'
<1>1. /\ KindsInv /\ NumbersInv /\ Writers \subseteq Threads /\ Main \notin Writers
      /\ pc \in [Threads -> Places] /\ op \in [Threads -> Op] /\ sock.send_seq \in Nat
      /\ log \in [Writers -> Seq(Entry)] /\ Writers \subseteq Callers /\ sock \in Session
  BY ThreadFacts DEF IInv, KindsInv, CallsInv, HistoryInv, SessionInv, Session
<1>2. CASE WritersKept
  <2>1. ASSUME NEW w \in Writers, Alone(w)' PROVE Alone(w)
    BY <1>2, <2>1 DEF WritersKept, Alone
  <2> QED
    BY <1>1, <1>2, <2>1 DEF WritersKept, NumbersInv, Numbered, Sending
<1>3. ASSUME NEW t \in Callers, Enter(t) PROVE NumbersInv'
  <2>1. /\ UNCHANGED <<setup, sock, log>> /\ \A w \in Writers : op'[w].id = op[w].id
        /\ \A w \in Writers : pc'[w] = pc[w] \/ (w = t /\ pc[w] = "idle" /\ pc'[w] = "next")
    BY <1>1, <1>3 DEF Enter, Go, history, Op
  <2>2. t \in setup.callers
    BY <1>3 DEF Enter
  <2> QED
    BY <1>1, <2>1, <2>2 DEF NumbersInv, Numbered, Sending, Alone
<1>4. ASSUME NEW u \in Writers, WriteStep(u) \/ WriteTimeout(u) PROVE NumbersInv'
  <2>1. /\ UNCHANGED setup /\ pc[u] # "idle" /\ pc' = [pc EXCEPT ![u] = pc'[u]]
        /\ \A v \in Writers \ {u} : op'[v] = op[v] /\ log'[v] = log[v]
    BY <1>1, <1>4 DEF WriteStep, WriteNext, WriteStore, WriteSend, WriteWake, WriteTimeout,
      Fault,
      Go, Touch, Sleep, WriteEnd, history
  <2>2. ASSUME NEW w \in Writers, Alone(w)' PROVE w = u /\ Numbered(u)
    BY <1>1, <2>1, <2>2 DEF NumbersInv, Numbered, Alone
  <2>3. SUFFICES ASSUME Numbered(u) PROVE Numbered(u)'
    BY <2>2 DEF NumbersInv
  <2>4. \A v \in Writers \ {u} : pc'[v] = "idle" /\ log'[v] = <<>>
    BY <1>1, <2>1, <2>3 DEF Numbered
  <2>5. /\ op[u] \in Op /\ op[u].id \in Nat /\ pc[u] \in Places /\ u \in Threads
        /\ log[u] \in Seq(Entry) /\ \A i \in DOMAIN log[u] : log[u][i].id \in Nat
    <3>1. /\ op[u] \in Op /\ pc[u] \in Places /\ u \in Threads /\ log[u] \in Seq(Entry)
      BY <1>1
    <3>2. \A i \in DOMAIN log[u] : log[u][i] \in Entry
      BY <3>1
    <3> QED
      BY <3>1, <3>2 DEF Op, Entry
  <2>6. CASE pc'[u] = "fault" /\ UNCHANGED <<sock, op, log>>
    BY <2>3, <2>4, <2>6 DEF Numbered, Sending
  <2>7. CASE WriteNext(u) /\ ~ Fault(u)
    <3>1. /\ pc'[u] = "store" /\ UNCHANGED <<sock, log>> /\ op'[u].id = sock.send_seq
      BY <1>1, <2>5, <2>7 DEF WriteNext, Go, history, Op
    <3> QED
      BY <2>3, <2>4, <3>1 DEF Numbered, Sending
  <2>8. CASE WriteStore(u) /\ ~ Fault(u)
    <3>1. /\ pc[u] = "store" /\ pc'[u] = "lock" /\ UNCHANGED <<op, log>>
          /\ sock'.send_seq = op[u].id + 1
      BY <1>1, <2>5, <2>8 DEF WriteStore, Go, history, Session
    <3> QED
      BY <2>3, <2>4, <2>5, <3>1 DEF Numbered, Sending
  <2>9. CASE Sleep(u) /\ pc[u] \in Sending /\ UNCHANGED <<op, log>>
    <3>1. pc'[u] = "asleep" /\ sock'.send_seq = sock.send_seq
      BY <1>1, <2>5, <2>9 DEF Sleep, Go, Session
    <3> QED
      BY <2>3, <2>4, <2>9, <3>1 DEF Numbered, Sending
  <2>10. ASSUME NEW n \in Int, NEW how \in {"exit", "done", "timeout"},
                WriteEnd(u, n, how), pc[u] \in Sending
         PROVE  Numbered(u)'
    <3>1. /\ op'[u].id = op[u].id /\ LogGrows(u, n, how)
          /\ pc' = [pc EXCEPT ![u] = pc'[u]] /\ pc'[u] \in {"next", "idle"}
          /\ sock' = [sock EXCEPT !.head = sock.head \ {u}]
      <4>1. /\ \A t \in Threads : op'[t].id = op[t].id
            /\ pc' = [pc EXCEPT ![u] = pc'[u]] /\ pc'[u] \in {"next", "idle"}
            /\ sock' = [sock EXCEPT !.head = sock.head \ {u}]
        <5>1. KindsInv /\ WriteEnd(u, n, how)
          BY <1>1, <2>10
        <5>2. \A t \in Threads : op'[t].id = op[t].id
          BY <5>1, EndFacts
        <5>3. pc' = [pc EXCEPT ![u] = pc'[u]] /\ pc'[u] \in {"next", "idle"}
          BY <1>1, <2>5, <5>1 DEF WriteEnd, Go
        <5>4. sock' = [sock EXCEPT !.head = sock.head \ {u}]
          BY <5>1 DEF WriteEnd, Leave
        <5> QED
          BY <5>2, <5>3, <5>4
      <4>2. LogGrows(u, n, how)
        <5>1. KindsInv /\ WriteEnd(u, n, how)
          BY <1>1, <2>10
        <5> QED
          BY <5>1, LogFacts
      <4> QED
        BY <2>5, <4>1, <4>2
    <3>2. pc'[u] \notin Sending /\ pc'[u] # "store" /\ sock'.send_seq = sock.send_seq
      BY <1>1, <2>5, <3>1 DEF Sending, Session
    <3>3. sock.send_seq = op[u].id + 1
      BY <2>3, <2>10 DEF Numbered
    <3>4. \A i \in DOMAIN log'[u] : log'[u][i].id < sock.send_seq
      BY <2>3, <2>5, <3>1, <3>3 DEF LogGrows, Numbered
    <3> QED
      BY <2>4, <3>2, <3>4 DEF Numbered
  <2>11. CASE WriteSend(u) \/ WriteWake(u) \/ WriteTimeout(u)
    <3>1. pc[u] \in Sending
      BY <2>11 DEF WriteSend, WriteWake, WriteTimeout, Sending
    <3>2. CASE Fault(u) /\ UNCHANGED <<op, log>>
      BY <1>1, <2>5, <2>6, <3>2 DEF Fault, Go
    <3> QED
      BY <1>1, <2>9, <2>10, <2>11, <3>1, <3>2, WriteEnds
  <2>12. CASE Fault(u) /\ (WriteNext(u) \/ WriteStore(u))
    BY <1>1, <2>5, <2>6, <2>12 DEF Fault, Go, WriteNext, WriteStore, history
  <2> QED
    BY <1>4, <2>7, <2>8, <2>11, <2>12 DEF WriteStep
<1> QED
  BY <1>2, <1>3, <1>4, NextOthers DEF Others

(* The results of a call are reset before its message is sent.             *)
LEMMA NextFresh == ASSUME IInv, [Next]_vars PROVE FreshInv'
<1>1. CASE SockInit
  BY <1>1, ThreadFacts
  DEF SockInit, Go, client, thread, wires, history, FreshInv, IInv, KindsInv, CallsInv
<1>2. CASE OpenSend
  BY <1>2, ThreadFacts
  DEF OpenSend, ComesLate, Go, Fault, Touch, Send, client, thread, wires, history, FreshInv,
    IInv,
    KindsInv, CallsInv
<1>3. CASE OpenWake
  BY <1>3, ThreadFacts
  DEF OpenWake, Fault, Go, Touch, LeaveTells, client, thread, wires, history, FreshInv, IInv,
    KindsInv, CallsInv
<1>4. CASE OpenRefused
  BY <1>4, ThreadFacts
  DEF OpenRefused, Go, Fault, TrigClose, client, thread, wires, history, FreshInv, IInv,
    KindsInv, CallsInv
<1>5. CASE OpenAddFd
  BY <1>5, ThreadFacts
  DEF OpenAddFd, Go, client, thread, wires, history, FreshInv, IInv, KindsInv, CallsInv
<1>6. CASE OpenPublish
  BY <1>6, ThreadFacts
  DEF OpenPublish, Go, Fault, client, thread, wires, history, FreshInv, IInv, KindsInv,
    CallsInv
<1>7. CASE CloseLock
  BY <1>7, ThreadFacts
  DEF CloseLock, ComesLate, Go, Fault, Touch, client, thread, wires, history, FreshInv, IInv,
    KindsInv,
    CallsInv
<1>8. CASE CloseTrig
  BY <1>8, ThreadFacts
  DEF CloseTrig, Fault, Go, TrigClose, client, thread, wires, history, FreshInv, IInv, KindsInv,
    CallsInv
<1>9. CASE CloseDelFd
  BY <1>9, ThreadFacts
  DEF CloseDelFd, Go, client, thread, wires, history, FreshInv, IInv, KindsInv, CallsInv
<1>10. ASSUME NEW t \in Callers, Enter(t) PROVE FreshInv'
  BY <1>10, ThreadFacts
  DEF Enter, Go, client, thread, wires, history, FreshInv, IInv, KindsInv, CallsInv
<1>11. ASSUME NEW w \in Writers, WriteNext(w) PROVE FreshInv'
  <2>1. w \in Threads /\ op \in [Threads -> Op] /\ FreshInv /\ pc \in [Threads -> Places]
        /\ Writers \subseteq Threads
    BY ThreadFacts DEF IInv, KindsInv, CallsInv
  <2>2. \A v \in Writers : op'[v].sta = 0 \/ op'[v] = op[v]
    BY <1>11, <2>1 DEF WriteNext, Fault, Op
  <2>3. \A v \in Writers : pc'[v] = pc[v] \/ (v = w /\ (pc'[v] = "fault" \/ op'[v].sta = 0))
    BY <1>11, <2>1 DEF WriteNext, Fault, Go, Op
  <2> QED
    BY <2>1, <2>2, <2>3 DEF FreshInv
<1>12. ASSUME NEW w \in Writers, WriteStore(w) PROVE FreshInv'
  BY <1>12, ThreadFacts
  DEF WriteStore, Go, Fault, client, thread, wires, history, FreshInv, IInv, KindsInv, CallsInv
<1>13. ASSUME NEW w \in Writers, WriteSend(w) PROVE FreshInv'
  BY <1>13, ThreadFacts
  DEF WriteSend, Go, Fault, Touch, Send, WriteEnd, Sleep, Leave, LeaveTells, client, thread,
    wires, history, FreshInv, IInv, KindsInv, CallsInv
<1>14. ASSUME NEW w \in Writers, WriteWake(w) PROVE FreshInv'
  BY <1>14, ThreadFacts
  DEF WriteWake, Go, Touch, WriteEnd, Sleep, Leave, LeaveTells, client, thread, wires, history,
    FreshInv, IInv, KindsInv, CallsInv
<1>15. ASSUME NEW w \in Writers, WriteTimeout(w) PROVE FreshInv'
  BY <1>15, ThreadFacts
  DEF WriteTimeout, Go, Touch, WriteEnd, Leave, LeaveTells, client, thread, wires, history,
    FreshInv, IInv, KindsInv, CallsInv
<1>16. ASSUME NEW r \in Readers, Read(r) PROVE FreshInv'
  BY <1>16, ThreadFacts
  DEF Read, Go, Fault, Touch, Sleep, Leave, LeaveTells, client, thread, wires, history,
    FreshInv, IInv, KindsInv, CallsInv
<1>17. ASSUME NEW r \in Readers, ReadTimeout(r) PROVE FreshInv'
  BY <1>17, ThreadFacts
  DEF ReadTimeout, Go, Touch, Leave, LeaveTells, client, thread, wires, history, FreshInv,
    IInv, KindsInv, CallsInv
<1>18. ASSUME NEW q \in Queriers, QuerySend(q) PROVE FreshInv'
  BY <1>18, ThreadFacts
  DEF QuerySend, Go, Fault, Touch, Send, Sleep, Leave, LeaveTells, client, thread, wires,
    history, FreshInv, IInv, KindsInv, CallsInv
<1>19. ASSUME NEW q \in Queriers, QueryWake(q) PROVE FreshInv'
  BY <1>19, ThreadFacts
  DEF QueryWake, Go, Touch, Sleep, Leave, LeaveTells, client, thread, wires, history, FreshInv,
    IInv, KindsInv, CallsInv
<1>20. CASE Discard
  BY <1>20, ThreadFacts
  DEF Discard, client, thread, wires, history, FreshInv, IInv, KindsInv, CallsInv
<1>21. ASSUME NEW t \in Threads, Spurious(t) PROVE FreshInv'
  BY <1>21, ThreadFacts
  DEF Spurious, Go, client, thread, wires, history, FreshInv, IInv, KindsInv, CallsInv
<1>22. CASE RdCheck
  BY <1>22, ThreadFacts
  DEF RdCheck, client, thread, wires, history, FreshInv, IInv, KindsInv, CallsInv
<1>23. CASE RdRecv
  BY <1>23, ThreadFacts
  DEF RdRecv, client, thread, wires, history, FreshInv, IInv, KindsInv, CallsInv
<1>24. CASE RdNotFound
  BY <1>24, ThreadFacts
  DEF RdNotFound, client, thread, wires, history, FreshInv, IInv, KindsInv, CallsInv
<1>25. CASE RdProc
  <2>1. /\ KindsInv /\ CallsInv /\ WaitingInv /\ FreshInv /\ Writers \subseteq Threads
        /\ pc \in [Threads -> Places]
    BY ThreadFacts DEF IInv, KindsInv, CallsInv
  <2>2. /\ pc' = Woken \/ pc' = pc
        /\ op' = [t \in Threads |-> IF t \in sock.head THEN Takes(t, Head(rd.buf)) ELSE op[t]]
    BY <1>25, <2>1, ProcFacts
  <2>3. sock.mem # "freed"
    BY <1>25, <2>1 DEF RdProc, WaitingInv
  <2>4. \A w \in Writers : pc[w] \in {"store", "lock"} => w \notin sock.head
    BY <2>1, <2>3 DEF WaitingInv
  <2> QED
    BY <2>1, <2>2, <2>4 DEF FreshInv, Woken
<1>26. CASE RdEnd
  BY <1>26, ThreadFacts
  DEF RdEnd, client, thread, wires, history, FreshInv, IInv, KindsInv, CallsInv
<1>27. CASE RdDeinitWait
  BY <1>27, ThreadFacts
  DEF RdDeinitWait, Woken, client, thread, wires, history, FreshInv, IInv, KindsInv, CallsInv
<1>28. CASE RdListEmpty \/ RdFree
  BY <1>28, ThreadFacts
  DEF RdListEmpty, RdFree, client, thread, wires, history, FreshInv, IInv, KindsInv, CallsInv
<1>29. CASE DaemonStep \/ DaemonPush \/ HangUp
  BY <1>29, ThreadFacts
  DEF DaemonStep, DaemonOpen, DaemonWrite, DaemonComplete, DaemonQuery, DaemonPush, HangUp,
    Request, Reply, client, thread, wires, history, FreshInv, IInv, KindsInv, CallsInv
<1>30. CASE UNCHANGED vars
  BY <1>30, ThreadFacts
  DEF vars, client, thread, wires, history, FreshInv, IInv, KindsInv, CallsInv
<1> QED
  BY <1>1, <1>2, <1>3, <1>4, <1>5, <1>6, <1>7, <1>8, <1>9, <1>10, <1>11, <1>12, <1>13, <1>14,
    <1>15, <1>16, <1>17, <1>18, <1>19, <1>20, <1>21, <1>22, <1>23, <1>24, <1>25, <1>26, <1>27,
    <1>28, <1>29, <1>30
  DEF Next, MainStep, WriteStep, QueryStep, RdStep, DaemonStep

\* Nothing that ended begins again.
Grows ==
  /\ setup' = setup /\ (sock.exit_flg => sock'.exit_flg)
  /\ LogKept

(* Logs only grow, and the end of the session is for good.                 *)
LEMMA NextGrows == ASSUME IInv, [Next]_vars PROVE Grows
<1>1. CASE SockInit
  BY <1>1, ThreadFacts
  DEF SockInit, Go, client, thread, wires, history, Grows, LogKept, IInv, KindsInv, SessionInv,
    Session
<1>2. CASE OpenSend
  BY <1>2, ThreadFacts
  DEF OpenSend, ComesLate, Go, Fault, Touch, Send, client, thread, wires, history, Grows,
    LogKept, IInv,
    KindsInv, SessionInv, Session
<1>3. CASE OpenWake
  BY <1>3, ThreadFacts
  DEF OpenWake, Fault, Go, Touch, LeaveTells, client, thread, wires, history, Grows, LogKept,
    IInv,
    KindsInv, SessionInv, Session
<1>4. CASE OpenRefused
  BY <1>4, ThreadFacts
  DEF OpenRefused, Go, Fault, TrigClose, client, thread, wires, history, Grows, LogKept, IInv,
    KindsInv, SessionInv, Session
<1>5. CASE OpenAddFd
  BY <1>5, ThreadFacts
  DEF OpenAddFd, Go, client, thread, wires, history, Grows, LogKept, IInv, KindsInv,
    SessionInv, Session
<1>6. CASE OpenPublish
  BY <1>6, ThreadFacts
  DEF OpenPublish, Go, Fault, client, thread, wires, history, Grows, LogKept, IInv, KindsInv,
    SessionInv, Session
<1>7. CASE CloseLock
  BY <1>7, ThreadFacts
  DEF CloseLock, ComesLate, Go, Fault, Touch, client, thread, wires, history, Grows, LogKept,
    IInv,
    KindsInv, SessionInv, Session
<1>8. CASE CloseTrig
  BY <1>8, ThreadFacts
  DEF CloseTrig, Fault, Go, TrigClose, client, thread, wires, history, Grows, LogKept, IInv,
    KindsInv,
    SessionInv, Session
<1>9. CASE CloseDelFd
  BY <1>9, ThreadFacts
  DEF CloseDelFd, Go, client, thread, wires, history, Grows, LogKept, IInv, KindsInv,
    SessionInv, Session
<1>10. ASSUME NEW t \in Callers, Enter(t) PROVE Grows
  BY <1>10, ThreadFacts
  DEF Enter, Go, client, thread, wires, history, Grows, LogKept, IInv, KindsInv, SessionInv,
    Session
<1>11. ASSUME NEW w \in Writers, WriteNext(w) PROVE Grows
  BY <1>11, ThreadFacts
  DEF WriteNext, Go, Fault, client, thread, wires, history, Grows, LogKept, IInv, KindsInv,
    SessionInv, Session
<1>12. ASSUME NEW w \in Writers, WriteStore(w) PROVE Grows
  BY <1>12, ThreadFacts
  DEF WriteStore, Go, Fault, client, thread, wires, history, Grows, LogKept, IInv, KindsInv,
    SessionInv, Session
<1>13. ASSUME NEW w \in Writers, WriteSend(w) PROVE Grows
  <2>1. KindsInv /\ sock \in Session
    BY DEF IInv, KindsInv, SessionInv
  <2>2. setup' = setup /\ (sock.exit_flg => sock'.exit_flg)
    BY <1>13, <2>1 DEF WriteSend, Fault, Sleep, WriteEnd, Leave, Session
  <2>3. CASE UNCHANGED log
    BY <2>2, <2>3 DEF Grows, LogKept
  <2>4. ASSUME NEW n \in Int, NEW how \in {"exit", "done", "timeout"}, WriteEnd(w, n, how)
        PROVE  LogKept
    BY <2>1, <2>4, LogFacts
  <2> QED
    BY <1>13, <2>1, <2>2, <2>3, <2>4, WriteEnds DEF Grows
<1>14. ASSUME NEW w \in Writers, WriteWake(w) PROVE Grows
  <2>1. KindsInv /\ sock \in Session
    BY DEF IInv, KindsInv, SessionInv
  <2>2. setup' = setup /\ (sock.exit_flg => sock'.exit_flg)
    BY <1>14, <2>1 DEF WriteWake, Fault, Sleep, WriteEnd, Leave, Session
  <2>3. CASE UNCHANGED log
    BY <2>2, <2>3 DEF Grows, LogKept
  <2>4. ASSUME NEW n \in Int, NEW how \in {"exit", "done", "timeout"}, WriteEnd(w, n, how)
        PROVE  LogKept
    BY <2>1, <2>4, LogFacts
  <2> QED
    BY <1>14, <2>1, <2>2, <2>3, <2>4, WriteEnds DEF Grows
<1>15. ASSUME NEW w \in Writers, WriteTimeout(w) PROVE Grows
  <2>1. KindsInv /\ sock \in Session
    BY DEF IInv, KindsInv, SessionInv
  <2>2. setup' = setup /\ (sock.exit_flg => sock'.exit_flg)
    BY <1>15, <2>1 DEF WriteTimeout, Fault, Sleep, WriteEnd, Leave, Session
  <2>3. CASE UNCHANGED log
    BY <2>2, <2>3 DEF Grows, LogKept
  <2>4. ASSUME NEW n \in Int, NEW how \in {"exit", "done", "timeout"}, WriteEnd(w, n, how)
        PROVE  LogKept
    BY <2>1, <2>4, LogFacts
  <2> QED
    BY <1>15, <2>1, <2>2, <2>3, <2>4, WriteEnds DEF Grows
<1>16. ASSUME NEW r \in Readers, Read(r) PROVE Grows
  BY <1>16, ThreadFacts
  DEF Read, Go, Fault, Touch, Sleep, Leave, LeaveTells, client, thread, wires, history, Grows,
    LogKept, IInv, KindsInv, SessionInv, Session
<1>17. ASSUME NEW r \in Readers, ReadTimeout(r) PROVE Grows
  BY <1>17, ThreadFacts
  DEF ReadTimeout, Go, Touch, Leave, LeaveTells, client, thread, wires, history, Grows,
    LogKept, IInv, KindsInv, SessionInv, Session
<1>18. ASSUME NEW q \in Queriers, QuerySend(q) PROVE Grows
  BY <1>18, ThreadFacts
  DEF QuerySend, Go, Fault, Touch, Send, Sleep, Leave, LeaveTells, client, thread, wires,
    history, Grows, LogKept, IInv, KindsInv, SessionInv, Session
<1>19. ASSUME NEW q \in Queriers, QueryWake(q) PROVE Grows
  BY <1>19, ThreadFacts
  DEF QueryWake, Go, Touch, Sleep, Leave, LeaveTells, client, thread, wires, history, Grows,
    LogKept, IInv, KindsInv, SessionInv, Session
<1>20. CASE Discard
  BY <1>20, ThreadFacts
  DEF Discard, client, thread, wires, history, Grows, LogKept, IInv, KindsInv, SessionInv,
    Session
<1>21. ASSUME NEW t \in Threads, Spurious(t) PROVE Grows
  BY <1>21, ThreadFacts
  DEF Spurious, Go, client, thread, wires, history, Grows, LogKept, IInv, KindsInv, SessionInv,
    Session
<1>22. CASE RdCheck
  BY <1>22, ThreadFacts
  DEF RdCheck, client, thread, wires, history, Grows, LogKept, IInv, KindsInv, SessionInv,
    Session
<1>23. CASE RdRecv
  BY <1>23, ThreadFacts
  DEF RdRecv, client, thread, wires, history, Grows, LogKept, IInv, KindsInv, SessionInv,
    Session
<1>24. CASE RdNotFound
  BY <1>24, ThreadFacts
  DEF RdNotFound, client, thread, wires, history, Grows, LogKept, IInv, KindsInv, SessionInv,
    Session
<1>25. CASE RdProc
  <2>1. KindsInv
    BY DEF IInv
  <2> QED
    BY <1>25, <2>1, ProcFacts DEF RdProc, Grows, LogKept
<1>26. CASE RdEnd
  BY <1>26, ThreadFacts
  DEF RdEnd, client, thread, wires, history, Grows, LogKept, IInv, KindsInv, SessionInv,
    Session
<1>27. CASE RdDeinitWait
  BY <1>27, ThreadFacts
  DEF RdDeinitWait, Woken, client, thread, wires, history, Grows, LogKept, IInv, KindsInv,
    SessionInv, Session
<1>28. CASE RdListEmpty \/ RdFree
  BY <1>28, ThreadFacts
  DEF RdListEmpty, RdFree, client, thread, wires, history, Grows, LogKept, IInv, KindsInv,
    SessionInv,
    Session
<1>29. CASE DaemonStep \/ DaemonPush \/ HangUp
  BY <1>29, ThreadFacts
  DEF DaemonStep, DaemonOpen, DaemonWrite, DaemonComplete, DaemonQuery, DaemonPush, HangUp,
    Request, Reply, client, thread, wires, history, Grows, LogKept, IInv, KindsInv, SessionInv,
    Session
<1>30. CASE UNCHANGED vars
  BY <1>30, ThreadFacts
  DEF vars, client, thread, wires, history, Grows, LogKept, IInv, KindsInv, SessionInv, Session
<1> QED
  BY <1>1, <1>2, <1>3, <1>4, <1>5, <1>6, <1>7, <1>8, <1>9, <1>10, <1>11, <1>12, <1>13, <1>14,
    <1>15, <1>16, <1>17, <1>18, <1>19, <1>20, <1>21, <1>22, <1>23, <1>24, <1>25, <1>26, <1>27,
    <1>28, <1>29, <1>30
  DEF Next, MainStep, WriteStep, QueryStep, RdStep, DaemonStep

(* At most one thing is under way, and it is of the message waited for.    *)
LEMMA NextUnderWay == ASSUME IInv, [Next]_vars PROVE UnderWayInv'
<1> SUFFICES ASSUME NEW w \in Writers, Alone(w)', NoTimeout(w)', ~ sock'.exit_flg
             PROVE  UnderWay(w)'
  BY DEF UnderWayInv
<1>1. /\ KindsInv /\ WaitingInv /\ StoredInv /\ FreshInv /\ w \in Threads
      /\ pc \in [Threads -> Places] /\ op \in [Threads -> Op] /\ op[w] \in Op
      /\ sock \in Session /\ w \in Callers /\ w # Main /\ ThreadInv /\ WiresInv
  BY ThreadFacts DEF IInv, KindsInv, CallsInv, SessionInv
<1>2. /\ Alone(w) /\ ~ sock.exit_flg /\ UnderWay(w) /\ LogKept
      /\ \A v \in Writers \ {w} : pc[v] = "idle"
  <2>1. Alone(w) /\ ~ sock.exit_flg /\ LogKept
    BY NextGrows DEF Grows, Alone
  <2>2. NoTimeout(w)
    BY <2>1 DEF NoTimeout, LogKept
  <2> QED
    BY <2>1, <2>2 DEF IInv, UnderWayInv, NumbersInv, Numbered
<1>3. ASSUME WritersKept, op'[w].sta = op[w].sta, Fewer(toDaemon, toDaemon'),
             Fewer(rd.buf, rd'.buf), Fewer(toClient, toClient'), dmn'.owed = dmn.owed,
             dmn'.stored = dmn.stored
      PROVE  UnderWay(w)'
  <2>1. Waits(w)' <=> Waits(w)
    BY <1>3 DEF WritersKept, Waits
  <2>2. op'[w].id = op[w].id
    BY <1>3 DEF WritersKept
  <2> QED
    BY <1>2, <1>3, <2>1, <2>2, UnderWayKept
<1>4. ASSUME WritersKept, UNCHANGED <<op, toDaemon, toClient, dmn>>, rd'.buf = rd.buf
      PROVE  UnderWay(w)'
  BY <1>3, <1>4, NothingWritten
<1>5. CASE WritersKept /\ (MainStep \/ CloseDelFd)
  <2>1. CASE OpenSend
    <3>1. UNCHANGED <<op, rd, toClient, dmn>>
      BY <2>1 DEF OpenSend, ComesLate, Fault, thread
    <3>2. \/ toDaemon' = toDaemon
          \/ toDaemon' = Append(toDaemon, [op |-> "open", id |-> 0, n |-> 0])
      BY <2>1 DEF OpenSend, Fault, Send
    <3>3. Fewer(toDaemon, toDaemon')
      BY <1>1, <3>2, AppendWrites, NothingWritten DEF WiresInv
    <3> QED
      BY <1>3, <1>5, <3>1, <3>3, NothingWritten
  <2>2. CASE SockInit \/ OpenWake \/ OpenRefused \/ OpenAddFd \/ OpenPublish \/ CloseLock
             \/ CloseTrig \/ CloseDelFd
    <3>1. UNCHANGED <<op, toDaemon, toClient, dmn>> /\ rd'.buf = rd.buf
      BY <1>1, <2>2 DEF SockInit, OpenWake, OpenRefused, OpenAddFd, OpenPublish, CloseLock,
        CloseTrig, CloseDelFd, Fault, LeaveTells, thread, wires, client, ThreadInv
    <3> QED
      BY <1>4, <1>5, <3>1
  <2> QED
    BY <1>5, <2>1, <2>2 DEF MainStep
<1>6. ASSUME NEW t \in Callers, Enter(t) PROVE UnderWay(w)'
  <2>1. UNCHANGED <<thread, wires>> /\ op'[w].id = op[w].id /\ op'[w].sta = op[w].sta
    BY <1>1, <1>6 DEF Enter, Op
  <2>2. Waits(w)' <=> Waits(w)
    BY <1>1, <1>6 DEF Enter, Go, Waits
  <2> QED
    BY <1>2, <2>1, <2>2, UnderWayKept, NothingWritten DEF thread, wires
<1>7. ASSUME NEW u \in Writers, WriteStep(u) \/ WriteTimeout(u) PROVE UnderWay(w)'
  <2>1. u = w
    BY <1>2, <1>7 DEF WriteStep, WriteNext, WriteStore, WriteSend, WriteWake, WriteTimeout
  <2>2. CASE WriteNext(w) \/ WriteStore(w) \/ (Fault(w) /\ WriteSend(w))
    <3>1. UNCHANGED <<thread, wires>>
      <4>1. Fault(w) /\ WriteSend(w) => ~ Touch(w)
        BY DEF Fault, Touch
      <4> QED
        BY <2>2, <4>1 DEF WriteNext, WriteStore, WriteSend, thread, wires
    <3>2. ~ Waits(w) /\ ~ Waits(w)'
      BY <1>1, <2>2 DEF WriteNext, WriteStore, WriteSend, Fault, Go, Waits
    <3> QED
      BY <1>2, <3>1, <3>2, UnderWayKept, NothingWritten DEF thread, wires
  <2>3. CASE Sleep(w) /\ UNCHANGED <<log, op>> /\ WriteSend(w) /\ ~ Fault(w)
    <3>1. /\ UNCHANGED <<rd, toClient, dmn, op>> /\ ~ Waits(w) /\ Waits(w)' /\ op[w].sta = 0
      BY <1>1, <2>3 DEF WriteSend, Sleep, Go, Waits, FreshInv
    <3>2. NoWrites(toDaemon) /\ NoWrites(rd.buf) /\ NoWrites(toClient) /\ dmn.owed = <<>>
      BY <1>2, <3>1 DEF UnderWay, AsksOne, OwesOne, EndsOne
    <3> DEFINE x == [op |-> "write", id |-> op[w].id, n |-> Piece(w)]
    <3>3. toDaemon' = toDaemon \/ toDaemon' = Append(toDaemon, x)
      BY <2>3 DEF WriteSend, Send
    <3>4. CASE toDaemon' = toDaemon
      BY <3>1, <3>2, <3>4, NothingUnderWay DEF Ended
    <3>5. CASE toDaemon' = Append(toDaemon, x)
      <4>1. x.op = "write" /\ x.id = op[w].id
        OBVIOUS
      <4> HIDE DEF x
      <4>2. Single(toDaemon)' /\ ToSet(toDaemon') = ToSet(toDaemon) \cup {x}
        BY <1>1, <3>2, <3>5, <4>1, AppendWrites, PlainAppend DEF WiresInv
      <4>3. Single(rd.buf) /\ Single(toClient)
        BY <3>2, NothingWritten
      <4> QED
        BY <3>1, <3>2, <4>1, <4>2, <4>3, EmptyFacts
        DEF UnderWay, AsksOne, OwesOne, EndsOne, Ended, NoWrites
    <3> QED
      BY <3>3, <3>4, <3>5
  <2>4. CASE Sleep(w) /\ UNCHANGED <<log, op>> /\ WriteWake(w)
    <3>1. /\ UNCHANGED <<rd, wires, op>> /\ Waits(w) /\ Waits(w)'
      BY <1>1, <2>4 DEF WriteWake, Sleep, Go, Waits
    <3> QED
      BY <1>2, <3>1, UnderWayKept, NothingWritten DEF wires
  <2>5. ASSUME NEW n \in Int, NEW how \in {"exit", "done", "timeout"},
               WriteEnd(w, n, how), EndsWith(w, n, how)
        PROVE  UnderWay(w)'
    <3>1. how # "timeout"
      <4>1. log'[w][Len(log[w]) + 1] = [id |-> op[w].id, n |-> n, how |-> how]
            /\ Len(log[w]) + 1 \in DOMAIN log'[w]
        <5>1. KindsInv /\ WriteEnd(w, n, how)
          BY <1>1, <2>5
        <5>2. Len(log[w]) \in Nat /\ DOMAIN log'[w] = 1 .. Len(log[w]) + 1
          BY <5>1, LogFacts
        <5>3. log'[w][Len(log[w]) + 1] = [id |-> op[w].id, n |-> n, how |-> how]
          BY <5>1, LogFacts
        <5> QED
          BY <5>2, <5>3
      <4> QED
        BY <4>1 DEF NoTimeout
    <3>2. Ended(w) /\ pc[w] = "woken"
      BY <1>2, <2>5, <3>1 DEF EndsWith, Ended, Waits
    <3>3. UNCHANGED wires
      BY <1>7, <2>1, <3>2 DEF WriteStep, WriteNext, WriteStore, WriteSend, WriteWake,
        WriteTimeout
    <3>4. ~ Waits(w)' /\ rd'.buf = rd.buf
      BY <1>1, <2>5 DEF WriteEnd, Leave, LeaveTells, Go, Waits, ThreadInv
    <3>5. NoWrites(toDaemon) /\ NoWrites(rd.buf) /\ NoWrites(toClient) /\ dmn.owed = <<>>
      BY <1>2, <3>2 DEF UnderWay
    <3> QED
      BY <3>3, <3>4, <3>5, NothingUnderWay DEF wires, Ended, NoWrites
  <2>6. CASE WriteSend(w) \/ WriteWake(w) \/ WriteTimeout(w)
    <3>1. CASE Sleep(w) /\ UNCHANGED <<log, op>>
      <4>1. ~ WriteTimeout(w)
        <5>1. pc'[w] = "asleep"
          BY <1>1, <3>1 DEF Sleep, Go
        <5> QED
          BY <1>1, <5>1 DEF WriteTimeout, WriteEnd, Go
      <4>2. WriteSend(w) => ~ Fault(w)
        BY <1>1, <3>1 DEF Sleep, Fault, Go
      <4> QED
        BY <2>3, <2>4, <2>6, <3>1, <4>1, <4>2
    <3> QED
      BY <1>1, <2>2, <2>5, <2>6, <3>1, WriteEnds
  <2> QED
    BY <1>7, <2>1, <2>2, <2>6 DEF WriteStep
<1>8. CASE WritersKept /\ (Discard \/ \E r \in Readers : Read(r) \/ ReadTimeout(r))
  <2>1. UNCHANGED <<op, wires>> /\ rd'.buf = rd.buf
    BY <1>1, <1>8 DEF Discard, Read, ReadTimeout, Fault, Sleep, Leave, LeaveTells, ThreadInv,
      thread
  <2> QED
    BY <1>4, <1>8, <2>1 DEF wires
<1>9. CASE WritersKept /\ \E q \in Queriers : QueryStep(q)
  <2>1. PICK q \in Queriers : QueryStep(q)
    BY <1>9
  <2>2. q # w /\ q \in Threads
    BY ThreadFacts
  <2>3. op'[w] = op[w] /\ rd'.buf = rd.buf /\ UNCHANGED <<toClient, dmn>>
    BY <1>1, <2>1, <2>2
    DEF QueryStep, QuerySend, QueryWake, Fault, Sleep, Leave, LeaveTells, ThreadInv, wires
  <2>4. \/ toDaemon' = toDaemon
        \/ toDaemon' = Append(toDaemon, [op |-> "query", id |-> 0, n |-> 0])
    BY <2>1 DEF QueryStep, QuerySend, QueryWake, Send, wires
  <2>5. Fewer(toDaemon, toDaemon')
    BY <1>1, <2>4, AppendWrites, NothingWritten DEF WiresInv
  <2> QED
    BY <1>3, <1>9, <2>3, <2>5, NothingWritten
<1>10. CASE WritersKept /\ \E t \in Threads : Spurious(t)
  BY <1>4, <1>10 DEF Spurious, thread, wires
<1>11. CASE WritersKept /\ RdStep
  <2>1. CASE RdCheck \/ RdEnd \/ RdDeinitWait \/ RdListEmpty \/ RdFree
    <3>1. UNCHANGED <<op, wires>> /\ rd'.buf = rd.buf
      BY <1>1, <2>1 DEF RdCheck, RdEnd, RdDeinitWait, RdListEmpty, RdFree, ThreadInv, client
    <3> QED
      BY <1>4, <1>11, <3>1 DEF wires
  <2>2. CASE RdRecv
    <3>1. CASE UNCHANGED toClient
      <4>1. rd'.buf = rd.buf /\ UNCHANGED <<op, toDaemon, dmn>>
        BY <1>1, <2>2, <3>1 DEF RdRecv, ThreadInv, client
      <4> QED
        BY <1>4, <1>11, <3>1, <4>1
    <3>2. CASE ~ UNCHANGED toClient
      <4>1. /\ rd.buf = <<>> /\ rd'.buf = toClient /\ toClient' = <<>>
            /\ UNCHANGED <<op, pc, toDaemon, dmn>>
        BY <1>1, <2>2, <3>2 DEF RdRecv, ThreadInv, client
      <4> QED
        BY <1>2, <4>1, NothingWritten, EmptyFacts
        DEF UnderWay, AsksOne, OwesOne, EndsOne, Ended, Waits, Stores
    <3> QED
      BY <3>1, <3>2
  <2>3. CASE RdNotFound
    <3>1. rd'.buf = <<>> /\ UNCHANGED <<op, wires>>
      BY <2>3 DEF RdNotFound, client
    <3> QED
      BY <1>3, <1>11, <3>1, NothingWritten DEF wires
  <2>4. CASE RdProc
    <3> DEFINE m == Head(rd.buf)
    <3>1. /\ m \in Answer /\ rd.buf # <<>> /\ rd.buf \in Seq(Answer) /\ rd'.buf = Tail(rd.buf)
          /\ op' = [t \in Threads |-> IF t \in sock.head THEN Takes(t, m) ELSE op[t]]
      BY <1>1, <2>4, ProcFacts DEF ThreadInv
    <3>2. Fewer(rd.buf, rd'.buf) /\ (Single(rd.buf) /\ m.op = "write" => NoWrites(rd'.buf))
      BY <3>1, TailWrites
    <3>3. UNCHANGED wires
      BY <2>4 DEF RdProc
    <3>4. m \in ToSet(rd.buf)
      BY <3>1, QueueFacts
    <3> HIDE DEF m
    <3>5. /\ op'[w].id = op[w].id
          /\ op'[w].sta = op[w].sta \/ (m.op = "write" /\ op'[w].sta = m.n)
      BY <1>1, <3>1, TakesFacts, ThreadFacts DEF KindsInv
    <3>6. CASE m.op = "write"
      <4>1. ~ NoWrites(rd.buf)
        BY <3>4, <3>6 DEF NoWrites
      <4>2. /\ NoWrites(toDaemon) /\ dmn.owed = <<>> /\ NoWrites(toClient) /\ Stores(w, m.n)
            /\ Single(rd.buf) /\ ~ Ended(w) /\ Waits(w)
        BY <1>2, <3>4, <3>6, <4>1 DEF UnderWay, EndsOne
      <4>3. Ended(w)' => Stores(w, op[w].sta)'
        BY <3>3, <3>5, <4>2 DEF Ended, Stores, wires
      <4> QED
        BY <3>2, <3>3, <3>6, <4>2, <4>3, NothingUnderWay DEF wires
    <3>7. CASE m.op # "write"
      BY <1>3, <1>11, <3>2, <3>3, <3>5, <3>7, NothingWritten DEF wires
    <3> QED
      BY <3>6, <3>7
  <2> QED
    BY <1>11, <2>1, <2>2, <2>3, <2>4 DEF RdStep
<1>12. CASE WritersKept /\ (DaemonStep \/ DaemonPush \/ HangUp)
  <2>1. UNCHANGED <<op, rd, pc>>
    BY <1>12 DEF DaemonStep, DaemonOpen, DaemonWrite, DaemonComplete, DaemonQuery, DaemonPush,
      HangUp, client, thread
  <2>2. CASE DaemonOpen \/ DaemonQuery
    <3>1. PICK x : toClient' = Append(toClient, x) /\ x.op \in {"open", "notfound", "query"}
      BY <2>2 DEF DaemonOpen, DaemonQuery, Reply
    <3>2. toDaemon # <<>> /\ toDaemon' = Tail(toDaemon)
      BY <2>2 DEF DaemonOpen, DaemonQuery, Request
    <3>3. dmn'.owed = dmn.owed /\ dmn'.stored = dmn.stored
      BY <1>1, <2>2 DEF DaemonOpen, DaemonQuery, WiresInv
    <3>4. Fewer(toClient, toClient') /\ Fewer(toDaemon, toDaemon')
      BY <1>1, <3>1, <3>2, AppendWrites, TailWrites DEF WiresInv
    <3> QED
      BY <1>3, <1>12, <2>1, <3>3, <3>4, NothingWritten
  <2>3. CASE DaemonPush
    <3>1. PICK x : toClient' = Append(toClient, x) /\ x.op = "read"
      BY <2>3 DEF DaemonPush, Reply
    <3>2. dmn'.owed = dmn.owed /\ dmn'.stored = dmn.stored /\ UNCHANGED toDaemon
      BY <1>1, <2>3 DEF DaemonPush, WiresInv
    <3>3. Fewer(toClient, toClient')
      BY <1>1, <3>1, AppendWrites DEF WiresInv
    <3> QED
      BY <1>3, <1>12, <2>1, <3>2, <3>3, NothingWritten
  <2>4. CASE HangUp
    <3>1. dmn'.owed = dmn.owed /\ dmn'.stored = dmn.stored /\ UNCHANGED <<toDaemon, toClient>>
      BY <1>1, <2>4 DEF HangUp, WiresInv
    <3> QED
      BY <1>3, <1>12, <2>1, <3>1, NothingWritten
  <2>5. CASE DaemonWrite
    <3> DEFINE a == Head(toDaemon)
    <3>1. /\ toDaemon # <<>> /\ toDaemon' = Tail(toDaemon) /\ a.op = "write"
          /\ a \in ToSet(toDaemon)
      BY <1>1, <2>5, QueueFacts DEF DaemonWrite, Request, WiresInv
    <3>2. PICK x, y : /\ toClient' = Append(toClient, x) /\ x.op = "write_ret"
                     /\ dmn'.owed = Append(dmn.owed, y) /\ y.id = a.id
                     /\ dmn'.stored = dmn.stored \cup {y}
      BY <1>1, <2>5 DEF DaemonWrite, Reply, WiresInv
    <3>3. Single(toDaemon) => NoWrites(toDaemon')
      BY <1>1, <3>1, TailWrites DEF WiresInv
    <3>4. Fewer(toClient, toClient')
      BY <1>1, <3>2, AppendWrites DEF WiresInv
    <3> HIDE DEF a
    <3>5. ~ NoWrites(toDaemon)
      BY <3>1 DEF NoWrites
    <3>6. /\ dmn.owed = <<>> /\ Waits(w) /\ NoWrites(rd.buf) /\ NoWrites(toClient) /\ ~ Ended(w)
          /\ a.id = op[w].id /\ Single(toDaemon)
      BY <1>2, <3>1, <3>5 DEF UnderWay, AsksOne, EndsOne
    <3>7. Len(dmn'.owed) = 1 /\ ToSet(dmn'.owed) = {y}
      <4>1. <<>> \in Seq({y}) /\ y \in {y}
        OBVIOUS
      <4>2. ToSet(Append(<<>>, y)) = ToSet(<<>>) \cup {y} /\ Len(Append(<<>>,
              y)) = Len(<<>>) + 1
        BY <4>1, AppendFacts
      <4> QED
        BY <3>2, <3>6, <4>2, EmptyFacts
    <3>8. NoWrites(toClient)' /\ NoWrites(toDaemon)'
      BY <3>3, <3>4, <3>6 DEF Fewer
    <3>9. Single(toClient)' /\ Single(toDaemon)' /\ Single(rd.buf)
      BY <3>6, <3>8, NothingWritten
    <3> QED
      BY <2>1, <3>2, <3>6, <3>7, <3>8, <3>9
      DEF UnderWay, AsksOne, OwesOne, EndsOne, Ended, Waits, NoWrites
  <2>6. CASE DaemonComplete
    <3> DEFINE y == Head(dmn.owed)
    <3>1. /\ dmn.owed # <<>> /\ dmn'.owed = Tail(dmn.owed) /\ dmn'.stored = dmn.stored
          /\ UNCHANGED toDaemon /\ y \in Stored /\ y \in ToSet(dmn.owed)
          /\ Len(Tail(dmn.owed)) = Len(dmn.owed) - 1 /\ Len(dmn.owed) \in Nat \ {0}
          /\ Tail(dmn.owed) \in Seq(Stored)
      BY <1>1, <2>6, QueueFacts DEF DaemonComplete, WiresInv
    <3>2. PICK x : /\ toClient' = Append(toClient, x) /\ x.op = "write" /\ x.n = y.n
      BY <2>6 DEF DaemonComplete, Reply
    <3> HIDE DEF y
    <3>3. /\ Waits(w) /\ NoWrites(toDaemon) /\ NoWrites(rd.buf) /\ NoWrites(toClient)
          /\ ~ Ended(w) /\ Len(dmn.owed) <= 1 /\ y.id = op[w].id
      BY <1>2, <3>1 DEF UnderWay, AsksOne, OwesOne, EndsOne
    <3>4. dmn'.owed = <<>>
      <4> DEFINE r == Tail(dmn.owed)
                 l == Len(dmn.owed)
      <4>1. r \in Seq(Stored) /\ Len(r) = l - 1 /\ l \in Nat \ {0} /\ l <= 1 /\ dmn'.owed = r
        BY <3>1, <3>3
      <4> HIDE DEF r, l
      <4>2. Len(r) = 0
        BY <4>1
      <4> QED
        BY <4>1, <4>2, EmptySeq
    <3>5. Stores(w, x.n)'
      <4>1. y \in dmn.stored /\ y = [id |-> op[w].id, n |-> x.n]
        BY <1>1, <3>1, <3>2, <3>3 DEF StoredInv, Stored
      <4> QED
        BY <2>1, <3>1, <4>1 DEF Stores
    <3>6. Single(toClient)' /\ ToSet(toClient') = ToSet(toClient) \cup {x}
      BY <1>1, <3>2, <3>3, AppendWrites, PlainAppend DEF WiresInv
    <3>7. Single(toDaemon) /\ Single(rd.buf)
      BY <3>3, NothingWritten
    <3> QED
      BY <2>1, <3>1, <3>3, <3>4, <3>5, <3>6, <3>7, EmptyFacts
      DEF UnderWay, AsksOne, OwesOne, EndsOne, Ended, Waits, NoWrites
  <2> QED
    BY <1>12, <2>2, <2>3, <2>4, <2>5, <2>6 DEF DaemonStep
<1>13. CASE UNCHANGED vars
  <2>1. /\ UNCHANGED <<pc, op, toDaemon, toClient, dmn, rd>>
    BY <1>13 DEF vars, client, thread, wires
  <2> QED
    BY <1>2, <2>1, UnderWayKept, NothingWritten DEF Waits
<1> QED
  BY <1>5, <1>6, <1>7, <1>8, <1>9, <1>10, <1>11, <1>12, <1>13, NextOthers DEF Next, Others

\* Writes come from writers, and what the daemon owes comes from writes.
WritesKept ==
  /\ dmn.stored \subseteq dmn'.stored
  /\ \A m \in ToSet(toDaemon') : m.op = "write" =>
       \/ m \in ToSet(toDaemon)
       \/ \E u \in Writers : pc[u] \in Sending /\ m.id = op[u].id
  /\ \A m \in ToSet(dmn'.owed) :
       \/ m \in ToSet(dmn.owed)
       \/ \E k \in ToSet(toDaemon) : k.op = "write" /\ k.id = m.id

(* Where the writes on their way to the daemon come from.                  *)
LEMMA NextAsking == ASSUME IInv, [Next]_vars PROVE WritesKept
<1>1. CASE SockInit \/ OpenWake \/ OpenRefused \/ OpenAddFd \/ OpenPublish \/ CloseLock
           \/ CloseTrig \/ CloseDelFd
  BY <1>1
  DEF SockInit, OpenWake, OpenRefused, OpenAddFd, OpenPublish, CloseLock, ComesLate, CloseTrig,
    CloseDelFd, Go, Touch, LeaveTells, Fault, TrigClose, client, thread, wires, history,
    WritesKept
<1>2. CASE OpenSend
  <2> DEFINE x == [op |-> "open", id |-> 0, n |-> 0]
  <2>1. /\ toDaemon \in Seq(Asked) /\ UNCHANGED dmn
        /\ toDaemon' = toDaemon \/ toDaemon' = Append(toDaemon, x)
    BY <1>2 DEF OpenSend, ComesLate, Fault, Send, IInv, KindsInv, WiresInv
  <2>2. x.op = "open" /\ x.id = 0
    OBVIOUS
  <2> HIDE DEF x
  <2>3. ToSet(toDaemon') \subseteq ToSet(toDaemon) \cup {x}
    BY <2>1, PlainAppend
  <2> QED
    BY <1>2, <2>1, <2>2, <2>3 DEF WritesKept, Sending
<1>3. ASSUME NEW t \in Callers, Enter(t) PROVE WritesKept
  BY <1>3
  DEF Enter, Go, client, thread, wires, history, WritesKept
<1>4. ASSUME NEW w \in Writers, WriteNext(w) PROVE WritesKept
  BY <1>4
  DEF WriteNext, Go, Fault, client, thread, wires, history, WritesKept
<1>5. ASSUME NEW w \in Writers, WriteStore(w) PROVE WritesKept
  BY <1>5
  DEF WriteStore, Go, Fault, client, thread, wires, history, WritesKept
<1>6. ASSUME NEW w \in Writers, WriteSend(w) PROVE WritesKept
  <2> DEFINE x == [op |-> "write", id |-> op[w].id, n |-> Piece(w)]
  <2>1. /\ toDaemon \in Seq(Asked) /\ UNCHANGED dmn
        /\ toDaemon' = toDaemon \/ toDaemon' = Append(toDaemon, x)
    BY <1>6 DEF WriteSend, Fault, Send, IInv, KindsInv, WiresInv
  <2>2. x.op = "write" /\ x.id = op[w].id
    OBVIOUS
  <2> HIDE DEF x
  <2>3. ToSet(toDaemon') \subseteq ToSet(toDaemon) \cup {x}
    BY <2>1, PlainAppend
  <2> QED
    BY <1>6, <2>1, <2>2, <2>3 DEF WriteSend, WritesKept, Sending
<1>7. ASSUME NEW w \in Writers, WriteWake(w) PROVE WritesKept
  BY <1>7
  DEF WriteWake, Go, Touch, WriteEnd, Sleep, Leave, LeaveTells, client, thread, wires, history,
    WritesKept
<1>8. ASSUME NEW w \in Writers, WriteTimeout(w) PROVE WritesKept
  BY <1>8
  DEF WriteTimeout, Go, Touch, WriteEnd, Leave, LeaveTells, client, thread, wires, history,
    WritesKept
<1>9. ASSUME NEW r \in Readers, Read(r) \/ ReadTimeout(r) PROVE WritesKept
  BY <1>9
  DEF Read, ReadTimeout, Go, Fault, Touch, Sleep, Leave, LeaveTells, client, thread, wires,
    history, WritesKept
<1>10. ASSUME NEW q \in Queriers, QuerySend(q) PROVE WritesKept
  <2> DEFINE x == [op |-> "query", id |-> 0, n |-> 0]
  <2>1. /\ toDaemon \in Seq(Asked) /\ UNCHANGED dmn
        /\ toDaemon' = toDaemon \/ toDaemon' = Append(toDaemon, x)
    BY <1>10 DEF QuerySend, Fault, Send, IInv, KindsInv, WiresInv
  <2>2. x.op = "query" /\ x.id = 0
    OBVIOUS
  <2> HIDE DEF x
  <2>3. ToSet(toDaemon') \subseteq ToSet(toDaemon) \cup {x}
    BY <2>1, PlainAppend
  <2> QED
    BY <1>10, <2>1, <2>2, <2>3 DEF WritesKept, Sending
<1>11. ASSUME NEW q \in Queriers, QueryWake(q) PROVE WritesKept
  BY <1>11
  DEF QueryWake, Go, Touch, Sleep, Leave, LeaveTells, client, thread, wires, history,
    WritesKept
<1>12. CASE Discard
  BY <1>12
  DEF Discard, client, thread, wires, history, WritesKept
<1>13. ASSUME NEW t \in Threads, Spurious(t) PROVE WritesKept
  BY <1>13
  DEF Spurious, Go, client, thread, wires, history, WritesKept
<1>14. CASE RdCheck
  BY <1>14
  DEF RdCheck, client, thread, wires, history, WritesKept
<1>15. CASE RdRecv
  BY <1>15
  DEF RdRecv, client, thread, wires, history, WritesKept
<1>16. CASE RdNotFound
  BY <1>16
  DEF RdNotFound, client, thread, wires, history, WritesKept
<1>17. CASE RdProc
  BY <1>17
  DEF RdProc, RpcCb, client, thread, wires, history, WritesKept
<1>18. CASE RdEnd
  BY <1>18
  DEF RdEnd, client, thread, wires, history, WritesKept
<1>19. CASE RdDeinitWait
  BY <1>19
  DEF RdDeinitWait, Woken, client, thread, wires, history, WritesKept
<1>20. CASE RdListEmpty \/ RdFree
  BY <1>20
  DEF RdListEmpty, RdFree, client, thread, wires, history, WritesKept
<1>21. CASE DaemonOpen
  <2>1. toDaemon \in Seq(Asked) /\ toDaemon # <<>> /\ toDaemon' = Tail(toDaemon)
    BY <1>21 DEF DaemonOpen, Request, IInv, KindsInv, WiresInv
  <2>2. ToSet(toDaemon') \subseteq ToSet(toDaemon)
    BY <2>1, QueueFacts
  <2>3. dmn'.owed = dmn.owed /\ dmn'.stored = dmn.stored
    BY <1>21 DEF DaemonOpen, IInv, KindsInv, WiresInv
  <2> QED
    BY <2>2, <2>3 DEF WritesKept
<1>22. CASE DaemonWrite
  <2>1. /\ toDaemon \in Seq(Asked) /\ toDaemon # <<>> /\ toDaemon' = Tail(toDaemon)
        /\ Head(toDaemon).op = "write" /\ dmn.owed \in Seq(Stored)
    BY <1>22 DEF DaemonWrite, Request, IInv, KindsInv, WiresInv
  <2>2. ToSet(toDaemon') \subseteq ToSet(toDaemon) /\ Head(toDaemon) \in ToSet(toDaemon)
    BY <2>1, QueueFacts
  <2>3. PICK y : /\ dmn'.owed = Append(dmn.owed, y) /\ y.id = Head(toDaemon).id
                 /\ dmn'.stored = dmn.stored \cup {y}
    BY <1>22 DEF DaemonWrite, IInv, KindsInv, WiresInv
  <2>4. ToSet(dmn'.owed) = ToSet(dmn.owed) \cup {y}
    BY <2>1, <2>3, PlainAppend
  <2> QED
    BY <2>1, <2>2, <2>3, <2>4 DEF WritesKept
<1>23. CASE DaemonComplete
  <2>1. /\ dmn.owed \in Seq(Stored) /\ dmn.owed # <<>> /\ dmn'.owed = Tail(dmn.owed)
        /\ dmn'.stored = dmn.stored /\ UNCHANGED toDaemon
    BY <1>23 DEF DaemonComplete, IInv, KindsInv, WiresInv
  <2>2. ToSet(dmn'.owed) \subseteq ToSet(dmn.owed)
    BY <2>1, QueueFacts
  <2> QED
    BY <2>1, <2>2 DEF WritesKept
<1>24. CASE DaemonQuery
  <2>1. toDaemon \in Seq(Asked) /\ toDaemon # <<>> /\ toDaemon' = Tail(toDaemon)
    BY <1>24 DEF DaemonQuery, Request, IInv, KindsInv, WiresInv
  <2>2. ToSet(toDaemon') \subseteq ToSet(toDaemon)
    BY <2>1, QueueFacts
  <2>3. dmn'.owed = dmn.owed /\ dmn'.stored = dmn.stored
    BY <1>24 DEF DaemonQuery, IInv, KindsInv, WiresInv
  <2> QED
    BY <2>2, <2>3 DEF WritesKept
<1>25. CASE DaemonPush
  <2>1. dmn'.owed = dmn.owed /\ dmn'.stored = dmn.stored /\ UNCHANGED toDaemon
    BY <1>25 DEF DaemonPush, IInv, KindsInv, WiresInv
  <2> QED
    BY <2>1 DEF WritesKept
<1>26. CASE HangUp
  <2>1. dmn'.owed = dmn.owed /\ dmn'.stored = dmn.stored /\ UNCHANGED toDaemon
    BY <1>26 DEF HangUp, IInv, KindsInv, WiresInv
  <2> QED
    BY <2>1 DEF WritesKept
<1>27. CASE UNCHANGED vars
  BY <1>27
  DEF vars, client, thread, wires, history, WritesKept
<1> QED
  BY <1>1, <1>2, <1>3, <1>4, <1>5, <1>6, <1>7, <1>8, <1>9, <1>10, <1>11, <1>12, <1>13, <1>14,
    <1>15, <1>16, <1>17, <1>18, <1>19, <1>20, <1>21, <1>22, <1>23, <1>24, <1>25, <1>26, <1>27
  DEF Next, MainStep, WriteStep, QueryStep, RdStep, DaemonStep

(* A message that ended with its own result stays settled.                 *)
LEMMA NextSettled == ASSUME IInv, [Next]_vars PROVE SettledInv'
<1> SUFFICES ASSUME NEW w \in Writers, Alone(w)', NEW i \in DOMAIN log'[w],
                    log'[w][i].how = "done", InStep(w, i)'
             PROVE  Settled(log[w][i])'
  BY DEF SettledInv
<1>1. /\ KindsInv /\ w \in Threads /\ op[w] \in Op /\ log[w] \in Seq(Entry)
      /\ pc \in [Threads -> Places] /\ Writers \subseteq Callers /\ Main \notin Writers
  BY ThreadFacts DEF IInv, KindsInv, CallsInv, HistoryInv
<1>2. /\ Alone(w) /\ LogKept /\ WritesKept /\ Numbered(w) /\ (sock.exit_flg => sock'.exit_flg)
  <2>1. Alone(w) /\ LogKept /\ (sock.exit_flg => sock'.exit_flg)
    BY NextGrows DEF Grows, Alone
  <2> QED
    BY <2>1, NextAsking DEF IInv, NumbersInv
<1>3. CASE i \in DOMAIN log[w]
  <2>0. PICK e : e = log[w][i]
    OBVIOUS
  <2>1. log'[w][i] = e /\ e.how = "done"
    BY <1>2, <1>3, <2>0 DEF LogKept
  <2>2. InStep(w, i)
    <3>1. ASSUME NEW j \in 1 .. i - 1 PROVE log[w][j].how # "timeout"
      <4>1. j \in DOMAIN log[w]
        <5>1. DOMAIN log[w] = 1 .. Len(log[w]) /\ Len(log[w]) \in Nat
          BY <1>1
        <5> QED
          BY <1>3, <5>1
      <4> QED
        BY <1>2, <4>1 DEF LogKept, InStep
    <3> QED
      BY <3>1 DEF InStep
  <2>3. Settled(e)
    BY <1>2, <1>3, <2>0, <2>1, <2>2 DEF IInv, SettledInv
  <2>4. ASSUME NEW u \in Writers, pc[u] \in Sending PROVE e.id < op[u].id
    <3>1. u = w
      BY <1>2, <2>4 DEF Numbered, Sending
    <3> QED
      BY <1>2, <1>3, <2>0, <2>4, <3>1 DEF Numbered
  <2>5. [id |-> e.id, n |-> e.n] \in dmn'.stored
    BY <1>2, <2>3 DEF Settled, WritesKept
  <2>6. ASSUME NEW m \in ToSet(toDaemon'), m.op = "write" PROVE e.id < m.id
    BY <1>2, <2>3, <2>4, <2>6 DEF Settled, WritesKept
  <2>7. ASSUME NEW m \in ToSet(dmn'.owed) PROVE e.id < m.id
    BY <1>2, <2>3, <2>7 DEF Settled, WritesKept
  <2>8. Settled(e)'
    BY <2>5, <2>6, <2>7 DEF Settled
  <2> QED
    BY <2>1, <2>8
<1>4. CASE i \notin DOMAIN log[w]
  <2>1. PICK n \in Int, how \in {"exit", "done", "timeout"} :
          /\ WriteEnd(w, n, how) /\ EndsWith(w, n, how)
          /\ WriteSend(w) \/ WriteWake(w) \/ WriteTimeout(w)
    <3>1. log'[w] # log[w]
      BY <1>4
    <3>2. PICK u \in Writers : WriteStep(u) \/ WriteTimeout(u)
      BY <3>1, NextOthers DEF Others, WritersKept, Enter, history
    <3>3. u = w
      BY <1>2, <3>2
      DEF Numbered, WriteStep, WriteNext, WriteStore, WriteSend, WriteWake, WriteTimeout
    <3>4. WriteSend(w) \/ WriteWake(w) \/ WriteTimeout(w)
      BY <3>1, <3>2, <3>3 DEF WriteStep, WriteNext, WriteStore, history
    <3>5. log' # log
      BY <3>1
    <3>6. KindsInv
      BY <1>1
    <3>7. \E n \in Int, how \in {"exit", "done", "timeout"} :
            WriteEnd(w, n, how) /\ EndsWith(w, n, how)
      BY <3>4, <3>5, <3>6, WriteEnds
    <3> QED
      BY <3>4, <3>7
  <2>2. KindsInv /\ WriteEnd(w, n, how)
    BY <1>1, <2>1
  <2>3. /\ Len(log[w]) \in Nat /\ DOMAIN log[w] = 1 .. Len(log[w])
        /\ DOMAIN log'[w] = 1 .. Len(log[w]) + 1
        /\ log'[w][Len(log[w]) + 1] = [id |-> op[w].id, n |-> n, how |-> how]
    BY <2>2, LogFacts
  <2>4. i = Len(log[w]) + 1
    BY <1>4, <2>3
  <2>5. how = "done" /\ log'[w][i].id = op[w].id /\ log'[w][i].n = n
    BY <2>3, <2>4
  <2>6. pc[w] = "woken" /\ n = op[w].sta /\ n # 0 /\ ~ sock.exit_flg
    BY <2>1, <2>5 DEF EndsWith
  <2>7. NoTimeout(w)
    <3>1. ASSUME NEW j \in DOMAIN log[w] PROVE log[w][j].how # "timeout"
      <4>1. j \in 1 .. i - 1
        BY <2>3, <2>4
      <4>2. log'[w][j] = log[w][j]
        BY <1>2 DEF LogKept
      <4> QED
        BY <4>1, <4>2 DEF InStep
    <3> QED
      BY <3>1 DEF NoTimeout
  <2>8. UnderWay(w) /\ Ended(w)
    BY <1>2, <2>6, <2>7 DEF IInv, UnderWayInv, Ended, Waits
  <2>9. NoWrites(toDaemon) /\ dmn.owed = <<>> /\ [id |-> op[w].id, n |-> n] \in dmn.stored
    BY <2>6, <2>8 DEF UnderWay, Stores
  <2>10. UNCHANGED <<toDaemon, dmn>>
    BY <2>1, <2>6 DEF WriteSend, WriteWake, WriteTimeout, wires
  <2> QED
    BY <2>5, <2>9, <2>10, EmptyFacts DEF Settled, NoWrites
<1> QED
  BY <1>3, <1>4

\* No received byte moves.
Still ==
  /\ UNCHANGED <<got, leaked, toClient>> /\ sock'.rx_rb = sock.rx_rb /\ rd'.buf = rd.buf
  /\ dmn'.sent = dmn.sent /\ (hdl'.rpcfd => hdl.rpcfd)
Moves == \/ Still \/ \E r \in Readers : Read(r)
         \/ Discard \/ RdRecv \/ RdNotFound \/ RdProc
         \/ DaemonStep \/ DaemonPush

(* Which steps move received bytes.                                        *)
LEMMA NextMoves == ASSUME IInv, [Next]_vars PROVE Moves
<1>1. CASE SockInit
  BY <1>1
  DEF SockInit, Go, client, thread, wires, history, Still, Moves, IInv, KindsInv, CallsInv,
    SessionInv, Session, ThreadInv, Handle, WiresInv
<1>2. CASE OpenSend
  BY <1>2
  DEF OpenSend, ComesLate, Go, Fault, Touch, Send, client, thread, wires, history, Still,
    Moves, IInv,
    KindsInv, CallsInv, SessionInv, Session, ThreadInv, Handle, WiresInv
<1>3. CASE OpenWake
  BY <1>3
  DEF OpenWake, Fault, Go, Touch, LeaveTells, client, thread, wires, history, Still, Moves,
    IInv,
    KindsInv, CallsInv, SessionInv, Session, ThreadInv, Handle, WiresInv
<1>4. CASE OpenRefused
  BY <1>4
  DEF OpenRefused, Go, Fault, TrigClose, client, thread, wires, history, Still, Moves, IInv,
    KindsInv, CallsInv, SessionInv, Session, ThreadInv, Handle, WiresInv
<1>5. CASE OpenAddFd
  BY <1>5
  DEF OpenAddFd, Go, client, thread, wires, history, Still, Moves, IInv, KindsInv, CallsInv,
    SessionInv, Session, ThreadInv, Handle, WiresInv
<1>6. CASE OpenPublish
  <2>1. sock \in Session /\ sock.rx_rb = <<>>
    BY <1>6 DEF OpenPublish, IInv, KindsInv, SessionInv, CalmInv, Opening
  <2>2. sock'.rx_rb = sock.rx_rb
    BY <1>6, <2>1 DEF OpenPublish, Fault, Session
  <2> QED
    BY <1>6, <2>2 DEF OpenPublish, Moves, Still, thread, wires, history
<1>7. CASE CloseLock
  BY <1>7
  DEF CloseLock, ComesLate, Go, Fault, Touch, client, thread, wires, history, Still, Moves,
    IInv,
    KindsInv, CallsInv, SessionInv, Session, ThreadInv, Handle, WiresInv
<1>8. CASE CloseTrig
  BY <1>8
  DEF CloseTrig, Fault, Go, TrigClose, client, thread, wires, history, Still, Moves, IInv,
    KindsInv,
    CallsInv, SessionInv, Session, ThreadInv, Handle, WiresInv
<1>9. CASE CloseDelFd
  BY <1>9
  DEF CloseDelFd, Go, client, thread, wires, history, Still, Moves, IInv, KindsInv, CallsInv,
    SessionInv, Session, ThreadInv, Handle, WiresInv
<1>10. ASSUME NEW t \in Callers, Enter(t) PROVE Moves
  BY <1>10
  DEF Enter, Go, client, thread, wires, history, Still, Moves, IInv, KindsInv, CallsInv,
    SessionInv, Session, ThreadInv, Handle, WiresInv
<1>11. ASSUME NEW w \in Writers, WriteNext(w) PROVE Moves
  BY <1>11
  DEF WriteNext, Go, Fault, client, thread, wires, history, Still, Moves, IInv, KindsInv,
    CallsInv, SessionInv, Session, ThreadInv, Handle, WiresInv
<1>12. ASSUME NEW w \in Writers, WriteStore(w) PROVE Moves
  BY <1>12
  DEF WriteStore, Go, Fault, client, thread, wires, history, Still, Moves, IInv, KindsInv,
    CallsInv, SessionInv, Session, ThreadInv, Handle, WiresInv
<1>13. ASSUME NEW w \in Writers, WriteSend(w) PROVE Moves
  <2>1. sock \in Session /\ ThreadInv
    BY DEF IInv, KindsInv, SessionInv
  <2>2. sock'.rx_rb = sock.rx_rb /\ rd'.buf = rd.buf
    BY <1>13, <2>1 DEF WriteSend, Fault, Sleep, WriteEnd, Leave, LeaveTells, Session, ThreadInv
  <2>3. UNCHANGED <<got, leaked, toClient, hdl, dmn>>
    BY <1>13 DEF WriteSend, wires
  <2> QED
    BY <2>2, <2>3 DEF Moves, Still
<1>14. ASSUME NEW w \in Writers, WriteWake(w) PROVE Moves
  <2>1. sock \in Session /\ ThreadInv
    BY DEF IInv, KindsInv, SessionInv
  <2>2. sock'.rx_rb = sock.rx_rb /\ rd'.buf = rd.buf
    BY <1>14, <2>1 DEF WriteWake, Fault, Sleep, WriteEnd, Leave, LeaveTells, Session, ThreadInv
  <2>3. UNCHANGED <<got, leaked, toClient, hdl, dmn>>
    BY <1>14 DEF WriteWake, wires
  <2> QED
    BY <2>2, <2>3 DEF Moves, Still
<1>15. ASSUME NEW w \in Writers, WriteTimeout(w) PROVE Moves
  <2>1. sock \in Session /\ ThreadInv
    BY DEF IInv, KindsInv, SessionInv
  <2>2. sock'.rx_rb = sock.rx_rb /\ rd'.buf = rd.buf
    BY <1>15, <2>1 DEF WriteTimeout, Fault, Sleep, WriteEnd, Leave, LeaveTells, Session,
      ThreadInv
  <2>3. UNCHANGED <<got, leaked, toClient, hdl, dmn>>
    BY <1>15 DEF WriteTimeout, wires
  <2> QED
    BY <2>2, <2>3 DEF Moves, Still
<1>16. ASSUME NEW r \in Readers, Read(r) PROVE Moves
  BY <1>16 DEF Moves
<1>17. ASSUME NEW r \in Readers, ReadTimeout(r) PROVE Moves
  BY <1>17
  DEF ReadTimeout, Go, Touch, Leave, LeaveTells, client, thread, wires, history, Still, Moves,
    IInv, KindsInv, CallsInv, SessionInv, Session, ThreadInv, Handle, WiresInv
<1>18. ASSUME NEW q \in Queriers, QuerySend(q) PROVE Moves
  BY <1>18
  DEF QuerySend, Go, Fault, Touch, Send, Sleep, Leave, LeaveTells, client, thread, wires,
    history, Still, Moves, IInv, KindsInv, CallsInv, SessionInv, Session, ThreadInv, Handle,
    WiresInv
<1>19. ASSUME NEW q \in Queriers, QueryWake(q) PROVE Moves
  BY <1>19
  DEF QueryWake, Go, Touch, Sleep, Leave, LeaveTells, client, thread, wires, history, Still,
    Moves, IInv, KindsInv, CallsInv, SessionInv, Session, ThreadInv, Handle, WiresInv
<1>20. CASE Discard
  BY <1>20 DEF Moves
<1>21. ASSUME NEW t \in Threads, Spurious(t) PROVE Moves
  BY <1>21
  DEF Spurious, Go, client, thread, wires, history, Still, Moves, IInv, KindsInv, CallsInv,
    SessionInv, Session, ThreadInv, Handle, WiresInv
<1>22. CASE RdCheck
  BY <1>22
  DEF RdCheck, client, thread, wires, history, Still, Moves, IInv, KindsInv, CallsInv,
    SessionInv, Session, ThreadInv, Handle, WiresInv
<1>23. CASE RdRecv
  BY <1>23 DEF Moves
<1>24. CASE RdNotFound
  BY <1>24 DEF Moves
<1>25. CASE RdProc
  BY <1>25 DEF Moves
<1>26. CASE RdEnd
  <2>1. sock \in Session /\ ThreadInv
    BY DEF IInv, KindsInv, SessionInv
  <2>2. sock'.rx_rb = sock.rx_rb /\ rd'.buf = rd.buf /\ ~ hdl'.rpcfd
    BY <1>26, <2>1 DEF RdEnd, Session, ThreadInv, Handle
  <2> QED
    BY <1>26, <2>2 DEF RdEnd, wires, history, Moves, Still
<1>27. CASE RdDeinitWait
  BY <1>27
  DEF RdDeinitWait, Woken, client, thread, wires, history, Still, Moves, IInv, KindsInv,
    CallsInv, SessionInv, Session, ThreadInv, Handle, WiresInv
<1>28. CASE RdListEmpty \/ RdFree
  BY <1>28
  DEF RdListEmpty, RdFree, client, thread, wires, history, Still, Moves, IInv, KindsInv,
    CallsInv,
    SessionInv, Session, ThreadInv, Handle, WiresInv
<1>29. CASE DaemonOpen
  BY <1>29 DEF Moves, DaemonStep
<1>30. CASE DaemonWrite
  BY <1>30 DEF Moves, DaemonStep
<1>31. CASE DaemonComplete
  BY <1>31 DEF Moves, DaemonStep
<1>32. CASE DaemonQuery
  BY <1>32 DEF Moves, DaemonStep
<1>33. CASE DaemonPush
  BY <1>33 DEF Moves
<1>34. CASE HangUp
  BY <1>34
  DEF HangUp, client, thread, wires, history, Still, Moves, IInv, KindsInv, CallsInv,
    SessionInv, Session, ThreadInv, Handle, WiresInv
<1>35. CASE UNCHANGED vars
  BY <1>35
  DEF vars, client, thread, wires, history, Still, Moves, IInv, KindsInv, CallsInv, SessionInv,
    Session, ThreadInv, Handle, WiresInv
<1> QED
  BY <1>1, <1>2, <1>3, <1>4, <1>5, <1>6, <1>7, <1>8, <1>9, <1>10, <1>11, <1>12, <1>13, <1>14,
    <1>15, <1>16, <1>17, <1>18, <1>19, <1>20, <1>21, <1>22, <1>23, <1>24, <1>25, <1>26, <1>27,
    <1>28, <1>29, <1>30, <1>31, <1>32, <1>33, <1>34, <1>35
  DEF Next, MainStep, WriteStep, QueryStep, RdStep, DaemonStep

(* Received bytes stay in order, without gaps.                             *)
LEMMA NextBytes == ASSUME IInv, [Next]_vars PROVE BytesInv'
<1> DEFINE rb == sock.rx_rb
<1>1. /\ KindsInv /\ BytesInv /\ got \in Seq(Nat) /\ rb \in Seq(Nat) /\ leaked \in SUBSET Nat
      /\ rd.buf \in Seq(Answer) /\ toClient \in Seq(Answer) /\ dmn.sent \in Nat
      /\ hdl \in Handle /\ Len(rb) \in Nat
  BY DEF IInv, KindsInv, SessionInv, Session, ThreadInv, WiresInv, HistoryInv
<1>2. /\ Seen = ToSet(got) \cup ToSet(rb) \cup leaked /\ Seen \in SUBSET Nat
      /\ Bytes(rd.buf) \in SUBSET Nat /\ Bytes(toClient) \in SUBSET Nat
  <2>1. ToSet(got \o rb) = ToSet(got) \cup ToSet(rb)
    BY ONLY <1>1, ConcatFacts
  <2>2. ToSet(got) \subseteq Nat /\ ToSet(rb) \subseteq Nat
    BY ONLY <1>1, Elements
  <2> QED
    BY <1>1, <2>1, <2>2, BytesAreNumbers DEF Seen
<1>3. CASE Still
  <2>1. Seen' = Seen
    BY <1>3 DEF Still, Seen
  <2> QED
    BY <1>1, <1>3, <2>1 DEF BytesInv, Still
<1>4. ASSUME NEW r \in Readers, Read(r), ~ Still PROVE BytesInv'
  <2> DEFINE n == Least(ReadLen, Len(rb))
  <2>1. n \in 0 .. Len(rb)
    BY <1>1, SizesAssumption DEF Least
  <2>2. UNCHANGED <<leaked, toClient, dmn, hdl>>
    BY <1>4 DEF Read, wires
  <2>3. /\ got' = got \o SubSeq(rb, 1, n) /\ sock'.rx_rb = SubSeq(rb, n + 1, Len(rb))
        /\ rd'.buf = rd.buf
    <3>1. CASE got' = got \o SubSeq(rb, 1, n) /\ UNCHANGED rd
               /\ sock' = [sock EXCEPT !.head = sock.head \ {r},
                                       !.rx_rb = SubSeq(rb, n + 1, Len(rb))]
      <4> DEFINE q == SubSeq(rb, n + 1, Len(rb))
      <4>1. sock' = [sock EXCEPT !.head = sock.head \ {r}, !.rx_rb = q] /\ sock \in Session
        BY <3>1 DEF IInv, KindsInv, SessionInv
      <4> HIDE DEF q
      <4>2. sock'.rx_rb = q
        BY <4>1 DEF Session
      <4> QED
        BY <3>1, <4>2 DEF q
    <3>2. CASE UNCHANGED got /\ (Fault(r) \/ Leave(r) \/ Sleep(r))
      <4>1. sock \in Session /\ ThreadInv
        BY DEF IInv, KindsInv, SessionInv
      <4>2. sock'.rx_rb = sock.rx_rb /\ rd'.buf = rd.buf
        BY <1>4, <3>2, <4>1
        DEF Read, Fault, Leave, LeaveTells, Sleep, Session, ThreadInv
      <4> QED
        BY <1>4, <2>2, <3>2, <4>2 DEF Still
    <3> QED
      BY <1>4, <3>1, <3>2 DEF Read
  <2> HIDE DEF n
  <2> DEFINE a == SubSeq(rb, 1, n)
             b == SubSeq(rb, n + 1, Len(rb))
  <2>4. a \in Seq(Nat) /\ b \in Seq(Nat) /\ rb = a \o b
    BY <1>1, <2>1, PartFacts, SplitFacts
  <2>5. got' = got \o a /\ sock'.rx_rb = b
    BY <2>3
  <2> HIDE DEF a, b
  <2>6. got' \o sock'.rx_rb = got \o rb
    <3>1. (got \o a) \o b = got \o (a \o b)
      BY ONLY <1>1, <2>4, ConcatRegroup
    <3> QED
      BY <2>4, <2>5, <3>1
  <2>7. Seen' = Seen
    BY <2>2, <2>6 DEF Seen
  <2> QED
    BY <1>1, <2>2, <2>3, <2>6, <2>7 DEF BytesInv
<1>5. CASE Discard
  <2>1. /\ UNCHANGED <<got, toClient, dmn, hdl, rd>> /\ sock'.rx_rb = <<>>
        /\ leaked' = leaked \cup ToSet(rb)
    BY <1>5 DEF Discard, thread, wires, IInv, KindsInv, SessionInv, Session
  <2>2. got' \o sock'.rx_rb = got
    <3>1. got \o <<>> = got
      BY <1>1
    <3> QED
      BY <2>1, <3>1
  <2>3. Increasing(got)
    <3>1. Increasing(got \o rb)
      BY <1>1 DEF BytesInv
    <3> QED
      BY ONLY <1>1, <3>1, ConcatFacts
  <2>4. Seen' = Seen
    BY <1>2, <2>1, <2>2 DEF Seen
  <2> QED
    BY <1>1, <2>1, <2>2, <2>3, <2>4 DEF BytesInv
<1>6. CASE RdRecv
  <2>1. UNCHANGED <<got, sock, leaked, hdl, dmn>>
    BY <1>6 DEF RdRecv, client, history
  <2>2. Seen' = Seen
    BY <2>1 DEF Seen
  <2>3. CASE hdl.rpcfd /\ rd' = [pc |-> "proc", buf |-> toClient] /\ toClient' = <<>>
    <3>1. rd'.buf = toClient /\ rd.buf = <<>> /\ Bytes(rd.buf) = {}
      BY <1>1, <1>6, <2>3, NoBytes DEF KindsInv, ThreadInv, RdRecv
    <3>2. /\ InOrder(toClient) /\ Before(Seen, Bytes(toClient))
          /\ Seen \cup Bytes(toClient) = 1 .. dmn.sent
      BY <1>1, <2>3, <3>1 DEF BytesInv
    <3>3. FromOne(Seen \cup Bytes(toClient))
      BY <1>1, <3>2 DEF FromOne
    <3>4. InOrder(toClient)' /\ Bytes(toClient)' = {}
      BY <2>3, NoBytes
    <3>5. Before(Seen \cup Bytes(rd.buf), Bytes(toClient))'
      BY <3>4, NoBytes
    <3> QED
      BY <1>1, <2>1, <2>2, <3>1, <3>2, <3>3, <3>4, <3>5 DEF BytesInv
  <2>4. CASE UNCHANGED toClient /\ rd' = [rd EXCEPT !.pc = "end"]
    <3>1. rd'.buf = rd.buf
      BY <1>1, <2>4 DEF KindsInv, ThreadInv
    <3> QED
      BY <1>3, <2>1, <2>4, <3>1 DEF Still
  <2> QED
    BY <1>6, <2>3, <2>4 DEF RdRecv
<1>7. CASE RdNotFound
  <2>1. /\ UNCHANGED <<got, sock, leaked>> /\ ~ hdl'.rpcfd /\ rd'.buf = <<>>
    BY <1>1, <1>7 DEF RdNotFound, client, history, Handle
  <2>2. Seen' = Seen
    BY <2>1 DEF Seen
  <2>3. FromOne(Seen)
    <3>1. Before(Seen, Bytes(rd.buf)) /\ FromOne(Seen \cup Bytes(rd.buf))
      BY <1>1 DEF BytesInv
    <3> QED
      BY ONLY <1>2, <3>1, FirstPart
  <2>4. InOrder(rd.buf)' /\ Bytes(rd.buf)' = {} /\ Before(Seen, Bytes(rd.buf))'
    BY <2>1, NoBytes
  <2> QED
    BY <1>1, <2>1, <2>2, <2>3, <2>4 DEF BytesInv
<1>8. CASE RdProc
  <2> DEFINE m == Head(rd.buf)
             d == m.data
  <2>1. /\ UNCHANGED <<got, hdl, toClient, dmn>> /\ rd.buf # <<>> /\ rd'.buf = Tail(rd.buf)
        /\ m \in Answer
    BY <1>1, <1>8, ProcFacts DEF RdProc, wires
  <2>2. d \in Seq(Nat)
    <3> HIDE DEF m
    <3> QED
      BY <2>1 DEF Answer
  <2>3. PICK n \in 0 .. Len(d) :
          /\ sock' = [sock EXCEPT !.rx_rb = rb \o SubSeq(d, 1, n)]
          /\ leaked' = leaked \cup ToSet(SubSeq(d, n + 1, Len(d)))
    <3>1. KindsInv /\ RdProc
      BY <1>1, <1>8
    <3> QED
      BY <3>1, ProcFacts
  <2>4. /\ Bytes(rd.buf) = ToSet(d) \cup Bytes(rd'.buf)
        /\ InOrder(rd'.buf) /\ Increasing(d) /\ Before(ToSet(d), Bytes(rd'.buf))
    <3>1. InOrder(rd.buf) /\ rd.buf \in Seq(Answer) /\ rd.buf # <<>>
      BY <1>1, <2>1 DEF BytesInv
    <3> QED
      BY <2>1, <3>1, BytesOfTail
  <2> DEFINE a == SubSeq(d, 1, n)
             b == SubSeq(d, n + 1, Len(d))
  <2> HIDE DEF m, d
  <2>5. a \in Seq(Nat) /\ b \in Seq(Nat) /\ ToSet(d) = ToSet(a) \cup ToSet(b) /\ d = a \o b
    BY ONLY <2>2, n \in 0 .. Len(d), PartFacts, SplitFacts
  <2>6. sock' = [sock EXCEPT !.rx_rb = rb \o a] /\ leaked' = leaked \cup ToSet(b)
    BY <2>3
  <2> HIDE DEF a, b
  <2>7. sock'.rx_rb = rb \o a
    BY <2>6 DEF IInv, KindsInv, SessionInv, Session
  <2>8. Increasing(a)
    BY ONLY <2>4, <2>5, ConcatFacts
  <2> DEFINE c == got \o rb
  <2>9. c \in Seq(Nat) /\ Increasing(c) /\ ToSet(c) \subseteq Seen
    BY <1>1, ConcatFacts DEF BytesInv, Seen
  <2>10. got' \o sock'.rx_rb = c \o a
    <3>1. got' = got
      BY <2>1
    <3> QED
      <4>1. (got \o rb) \o a = got \o (rb \o a)
        BY ONLY <1>1, <2>5, ConcatRegroup
      <4> QED
        BY <2>7, <3>1, <4>1
  <2>11. Seen' = Seen \cup ToSet(d)
    <3>1. ToSet(c \o a) = ToSet(c) \cup ToSet(a)
      BY ONLY <2>5, <2>9, ConcatFacts
    <3>2. Seen = ToSet(c) \cup leaked
      BY DEF Seen
    <3> QED
      BY <2>5, <2>6, <2>10, <3>1, <3>2 DEF Seen
  <2> HIDE DEF c
  <2>12. Increasing(c \o a)
    <3>1. Before(ToSet(c), ToSet(a))
      BY <1>1, <2>4, <2>5, <2>9 DEF BytesInv, Before
    <3> QED
      BY ONLY <2>5, <2>8, <2>9, <3>1, ConcatFacts
  <2>13. Before(Seen', Bytes(rd'.buf))
    BY <1>1, <2>4, <2>11 DEF BytesInv, Before
  <2>14. Seen' \cup Bytes(rd'.buf) = Seen \cup Bytes(rd.buf)
    BY <2>4, <2>11
  <2> QED
    BY <1>1, <2>1, <2>4, <2>10, <2>12, <2>13, <2>14 DEF BytesInv
<1>9. ASSUME UNCHANGED <<got, sock, leaked, rd, hdl>>, NEW x \in Answer,
             hdl.rpcfd, toClient' = Append(toClient, x), dmn'.sent \in Nat,
             dmn.sent <= dmn'.sent, Increasing(x.data),
             ToSet(x.data) = dmn.sent + 1 .. dmn'.sent
      PROVE  BytesInv'
  <2>1. Seen' = Seen
    BY <1>9 DEF Seen
  <2>2. /\ InOrder(toClient) /\ Before(Seen \cup Bytes(rd.buf), Bytes(toClient))
        /\ Seen \cup Bytes(rd.buf) \cup Bytes(toClient) = 1 .. dmn.sent
    BY <1>1, <1>9 DEF BytesInv
  <2>3. /\ Before(Bytes(toClient), ToSet(x.data))
        /\ Before(Seen \cup Bytes(rd.buf), ToSet(x.data))
    <3>1. \A i \in 1 .. dmn.sent, j \in dmn.sent + 1 .. dmn'.sent : i < j
      BY <1>1, <1>9
    <3> QED
      BY <1>9, <2>2, <3>1 DEF Before
  <2>4. Bytes(toClient') = Bytes(toClient) \cup ToSet(x.data) /\ InOrder(toClient')
    BY <1>1, <1>9, <2>2, <2>3, BytesOfAppend
  <2>5. Before(Seen \cup Bytes(rd.buf), Bytes(toClient'))
    BY <2>2, <2>3, <2>4 DEF Before
  <2>6. Seen \cup Bytes(rd.buf) \cup Bytes(toClient') = 1 .. dmn'.sent
    <3>1. 1 .. dmn'.sent = (1 .. dmn.sent) \cup (dmn.sent + 1 .. dmn'.sent)
      BY <1>1, <1>9
    <3> QED
      BY <1>9, <2>2, <2>4, <3>1
  <2> QED
    BY <1>1, <1>9, <2>1, <2>4, <2>5, <2>6 DEF BytesInv
<1>10. CASE DaemonStep
  <2>1. PICK x : toClient' = Append(toClient, x) /\ x \in Answer /\ x.data = <<>>
    <3>1. PICK x : toClient' = Append(toClient, x) /\ x.data = <<>>
      <4>1. ASSUME NEW o, NEW id, NEW n, Reply(o, id, n, <<>>)
            PROVE  \E x : toClient' = Append(toClient, x) /\ x.data = <<>>
        BY <4>1 DEF Reply
      <4> QED
        BY <1>10, <4>1 DEF DaemonStep, DaemonOpen, DaemonWrite, DaemonComplete, DaemonQuery
    <3>2. x \in Answer
      <4>1. toClient' \in Seq(Answer)
        BY NextWires DEF WiresInv
      <4>2. Append(toClient, x) \in Seq(Answer)
        BY <3>1, <4>1
      <4>3. toClient \in Seq(Answer)
        BY <1>1
      <4>4. Len(toClient) + 1 \in DOMAIN Append(toClient, x)
            /\ Append(toClient, x)[Len(toClient) + 1] = x
        BY <4>3
      <4> QED
        BY <4>2, <4>4, Elements
    <3> QED
      BY <3>1, <3>2
  <2>2. UNCHANGED <<got, sock, leaked, rd, hdl>> /\ hdl.rpcfd /\ dmn'.sent = dmn.sent
    BY <1>1, <1>10 DEF DaemonStep, DaemonOpen, DaemonWrite, DaemonComplete, DaemonQuery,
      Request,
      Up, client, thread, history, KindsInv, WiresInv
  <2>3. Increasing(x.data) /\ ToSet(x.data) = dmn.sent + 1 .. dmn'.sent
    <3>1. Increasing(x.data) /\ ToSet(x.data) = {}
      BY <2>1, NoBytes, EmptyFacts
    <3>2. dmn.sent + 1 .. dmn.sent = {}
      BY <1>1
    <3> QED
      BY <2>2, <3>1, <3>2
  <2>4. dmn'.sent \in Nat /\ dmn.sent <= dmn'.sent
    BY <1>1, <2>2
  <2> QED
    BY <1>9, <2>1, <2>2, <2>3, <2>4
<1>11. CASE DaemonPush
  <2>1. PICK n \in 1 .. Least(2, MaxRecv - dmn.sent) :
          /\ Reply("read", 0, n, [i \in 1 .. n |-> dmn.sent + i])
          /\ dmn' = [dmn EXCEPT !.sent = dmn.sent + n]
    BY <1>11 DEF DaemonPush
  <2> DEFINE d == [i \in 1 .. n |-> dmn.sent + i]
             x == [op |-> "read", id |-> 0, n |-> n, data |-> d]
  <2>2. n \in Nat
    BY <1>1, SizesAssumption DEF Least
  <2>3. /\ d \in Seq(Nat) /\ DOMAIN d = 1 .. n /\ \A i \in 1 .. n : d[i] = dmn.sent + i
    BY <1>1, <2>2
  <2>4. toClient' = Append(toClient, x) /\ dmn'.sent = dmn.sent + n
    BY <1>1, <2>1 DEF Reply, KindsInv, WiresInv
  <2> HIDE DEF d
  <2>5. x \in Answer /\ x.data = d
    BY <2>2, <2>3 DEF Answer
  <2> HIDE DEF x
  <2>6. Increasing(d)
    <3>1. ASSUME NEW i \in 1 .. n, NEW j \in 1 .. n, i < j PROVE d[i] < d[j]
      <4>1. dmn.sent + i < dmn.sent + j
        BY <1>1, <2>2, <3>1
      <4> QED
        BY <2>3, <4>1
    <3> QED
      BY <2>3, <3>1 DEF Increasing
  <2>7. ToSet(d) = dmn.sent + 1 .. dmn.sent + n
    <3>1. ASSUME NEW y \in ToSet(d) PROVE y \in dmn.sent + 1 .. dmn.sent + n
      BY <1>1, <2>2, <2>3, <3>1 DEF ToSet
    <3>2. ASSUME NEW y \in dmn.sent + 1 .. dmn.sent + n PROVE y \in ToSet(d)
      <4>1. y - dmn.sent \in 1 .. n /\ dmn.sent + (y - dmn.sent) = y
        BY ONLY <1>1, <2>2, y \in dmn.sent + 1 .. dmn.sent + n
      <4> QED
        BY <2>3, <4>1 DEF ToSet
    <3> QED
      BY <3>1, <3>2
  <2>8. UNCHANGED <<got, sock, leaked, rd, hdl>> /\ hdl.rpcfd
    BY <1>11 DEF DaemonPush, Up, client, thread, history
  <2>9. dmn'.sent \in Nat /\ dmn.sent <= dmn'.sent
    BY <1>1, <2>2, <2>4
  <2> QED
    BY <1>9, <2>4, <2>5, <2>6, <2>7, <2>8, <2>9
<1> QED
  BY <1>3, <1>4, <1>5, <1>6, <1>7, <1>8, <1>10, <1>11, NextMoves DEF Moves

-----------------------------------------------------------------------------
(* The invariant holds.                                                    *)

(* It holds at first, when nothing was called, sent or received.           *)
LEMMA InitIInv == ASSUME Init PROVE IInv
<1>1. KindsInv
  <2>1. [sta |-> 0, id |-> 0, cpl |-> 0, cur |-> 0] \in Op
    BY DEF Op
  <2>2. CallsInv
    BY <2>1 DEF Init, CallsInv, Places
  <2>3. SessionInv
    BY EmptyFacts, SizesAssumption DEF Init, SessionInv, Session
  <2>4. ThreadInv
    BY EmptyFacts DEF Init, ThreadInv, Handle
  <2>5. WiresInv
    BY EmptyFacts DEF Init, WiresInv
  <2>6. HistoryInv
    BY EmptyFacts DEF Init, HistoryInv
  <2> QED
    BY <2>2, <2>3, <2>4, <2>5, <2>6 DEF KindsInv
<1>2. WaitingInv /\ SleepInv /\ CalmInv /\ OpenedInv /\ FreshInv
  BY ThreadFacts DEF Init, WaitingInv, SleepInv, CalmInv, Opening, OpenedInv, FreshInv
<1>3. MessagesInv
  BY EmptyFacts DEF Init, MessagesInv, Arriving
<1>4. BytesInv
  <2>1. got \o sock.rx_rb = <<>>
    BY DEF Init
  <2>2. Seen = {}
    BY <2>1, EmptyFacts DEF Init, Seen
  <2>3. FromOne({}) /\ 1 .. 0 = {}
    BY DEF FromOne
  <2> QED
    BY <2>1, <2>2, <2>3, NoBytes DEF Init, BytesInv
<1>5. StoredInv
  BY ThreadFacts, EmptyFacts DEF Init, StoredInv
<1>6. NumbersInv /\ SettledInv
  BY ThreadFacts, EmptyFacts DEF Init, NumbersInv, Numbered, Sending, SettledInv
<1>7. UnderWayInv
  <2>1. NoWrites(toDaemon) /\ NoWrites(toClient) /\ NoWrites(rd.buf)
    BY NothingWritten DEF Init
  <2>2. Single(toDaemon) /\ Single(toClient) /\ Single(rd.buf)
    BY <2>1, NothingWritten
  <2>3. dmn.owed = <<>> /\ \A w \in Writers : ~ Ended(w)
    BY ThreadFacts DEF Init, Ended, Waits
  <2> QED
    BY <2>1, <2>2, <2>3, EmptyFacts DEF UnderWayInv, UnderWay, AsksOne, OwesOne, EndsOne,
      NoWrites
<1> QED
  BY <1>1, <1>2, <1>3, <1>4, <1>5, <1>6, <1>7 DEF IInv

(* Every step keeps it, part by part.                                      *)
LEMMA NextIInv == ASSUME IInv, [Next]_vars PROVE IInv'
<1>1. KindsInv'
  BY NextCalls, NextSession, NextThread, NextWires, NextHistory DEF KindsInv
<1> QED
  BY <1>1, NextWaiting, NextSleep, NextCalm, NextOpened, NextMessages, NextBytes, NextStored,
     NextNumbers, NextFresh, NextSettled, NextUnderWay
  DEF IInv

(* The invariant holds in every state.                                     *)
LEMMA Invariant == Spec => []IInv
<1> QED
  BY InitIInv, NextIInv, PTL DEF Spec

(***************************************************************************)
(* The session outlives the calls that wait on it: so_deinit of            *)
(* app/ar8030/session_socket.c frees it only when nobody is on its list or *)
(* holds its lock, for any number of threads; and the types.               *)
(***************************************************************************)
THEOREM SessionIsSafe == Spec => []SessionSafe
<1>1. ASSUME IInv PROVE SessionSafe
  <2>1. TypeOK
    <3>1. \A w \in Writers : op[w].cur \in Nat
      BY <1>1, ThreadFacts DEF IInv, KindsInv, CallsInv, Op
    <3>2. sock.head \subseteq Threads /\ sock.mem \in {"none", "live", "freed"}
          /\ Len(sock.rx_rb) <= BufLen
      BY <1>1 DEF IInv, KindsInv, SessionInv, Session
    <3>3. pc \in [Threads -> Places]
      BY <1>1 DEF IInv, KindsInv, CallsInv
    <3>4. /\ rd.pc \in {"check", "recv", "proc", "end", "deinit", "exitwait", "free", "over"}
          /\ rd.pc = "proc" <=> rd.buf # <<>>
          /\ hdl.handle_lk \in {"free", "rd"}
      BY <1>1 DEF IInv, KindsInv, ThreadInv, Handle
    <3> QED
      BY <3>1, <3>2, <3>3, <3>4 DEF TypeOK, Places
  <2>2. SessionOutlivesCalls
    BY <1>1 DEF IInv, WaitingInv, SessionOutlivesCalls
  <2> QED
    BY <2>1, <2>2 DEF SessionSafe
<1> QED
  BY <1>1, Invariant, PTL

(***************************************************************************)
(* No wake-up of a reader is lost (so_read and so_rpc_cb of                *)
(* app/ar8030/session_socket.c), with any number of readers and any sizes. *)
(***************************************************************************)
THEOREM ReadersWake == Spec => []NoReaderAsleepOnData
<1>1. ASSUME IInv PROVE NoReaderAsleepOnData
  BY <1>1 DEF IInv, SleepInv, NoReaderAsleepOnData
<1> QED
  BY <1>1, Invariant, PTL

(***************************************************************************)
(* The calls of app/ar8030/session_socket.c return the received bytes in   *)
(* order and their own results, however many messages a write is cut into, *)
(* and whatever else the daemon sends in between.                          *)
(***************************************************************************)
THEOREM Results == Spec => []OwnResults
<1>1. ASSUME IInv PROVE OwnResults
  <2>1. ReadsInOrder
    <3>1. Seen \in SUBSET Nat /\ Bytes(rd.buf) \in SUBSET Nat
      <4>1. /\ got \in Seq(Nat) /\ sock.rx_rb \in Seq(Nat) /\ leaked \subseteq Nat
            /\ rd.buf \in Seq(Answer)
        BY <1>1 DEF IInv, KindsInv, SessionInv, Session, HistoryInv, ThreadInv
      <4>2. got \o sock.rx_rb \in Seq(Nat)
        BY ONLY <4>1, ConcatFacts
      <4> QED
        BY <4>1, <4>2, Elements, BytesAreNumbers DEF Seen
    <3>2. Before(Seen, Bytes(rd.buf)) /\ FromOne(Seen \cup Bytes(rd.buf))
      BY <1>1 DEF IInv, BytesInv
    <3>3. FromOne(Seen)
      BY <3>1, <3>2, FirstPart
    <3>4. Increasing(got \o sock.rx_rb)
      BY <1>1 DEF IInv, BytesInv
    <3> QED
      BY <3>3, <3>4 DEF ReadsInOrder, Seen, FromOne, Increasing
  <2>2. ASSUME Cardinality(setup.callers \cap Writers) = 1, NEW w \in Writers,
               NEW i \in DOMAIN log[w], NEW m, m = [id |-> log[w][i].id, n |-> log[w][i].n]
        PROVE  /\ log[w][i].how = "done" /\ InStep(w, i) =>
                    m \in dmn.stored /\ m \notin ToSet(dmn.owed)
               /\ log[w][i].how = "timeout" => m.n = 0 \/ m \in dmn.stored
    <3>1. Alone(w)
      <4>1. IsFiniteSet(setup.callers \cap Writers)
        BY WritersAssumption, FS_Subset
      <4>2. PICK v : setup.callers \cap Writers = {v}
        BY <2>2, <4>1, FS_Singleton
      <4>3. v \in Writers /\ Alone(v)
        BY <4>2 DEF Alone
      <4>4. w = v
        <5>1. log[w] # <<>>
          BY <2>2
        <5>2. Numbered(v)
          BY <1>1, <4>3 DEF IInv, NumbersInv
        <5> QED
          BY <5>1, <5>2 DEF Numbered
      <4> QED
        BY <4>3, <4>4
    <3>2. log[w][i].id \in Nat
      <4>1. log[w] \in Seq(Entry)
        BY <1>1 DEF IInv, KindsInv, HistoryInv
      <4>2. log[w][i] \in Entry
        BY <2>2, <4>1
      <4> QED
        BY <4>2 DEF Entry
    <3>3. ASSUME log[w][i].how = "done", InStep(w, i)
          PROVE  m \in dmn.stored /\ m \notin ToSet(dmn.owed)
      <4>1. Settled(log[w][i])
        BY <1>1, <2>2, <3>1, <3>3 DEF IInv, SettledInv
      <4>2. m \in dmn.stored /\ \A x \in ToSet(dmn.owed) : log[w][i].id < x.id
        BY <2>2, <4>1 DEF Settled
      <4>3. m.id = log[w][i].id
        BY <2>2
      <4> QED
        BY <3>2, <4>2, <4>3
    <3>4. log[w][i].how = "timeout" => m.n = 0 \/ m \in dmn.stored
      BY <1>1, <2>2 DEF IInv, StoredInv
    <3> QED
      BY <3>3, <3>4
  <2>3. OwnResult
    BY <1>1, <2>2 DEF IInv, OpenedInv, OwnResult
  <2> QED
    BY <2>1, <2>3 DEF OwnResults
<1> QED
  BY <1>1, Invariant, PTL
=============================================================================
