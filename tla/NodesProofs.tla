---------------------------- MODULE NodesProofs -----------------------------
(***************************************************************************)
(* What modules Callback and Ioctl keep for any number of applications,    *)
(* calls, request ids and events, stated of the specification MCNodes      *)
(* checks.                                                                 *)
(*                                                                         *)
(* The ioctl path.  IoctlInv is inductive: the calls of one application    *)
(* are handled in their order (OrderInv), so that the device is asked each *)
(* once (OnceInv); message ids tell the nodes apart (IdsInv); and as long  *)
(* as no call timed out, the call an application waits for is at one place *)
(* only, on its way to the device or back (FlowInv), so that what comes    *)
(* back is its answer (AnswersInv).                                        *)
(*                                                                         *)
(* The event callbacks.  BasicInv is inductive for every event: the list   *)
(* has one node at most, and a connection or thread that has a node has    *)
(* that one (CbLinks); a node is marked before it is freed, and not while  *)
(* a connection is attached that came in time (KeptInv); so BadInv, which  *)
(* says how a freed node is used, holds.  Where the command is sent once,  *)
(* CbInv is inductive, too: a command or a reply is on its way exactly     *)
(* while that node waits for it (CountInv, RecvInv), and who was told it   *)
(* is subscribed is in the list of the node (SubsInv).                     *)
(***************************************************************************)
EXTENDS MCNodes, FiniteSetTheorems, FunctionTheorems, SequenceTheorems, TLAPS

-----------------------------------------------------------------------------
(* The ioctl path.                                                         *)

\* The types; a node has a request to send from the time it takes one until
\* it has sent it or taken a reply; only the last call of an application
\* waits.
Logged == [req : Reqs, got : {K!Outcome("pending"), K!Outcome("timeout")} \cup K!Request]
Ses == [timed : BOOLEAN, wakeup_set : BOOLEAN, sta : K!Request \cup {K!NoPack}, rx : {"read", "wake"}]
Nod == [reqid : Reqs \cup {"none"}, cmd : K!Calls \cup {K!NoCall}, need_write : BOOLEAN,
        init_flg : BOOLEAN, cur_msgid : calling.unset \cup 1 .. msgid]
Frames == [pack : K!Request, msgid : 1 .. msgid]

ClientInv ==
  /\ log \in [Apps -> Seq(Logged)] /\ ses \in [Apps -> Ses]
  /\ \A a \in Apps : ses[a].wakeup_set \/ ses[a].rx = "wake" => ses[a].sta \in K!Request
  /\ \A a \in Apps : \A i \in DOMAIN log[a] :
       log[a][i].got = K!Outcome("pending") => i = Len(log[a])
WiresInv ==
  /\ rpcTx \in [Apps -> Seq(K!Request)] /\ rpcRx \in [Apps -> Seq(K!Request)]
  /\ down \in Seq(Frames) /\ up \in Seq(Frames) /\ exec \in Seq(K!Request)
NodesInv ==
  /\ calling \in Calling /\ msgid \in Nat /\ nodes \in [Apps -> Nod]
  /\ \A a \in Apps :
       /\ nodes[a].init_flg = nodes[a].need_write
       /\ nodes[a].need_write => nodes[a].cmd \in K!Calls /\ nodes[a].reqid \in Reqs
ThreadsInv ==
  /\ send \in [pc : {"scan", "make", "clear"}, node : Apps \cup {"none"}, reqid : Reqs \cup {"none"}]
  /\ recv \in [pc : {"idle", "proc"}, node : Apps \cup {"none"}, pack : K!Request \cup {K!NoPack}]
  /\ send.pc # "scan" => send.node \in Apps
  /\ send.pc = "clear" =>
       /\ send.reqid \in Reqs /\ nodes[send.node].cmd \in K!Calls
       /\ nodes[send.node].cur_msgid \in 1 .. msgid
  /\ recv.pc = "proc" => recv.node \in Apps /\ recv.pack \in K!Request
KindsInv == ClientInv /\ WiresInv /\ NodesInv /\ ThreadsInv

\* The calls of an application are sent in their order: those on the
\* connection come after the one its node has, and that after those the
\* device was asked, unless it was sent itself.
Clearing(a) == send.pc = "clear" /\ send.node = a
Fresh(a) == nodes[a].need_write \/ Clearing(a)
Asked == ToSet(exec) \cup {f.pack : f \in ToSet(down)}
Sent(r) ==
  /\ r.call.no <= nodes[r.call.app].cmd.no
  /\ Fresh(r.call.app) => r.call.no < nodes[r.call.app].cmd.no
Queued(a) == \A i \in DOMAIN rpcTx[a] :
  /\ rpcTx[a][i].call.app = a /\ rpcTx[a][i].call.no <= Len(log[a])
  /\ rpcTx[a][i].req = log[a][rpcTx[a][i].call.no].req
  /\ nodes[a].cmd.no < rpcTx[a][i].call.no
  /\ \A j \in DOMAIN rpcTx[a] : i < j => rpcTx[a][i].call.no < rpcTx[a][j].call.no
OrderInv ==
  /\ \A a \in Apps :
       /\ nodes[a].cmd.no <= Len(log[a])
       /\ nodes[a].cmd \in K!Calls => nodes[a].cmd.app = a
       /\ Queued(a)
  /\ \A r \in Asked : Sent(r)

\* So the device is asked once.
Distinct(q) == \A j, k \in DOMAIN q : q[j].pack.call = q[k].pack.call => j = k
OnceInv ==
  /\ K!AtMostOnce /\ Distinct(down) /\ Distinct(up)
  /\ \A r \in ToSet(exec), f \in ToSet(down) : r.call # f.pack.call
  /\ \A f \in ToSet(up) : f.pack \in ToSet(exec)

\* Message ids tell the nodes apart.
IdsInv == calling.unset = {0} =>
  /\ \A a, b \in Apps : nodes[a].cur_msgid = nodes[b].cur_msgid => a = b \/ nodes[a].cur_msgid = 0
  /\ \A f \in ToSet(down) \cup ToSet(up) : \A b \in Apps :
       nodes[b].cur_msgid = f.msgid => f.pack.call.app = b
  /\ recv.pc = "proc" => recv.pack.call.app = recv.node
  /\ \A a \in Apps :
       /\ \A i \in DOMAIN rpcRx[a] : rpcRx[a][i].call.app = a
       /\ ses[a].sta # K!NoPack => ses[a].sta.call.app = a
       /\ \A i \in K!Answered(a) : log[a][i].got.call.app = a

\* A call none before which timed out comes to a node at rest, and is sent
\* under its own id.
AskTx(a) == \A i \in DOMAIN rpcTx[a] :
  K!InStep(a, rpcTx[a][i].call.no) => i = 1 /\ ~ Fresh(a)
AskNod(a) == Fresh(a) /\ K!InStep(a, nodes[a].cmd.no) =>
  /\ nodes[a].reqid = log[a][nodes[a].cmd.no].req
  /\ Clearing(a) => send.reqid = log[a][nodes[a].cmd.no].req
AskDev == \A r \in Asked :
  K!InStep(r.call.app, r.call.no) => r.req = log[r.call.app][r.call.no].req
AskInv == AskDev /\ \A a \in Apps : AskTx(a) /\ AskNod(a)

\* While no call timed out, the call that waits is at one place at most, and
\* nothing is anywhere while none waits.
Calm(a) == calling.unset = {0} /\ \A j \in DOMAIN log[a] : log[a][j].got # K!Outcome("timeout")
Current(a) == [req |-> log[a][Len(log[a])].req, call |-> [app |-> a, no |-> Len(log[a])]]
Of(q, a) == {f \in ToSet(q) : f.pack.call.app = a}
Receiving(a) == recv.pc = "proc" /\ recv.node = a
Waking(a) == ses[a].rx = "wake" \/ ses[a].wakeup_set
Only(q, r) == Len(q) = 1 /\ q[1] = r

AtOne(a) ==
  /\ rpcTx[a] # <<>> => ~ Fresh(a) /\ Of(down, a) = {} /\ Of(up, a) = {}
                        /\ ~ Receiving(a) /\ rpcRx[a] = <<>> /\ ~ Waking(a)
  /\ Fresh(a) => /\ Of(down, a) = {} /\ Of(up, a) = {}
                 /\ ~ Receiving(a) /\ rpcRx[a] = <<>> /\ ~ Waking(a)
  /\ Of(down, a) # {} => /\ Of(up, a) = {}
                          /\ ~ Receiving(a) /\ rpcRx[a] = <<>> /\ ~ Waking(a)
  /\ Of(up, a) # {} => ~ Receiving(a) /\ rpcRx[a] = <<>> /\ ~ Waking(a)
  /\ Receiving(a) => rpcRx[a] = <<>> /\ ~ Waking(a)
  /\ rpcRx[a] # <<>> => ~ Waking(a)
  /\ ~ (ses[a].rx = "wake" /\ ses[a].wakeup_set)
Own(a) ==
  /\ rpcTx[a] # <<>> => Only(rpcTx[a], Current(a))
  /\ Fresh(a) => /\ nodes[a].need_write /\ nodes[a].cmd = Current(a).call
                 /\ nodes[a].reqid = Current(a).req /\ (Clearing(a) => send.reqid = Current(a).req)
  /\ \A f \in Of(down, a) \cup Of(up, a) : f.pack = Current(a)
  /\ Receiving(a) => recv.pack = Current(a)
  /\ rpcRx[a] # <<>> => Only(rpcRx[a], Current(a))
  /\ Waking(a) => ses[a].sta = Current(a)
Rest(a) ==
  /\ rpcTx[a] = <<>> /\ ~ Fresh(a) /\ Of(down, a) = {} /\ Of(up, a) = {}
  /\ ~ Receiving(a) /\ rpcRx[a] = <<>> /\ ~ Waking(a)
Flow(a) == Calm(a) => AtOne(a) /\ Own(a) /\ (~ K!Waiting(a) => Rest(a))
FlowInv == \A a \in Apps : Flow(a)

\* Every call so far that returned in step returned its own answer.
AnswersInv == \A a \in Apps : \A i \in K!Answered(a) :
  K!InStep(a, i) => log[a][i].got = [req |-> log[a][i].req, call |-> [app |-> a, no |-> i]]

IoctlInv == /\ KindsInv /\ OrderInv /\ OnceInv /\ IdsInv /\ AskInv /\ FlowInv /\ AnswersInv

\* The head and the tail of a queue that is not empty.
LEMMA QueueFacts ==
  ASSUME NEW T, NEW q \in Seq(T), q # <<>>
  PROVE  /\ Head(q) \in T /\ Head(q) = q[1] /\ 1 \in DOMAIN q
         /\ Tail(q) \in Seq(T) /\ Len(Tail(q)) = Len(q) - 1 /\ Len(q) \in Nat \ {0}
         /\ \A k \in DOMAIN Tail(q) : k + 1 \in DOMAIN q /\ Tail(q)[k] = q[k + 1]
         /\ \A k \in DOMAIN q : k = 1 \/ (k - 1 \in DOMAIN Tail(q) /\ Tail(q)[k - 1] = q[k])
         /\ ToSet(q) = {Head(q)} \cup ToSet(Tail(q))
<1>1. /\ Head(q) \in T /\ Head(q) = q[1] /\ 1 \in DOMAIN q
      /\ Tail(q) \in Seq(T) /\ Len(Tail(q)) = Len(q) - 1 /\ Len(q) \in Nat \ {0}
      /\ \A k \in DOMAIN Tail(q) : k + 1 \in DOMAIN q /\ Tail(q)[k] = q[k + 1]
      /\ \A k \in DOMAIN q : k = 1 \/ (k - 1 \in DOMAIN Tail(q) /\ Tail(q)[k - 1] = q[k])
  OBVIOUS
<1>2. ASSUME NEW x \in ToSet(q) PROVE x = Head(q) \/ x \in ToSet(Tail(q))
  BY <1>1 DEF ToSet
<1>3. ASSUME NEW x \in ToSet(Tail(q)) PROVE x \in ToSet(q)
  BY <1>1 DEF ToSet
<1>4. Head(q) \in ToSet(q)
  BY <1>1 DEF ToSet
<1> QED
  BY <1>1, <1>2, <1>3, <1>4

\* A queue with one element more.
LEMMA AppendFacts ==
  ASSUME NEW T, NEW q \in Seq(T), NEW x \in T
  PROVE  /\ Append(q, x) \in Seq(T) /\ Append(q, x) # <<>>
         /\ Len(q) \in Nat /\ DOMAIN q = 1 .. Len(q)
         /\ Len(Append(q, x)) = Len(q) + 1 /\ DOMAIN Append(q, x) = 1 .. Len(q) + 1
         /\ \A k \in 1 .. Len(q) : Append(q, x)[k] = q[k]
         /\ Append(q, x)[Len(q) + 1] = x
         /\ ToSet(Append(q, x)) = ToSet(q) \cup {x}
<1>1. /\ Append(q, x) \in Seq(T) /\ Append(q, x) # <<>>
      /\ Len(q) \in Nat /\ DOMAIN q = 1 .. Len(q)
      /\ Len(Append(q, x)) = Len(q) + 1 /\ DOMAIN Append(q, x) = 1 .. Len(q) + 1
      /\ \A k \in 1 .. Len(q) : Append(q, x)[k] = q[k]
      /\ Append(q, x)[Len(q) + 1] = x
  OBVIOUS
<1> DEFINE p == Append(q, x)
<1> HIDE DEF p
<1>2. ASSUME NEW y \in ToSet(p) PROVE y \in ToSet(q) \cup {x}
  <2>1. PICK k \in 1 .. Len(q) + 1 : y = p[k]
    BY <1>1 DEF ToSet, p
  <2>2. CASE k = Len(q) + 1
    BY <1>1, <2>1, <2>2 DEF p
  <2>3. CASE k # Len(q) + 1
    BY <1>1, <2>1, <2>3 DEF p, ToSet
  <2> QED
    BY <2>2, <2>3
<1>3. ASSUME NEW y \in ToSet(q) PROVE y \in ToSet(p)
  BY <1>1 DEF ToSet, p
<1>4. x \in ToSet(p)
  BY <1>1 DEF ToSet, p
<1> QED
  BY <1>1, <1>2, <1>3, <1>4 DEF p

\* A queue, its positions and the set of its elements.
LEMMA Elements ==
  ASSUME NEW T, NEW q \in Seq(T)
  PROVE  /\ Len(q) \in Nat /\ DOMAIN q = 1 .. Len(q) /\ ToSet(q) \subseteq T
         /\ \A k \in DOMAIN q : q[k] \in T /\ q[k] \in ToSet(q)
         /\ q = <<>> <=> Len(q) = 0
         /\ q = <<>> <=> ToSet(q) = {}
<1>1. /\ Len(q) \in Nat /\ DOMAIN q = 1 .. Len(q) /\ \A k \in DOMAIN q : q[k] \in T
      /\ q = <<>> <=> Len(q) = 0
  OBVIOUS
<1>2. ToSet(q) \subseteq T /\ \A k \in DOMAIN q : q[k] \in ToSet(q)
  BY <1>1 DEF ToSet
<1>3. q = <<>> => ToSet(q) = {}
  BY <1>1 DEF ToSet
<1>4. q # <<>> => ToSet(q) # {}
  BY <1>1, QueueFacts
<1> QED
  BY <1>1, <1>2, <1>3, <1>4

\* Frames of different calls, one less and one more.
LEMMA DistinctTail ==
  ASSUME NEW q \in Seq(Frames), q # <<>>, Distinct(q)
  PROVE  /\ Distinct(Tail(q)) /\ ToSet(Tail(q)) = ToSet(q) \ {Head(q)}
         /\ \A f \in ToSet(Tail(q)) : f.pack.call # Head(q).pack.call
<1> DEFINE t == Tail(q)
           h == Head(q)
<1>1. /\ h = q[1] /\ 1 \in DOMAIN q /\ DOMAIN t \subseteq Nat \ {0}
      /\ \A k \in DOMAIN t : k + 1 \in DOMAIN q /\ t[k] = q[k + 1]
      /\ ToSet(q) = {h} \cup ToSet(t)
  BY QueueFacts, Elements
<1> HIDE DEF t, h
<1>2. ASSUME NEW f \in ToSet(t) PROVE f.pack.call # h.pack.call
  <2>1. PICK k \in DOMAIN t : f = t[k]
    BY DEF ToSet
  <2> QED
    BY <1>1, <2>1 DEF Distinct
<1>3. Distinct(t)
  <2>1. SUFFICES ASSUME NEW j \in DOMAIN t, NEW k \in DOMAIN t, t[j].pack.call = t[k].pack.call
                 PROVE  j = k
    BY DEF Distinct
  <2>2. j + 1 = k + 1
    BY <1>1, <2>1 DEF Distinct
  <2> QED
    BY <1>1, <2>1, <2>2
<1> QED
  BY <1>1, <1>2, <1>3 DEF t, h

\* A frame of another call leaves the frames distinct.
LEMMA DistinctAppend ==
  ASSUME NEW q \in Seq(Frames), NEW x \in Frames, Distinct(q),
         \A f \in ToSet(q) : f.pack.call # x.pack.call
  PROVE  Distinct(Append(q, x))
<1> DEFINE p == Append(q, x)
<1>1. /\ DOMAIN q = 1 .. Len(q) /\ Len(q) \in Nat /\ DOMAIN p = 1 .. Len(q) + 1
      /\ \A k \in 1 .. Len(q) : p[k] = q[k] /\ q[k] \in ToSet(q)
      /\ p[Len(q) + 1] = x
  BY AppendFacts, Elements
<1> HIDE DEF p
<1>2. SUFFICES ASSUME NEW j \in DOMAIN p, NEW k \in DOMAIN p, p[j].pack.call = p[k].pack.call
               PROVE  j = k
  BY DEF Distinct, p
<1>3. CASE j \in 1 .. Len(q) /\ k \in 1 .. Len(q)
  BY <1>1, <1>2, <1>3 DEF Distinct
<1>4. CASE j = Len(q) + 1 \/ k = Len(q) + 1
  BY <1>1, <1>2, <1>4
<1> QED
  BY <1>1, <1>3, <1>4

\* The outcomes of a call, the requests and the calls are told apart; the
\* requests and calls are well formed.
LEMMA Sorts ==
  /\ K!Outcome("pending") # K!Outcome("timeout")
  /\ \A p \in K!Request : /\ p # K!Outcome("pending") /\ p # K!Outcome("timeout") /\ p # K!NoPack
                        /\ p.call \in K!Calls /\ p.req \in Reqs
  /\ \A c \in K!Calls : c.app \in Apps /\ c.no \in 1 .. MaxCalls /\ c # K!NoCall
  /\ K!NoCall \notin K!Calls /\ K!NoCall.no = 0
  /\ MaxCalls \in Nat
BY AppsAssumption, CallsAssumption DEF K!Outcome, K!Request, K!Calls, K!NoCall, K!NoPack

\* What a call does.
Issued(a, r, n) ==
  /\ n = Len(log[a]) + 1 /\ n \in 1 .. MaxCalls /\ ~ K!Waiting(a)
  /\ log' \in [Apps -> Seq(Logged)] /\ \A b \in Apps : b # a => log'[b] = log[b]
  /\ Len(log'[a]) = n /\ DOMAIN log'[a] = 1 .. n
  /\ \A i \in 1 .. n - 1 : log'[a][i] = log[a][i]
  /\ log'[a][n] = [req |-> r, got |-> K!Outcome("pending")]
  /\ ses' \in [Apps -> Ses] /\ \A b \in Apps : b # a => ses'[b] = ses[b]
  /\ ses'[a].sta = ses[a].sta /\ ses'[a].rx = ses[a].rx /\ ~ ses'[a].wakeup_set
  /\ [req |-> r, call |-> [app |-> a, no |-> n]] \in K!Request
  /\ rpcTx' \in [Apps -> Seq(K!Request)] /\ \A b \in Apps : b # a => rpcTx'[b] = rpcTx[b]
  /\ rpcTx'[a] = Append(rpcTx[a], [req |-> r, call |-> [app |-> a, no |-> n]])

\* A call grows the log and the connection by one request (lib/ioctl of
\* session_ioctl.c).
LEMMA CallEffect ==
  ASSUME KindsInv, NEW a \in Apps, K!Call(a)
  PROVE  \E r \in Reqs, n \in 1 .. MaxCalls : Issued(a, r, n)
<1>1. PICK r \in Reqs, timed \in {FALSE, (a \in calling.timed)} :
       /\ log' = [log EXCEPT ![a] = Append(@, [req |-> r, got |-> K!Outcome("pending")])]
       /\ ses' = [ses EXCEPT ![a].timed = timed, ![a].wakeup_set = FALSE]
       /\ rpcTx' = [rpcTx EXCEPT ![a] =
                      Append(@, [req |-> r, call |-> [app |-> a, no |-> Len(log[a]) + 1]])]
  BY DEF K!Call
<1> DEFINE n == Len(log[a]) + 1
           e == [req |-> r, got |-> K!Outcome("pending")]
           p == [req |-> r, call |-> [app |-> a, no |-> n]]
<1>2. /\ log \in [Apps -> Seq(Logged)] /\ log[a] \in Seq(Logged)
      /\ ses \in [Apps -> Ses] /\ ses[a] \in Ses
      /\ rpcTx \in [Apps -> Seq(K!Request)] /\ rpcTx[a] \in Seq(K!Request)
  BY DEF KindsInv, ClientInv, WiresInv
<1>3. n \in 1 .. MaxCalls /\ ~ K!Waiting(a)
  <2>1. calling \in K!Setup /\ calling.calls[a] \in 0 .. MaxCalls
    BY CallsAssumption DEF KindsInv, NodesInv, K!Setup
  <2>2. Len(log[a]) \in Nat /\ Len(log[a]) < calling.calls[a] /\ ~ K!Waiting(a)
    BY <1>2, Elements DEF K!Call
  <2> QED
    BY <2>1, <2>2, Sorts
<1>4. e \in Logged /\ p \in K!Request
  BY <1>3 DEF Logged, K!Request, K!Calls
<1>5. timed \in BOOLEAN
  <2>1. CASE timed = FALSE
    BY <2>1
  <2>2. CASE timed = (a \in calling.timed)
    BY <2>2
  <2> QED
    BY <2>1, <2>2
<1>6. /\ ses' \in [Apps -> Ses] /\ \A b \in Apps : b # a => ses'[b] = ses[b]
      /\ ses'[a].sta = ses[a].sta /\ ses'[a].rx = ses[a].rx /\ ~ ses'[a].wakeup_set
  BY <1>1, <1>2, <1>5 DEF Ses
<1> HIDE DEF e, p
<1>7. /\ log' \in [Apps -> Seq(Logged)] /\ \A b \in Apps : b # a => log'[b] = log[b]
      /\ log'[a] = Append(log[a], e)
      /\ rpcTx' \in [Apps -> Seq(K!Request)] /\ \A b \in Apps : b # a => rpcTx'[b] = rpcTx[b]
      /\ rpcTx'[a] = Append(rpcTx[a], p)
  BY <1>1, <1>2, <1>4 DEF e, p
<1>8. /\ Len(log'[a]) = n /\ DOMAIN log'[a] = 1 .. n /\ log'[a][n] = e
      /\ \A i \in 1 .. n - 1 : log'[a][i] = log[a][i]
  BY <1>2, <1>4, <1>7, AppendFacts
<1>9. Issued(a, r, n)
  BY <1>3, <1>4, <1>6, <1>7, <1>8 DEF Issued, e, p
<1> QED
  BY <1>3, <1>9

\* What the return from a call does.
Returned(a, result, n) ==
  /\ n = Len(log[a]) /\ n \in DOMAIN log[a] /\ log[a][n].got = K!Outcome("pending")
  /\ log' \in [Apps -> Seq(Logged)] /\ \A b \in Apps : b # a => log'[b] = log[b]
  /\ Len(log'[a]) = n /\ DOMAIN log'[a] = DOMAIN log[a]
  /\ \A i \in DOMAIN log[a] : i # n => log'[a][i] = log[a][i]
  /\ log'[a][n] = [req |-> log[a][n].req, got |-> result]
  /\ ses' \in [Apps -> Ses] /\ \A b \in Apps : b # a => ses'[b] = ses[b]
  /\ ses'[a].sta = ses[a].sta /\ ses'[a].rx = ses[a].rx /\ ~ ses'[a].wakeup_set

\* A return changes the outcome of the last call only.
LEMMA ReturnEffect ==
  ASSUME KindsInv, NEW a \in Apps, K!Waiting(a),
         NEW result \in {K!Outcome("timeout")} \cup K!Request, K!Return(a, result),
         ses' = [ses EXCEPT ![a].wakeup_set = FALSE]
  PROVE  \E n \in Nat \ {0} : Returned(a, result, n)
<1> DEFINE n == Len(log[a])
<1>1. /\ log \in [Apps -> Seq(Logged)] /\ log[a] \in Seq(Logged)
      /\ ses \in [Apps -> Ses] /\ ses[a] \in Ses
  BY DEF KindsInv, ClientInv
<1>2. /\ n \in Nat \ {0} /\ n \in DOMAIN log[a] /\ DOMAIN log[a] = 1 .. n
      /\ log[a][n].got = K!Outcome("pending") /\ log[a][n] \in Logged
  BY <1>1, Elements DEF K!Waiting, K!Last
<1>3. /\ ses' \in [Apps -> Ses] /\ \A b \in Apps : b # a => ses'[b] = ses[b]
      /\ ses'[a].sta = ses[a].sta /\ ses'[a].rx = ses[a].rx /\ ~ ses'[a].wakeup_set
  BY <1>1 DEF Ses
<1> DEFINE e == [req |-> log[a][n].req, got |-> result]
<1>4. e \in Logged /\ [log[a][n] EXCEPT !.got = result] = e
  BY <1>2 DEF Logged
<1>5. log' = [log EXCEPT ![a] = [log[a] EXCEPT ![n] = e]]
  BY <1>1, <1>2, <1>4 DEF K!Return
<1> HIDE DEF e
<1>6. /\ [log[a] EXCEPT ![n] = e] \in Seq(Logged) /\ Len([log[a] EXCEPT ![n] = e]) = n
      /\ \A j \in 1 .. n : [log[a] EXCEPT ![n] = e][j] = IF j = n THEN e ELSE log[a][j]
  BY <1>1, <1>2, <1>4, ExceptSeq
<1>7. /\ log' \in [Apps -> Seq(Logged)] /\ \A b \in Apps : b # a => log'[b] = log[b]
      /\ log'[a] = [log[a] EXCEPT ![n] = e]
  BY <1>1, <1>5, <1>6
<1>8. Returned(a, result, n)
  BY <1>2, <1>3, <1>6, <1>7, Elements DEF Returned, e
<1> QED
  BY <1>2, <1>8

\* What the client's read thread does.
Received(a, p) ==
  /\ rpcRx[a] # <<>> /\ ses[a].rx = "read" /\ 1 \in DOMAIN rpcRx[a] /\ p = rpcRx[a][1]
  /\ ses' \in [Apps -> Ses] /\ \A b \in Apps : b # a => ses'[b] = ses[b]
  /\ ses'[a].sta = p /\ ses'[a].rx = "wake" /\ ses'[a].wakeup_set = ses[a].wakeup_set
  /\ rpcRx' \in [Apps -> Seq(K!Request)] /\ \A b \in Apps : b # a => rpcRx'[b] = rpcRx[b]
  /\ rpcRx'[a] = Tail(rpcRx[a])

\* The read thread keeps the answer at the head of the connection and goes to
\* wake the call.
LEMMA ReceiveEffect ==
  ASSUME KindsInv, NEW a \in Apps, K!ClientRecv(a)
  PROVE  \E p \in K!Request : Received(a, p)
<1>1. /\ rpcRx \in [Apps -> Seq(K!Request)] /\ rpcRx[a] \in Seq(K!Request) /\ rpcRx[a] # <<>>
      /\ ses \in [Apps -> Ses] /\ ses[a] \in Ses
  BY DEF KindsInv, ClientInv, WiresInv, K!ClientRecv
<1> DEFINE p == Head(rpcRx[a])
<1>2. p \in K!Request /\ p = rpcRx[a][1] /\ 1 \in DOMAIN rpcRx[a] /\ Tail(rpcRx[a]) \in Seq(K!Request)
  BY <1>1, QueueFacts
<1> HIDE DEF p
<1>3. ses' = [ses EXCEPT ![a].rx = "wake", ![a].sta = p] /\ ses[a].rx = "read"
  BY DEF K!ClientRecv, p
<1>4. /\ ses' \in [Apps -> Ses] /\ \A b \in Apps : b # a => ses'[b] = ses[b]
      /\ ses'[a].sta = p /\ ses'[a].rx = "wake" /\ ses'[a].wakeup_set = ses[a].wakeup_set
  BY <1>1, <1>2, <1>3 DEF Ses
<1>5. /\ rpcRx' \in [Apps -> Seq(K!Request)] /\ \A b \in Apps : b # a => rpcRx'[b] = rpcRx[b]
      /\ rpcRx'[a] = Tail(rpcRx[a])
  BY <1>1, <1>2 DEF K!ClientRecv
<1>6. Received(a, p)
  BY <1>1, <1>2, <1>3, <1>4, <1>5 DEF Received
<1> QED
  BY <1>2, <1>6

\* What the rpc thread of a connection does.
Taken(a, p) ==
  /\ rpcTx[a] # <<>> /\ 1 \in DOMAIN rpcTx[a] /\ p = rpcTx[a][1]
  /\ rpcTx' \in [Apps -> Seq(K!Request)] /\ \A b \in Apps : b # a => rpcTx'[b] = rpcTx[b]
  /\ rpcTx'[a] = Tail(rpcTx[a])
  /\ nodes' \in [Apps -> Nod] /\ \A b \in Apps : b # a => nodes'[b] = nodes[b]
  /\ nodes'[a].cur_msgid = nodes[a].cur_msgid /\ nodes'[a].need_write /\ nodes'[a].init_flg
  /\ \/ nodes[a].need_write /\ nodes'[a] = nodes[a]
     \/ nodes[a].need_write /\ nodes'[a].cmd = p.call /\ nodes'[a].reqid = nodes[a].reqid
     \/ ~ nodes[a].need_write /\ nodes'[a].cmd = p.call /\ nodes'[a].reqid = p.req

\* The rpc thread gives the request at the head of the connection to the node.
LEMMA TakeEffect ==
  ASSUME KindsInv, NEW a \in Apps, K!RpcRead(a)
  PROVE  \E p \in K!Request : Taken(a, p)
<1>1. /\ rpcTx \in [Apps -> Seq(K!Request)] /\ rpcTx[a] \in Seq(K!Request) /\ rpcTx[a] # <<>>
      /\ nodes \in [Apps -> Nod] /\ nodes[a] \in Nod /\ nodes[a].init_flg = nodes[a].need_write
  BY DEF KindsInv, NodesInv, WiresInv, K!RpcRead
<1> DEFINE p == Head(rpcTx[a])
<1>2. p \in K!Request /\ p = rpcTx[a][1] /\ 1 \in DOMAIN rpcTx[a] /\ Tail(rpcTx[a]) \in Seq(K!Request)
  BY <1>1, QueueFacts
<1>3. p.req \in Reqs /\ p.call \in K!Calls
  BY <1>2 DEF K!Request
<1>4. /\ rpcTx' \in [Apps -> Seq(K!Request)] /\ \A b \in Apps : b # a => rpcTx'[b] = rpcTx[b]
      /\ rpcTx'[a] = Tail(rpcTx[a])
  BY <1>1, <1>2 DEF K!RpcRead
<1>5. /\ nodes' \in [Apps -> Nod] /\ \A b \in Apps : b # a => nodes'[b] = nodes[b]
      /\ nodes'[a].cur_msgid = nodes[a].cur_msgid /\ nodes'[a].need_write /\ nodes'[a].init_flg
      /\ \/ nodes[a].need_write /\ nodes'[a] = nodes[a]
         \/ nodes[a].need_write /\ nodes'[a].cmd = p.call /\ nodes'[a].reqid = nodes[a].reqid
         \/ ~ nodes[a].need_write /\ nodes'[a].cmd = p.call /\ nodes'[a].reqid = p.req
  <2>1. CASE nodes[a].init_flg /\ nodes[a].reqid = p.req /\ UNCHANGED nodes
    BY <1>1, <2>1
  <2>2. CASE ~ nodes[a].init_flg /\ nodes' = [nodes EXCEPT ![a].reqid = p.req, ![a].init_flg = TRUE,
                              ![a].cmd = p.call, ![a].need_write = TRUE]
    BY <1>1, <1>3, <2>2 DEF Nod
  <2>3. CASE /\ nodes[a].init_flg /\ nodes[a].reqid # p.req
             /\ nodes' = [nodes EXCEPT ![a].cmd = p.call, ![a].need_write = TRUE]
    BY <1>1, <1>3, <2>3 DEF Nod
  <2> QED
    BY <2>1, <2>2, <2>3 DEF K!RpcRead
<1>6. Taken(a, p)
  BY <1>1, <1>2, <1>4, <1>5 DEF Taken
<1> QED
  BY <1>2, <1>6

\* What the send thread does: the id, then the frame.
Made(a) ==
  /\ send.pc = "make" /\ send.node = a /\ nodes[a].need_write
  /\ send'.pc = "clear" /\ send'.node = a /\ send'.reqid = nodes[a].reqid
  /\ msgid' = msgid + 1
  /\ nodes' \in [Apps -> Nod'] /\ \A b \in Apps : b # a => nodes'[b] = nodes[b]
  /\ nodes'[a].cur_msgid = msgid + 1 /\ nodes'[a].cmd = nodes[a].cmd /\ nodes'[a].reqid = nodes[a].reqid
  /\ nodes'[a].need_write /\ nodes'[a].init_flg

\* A send thread that makes a frame takes a new message id for the node.
LEMMA MakeEffect ==
  ASSUME KindsInv, K!PackMake, send'.pc = "clear"
  PROVE  \E a \in Apps : Made(a)
<1> DEFINE a == send.node
<1>1. a \in Apps /\ send.pc = "make"
  BY DEF KindsInv, ThreadsInv, K!PackMake
<1>2. /\ send \in [pc : {"scan", "make", "clear"}, node : Apps \cup {"none"}, reqid : Reqs \cup {"none"}]
      /\ nodes \in [Apps -> Nod] /\ nodes[a].init_flg = nodes[a].need_write /\ msgid \in Nat
  BY <1>1 DEF KindsInv, ThreadsInv, NodesInv
<1>3. /\ nodes[a].need_write
      /\ send' = [send EXCEPT !.pc = "clear", !.reqid = nodes[a].reqid]
      /\ msgid' = msgid + 1
      /\ nodes' = [nodes EXCEPT ![a].cur_msgid = msgid + 1]
  BY <1>2 DEF K!PackMake
<1>4. calling' = calling
  BY DEF K!PackMake, K!device
<1>5. \A b \in Apps : nodes[b] \in Nod'
  BY <1>2, <1>3, <1>4 DEF Nod
<1>6. [nodes[a] EXCEPT !.cur_msgid = msgid + 1] \in Nod'
  BY <1>1, <1>2, <1>3, <1>4 DEF Nod
<1>7. /\ nodes' \in [Apps -> Nod'] /\ \A b \in Apps : b # a => nodes'[b] = nodes[b]
      /\ nodes'[a] = [nodes[a] EXCEPT !.cur_msgid = msgid + 1]
  BY <1>1, <1>2, <1>3, <1>5, <1>6
<1>8. nodes[a] \in Nod
  BY <1>1, <1>2
<1>9. Made(a)
  BY <1>1, <1>2, <1>3, <1>7, <1>8 DEF Made, Nod
<1> QED
  BY <1>1, <1>9

Queues(a, f) ==
  /\ Clearing(a) /\ f \in Frames /\ f.msgid = nodes[a].cur_msgid
  /\ f.pack \in K!Request /\ f.pack.req = send.reqid /\ f.pack.call = nodes[a].cmd
  /\ send'.pc = "make" /\ send'.node = a /\ send'.reqid = send.reqid
  /\ nodes' \in [Apps -> Nod] /\ \A b \in Apps : b # a => nodes'[b] = nodes[b]
  /\ nodes'[a].cur_msgid = nodes[a].cur_msgid /\ nodes'[a].cmd = nodes[a].cmd
  /\ nodes'[a].reqid = nodes[a].reqid /\ ~ nodes'[a].need_write /\ ~ nodes'[a].init_flg
  /\ down' = Append(down, f) /\ down' \in Seq(Frames)
  /\ ToSet(down') = ToSet(down) \cup {f}

\* The send thread puts the frame of the node on the way to the device.
LEMMA SentEffect ==
  ASSUME KindsInv, K!PackSent
  PROVE  \E a \in Apps, f \in Frames : Queues(a, f)
<1> DEFINE a == send.node
           f == K!Frame([req |-> send.reqid, call |-> nodes[a].cmd], nodes[a].cur_msgid)
<1>1. /\ a \in Apps /\ send.pc = "clear" /\ send.reqid \in Reqs /\ nodes[a].cmd \in K!Calls
      /\ nodes[a].cur_msgid \in 1 .. msgid
  BY DEF KindsInv, ThreadsInv, K!PackSent
<1>2. /\ send \in [pc : {"scan", "make", "clear"}, node : Apps \cup {"none"}, reqid : Reqs \cup {"none"}]
      /\ nodes \in [Apps -> Nod] /\ nodes[a] \in Nod /\ down \in Seq(Frames)
  BY <1>1 DEF KindsInv, ThreadsInv, NodesInv, WiresInv
<1>3. /\ f \in Frames /\ f.msgid = nodes[a].cur_msgid
      /\ f.pack \in K!Request /\ f.pack.req = send.reqid /\ f.pack.call = nodes[a].cmd
  BY <1>1 DEF K!Frame, Frames, K!Request
<1>4. send'.pc = "make" /\ send'.node = a /\ send'.reqid = send.reqid
  BY <1>2 DEF K!PackSent
<1>5. /\ nodes' \in [Apps -> Nod] /\ \A b \in Apps : b # a => nodes'[b] = nodes[b]
      /\ nodes'[a].cur_msgid = nodes[a].cur_msgid /\ nodes'[a].cmd = nodes[a].cmd
      /\ nodes'[a].reqid = nodes[a].reqid /\ ~ nodes'[a].need_write /\ ~ nodes'[a].init_flg
  BY <1>1, <1>2 DEF K!PackSent, Nod
<1>6. down' = Append(down, f)
  BY DEF K!PackSent
<1> HIDE DEF f
<1>7. down' \in Seq(Frames) /\ ToSet(down') = ToSet(down) \cup {f}
  BY <1>2, <1>3, <1>6, AppendFacts
<1>8. Queues(a, f)
  BY <1>1, <1>3, <1>4, <1>5, <1>6, <1>7 DEF Queues, Clearing
<1> QED
  BY <1>1, <1>3, <1>8

\* What the receive thread does.
Found(f) ==
  /\ up # <<>> /\ f = Head(up) /\ f \in ToSet(up) /\ f.pack \in K!Request
  /\ up' \in Seq(Frames) /\ up' = Tail(up)
  /\ recv.pc = "idle"
  /\ \/ recv' = recv
     \/ \E a \in Apps : /\ recv'.pc = "proc" /\ recv'.node = a /\ recv'.pack = f.pack
                        /\ nodes[a].cur_msgid = f.msgid

\* The receive thread takes the first frame of the device, for the node with
\* its message id if there is one.
LEMMA FindEffect ==
  ASSUME KindsInv, K!RecvFind
  PROVE  \E f \in Frames : Found(f)
<1> DEFINE f == Head(up)
<1>1. up \in Seq(Frames) /\ up # <<>>
  BY DEF KindsInv, WiresInv, K!RecvFind
<1>2. f \in Frames /\ f \in ToSet(up) /\ Tail(up) \in Seq(Frames)
  BY <1>1, QueueFacts
<1>3. f.pack \in K!Request
  BY <1>2 DEF Frames
<1>4. \/ recv' = recv
      \/ \E a \in Apps : /\ recv'.pc = "proc" /\ recv'.node = a /\ recv'.pack = f.pack
                         /\ nodes[a].cur_msgid = f.msgid
  BY DEF K!RecvFind, K!Takes
<1> HIDE DEF f
<1>5. Found(f)
  BY <1>1, <1>2, <1>3, <1>4 DEF Found, K!RecvFind, f
<1> QED
  BY <1>2, <1>5

Passed(a) ==
  /\ Receiving(a) /\ recv.pack \in K!Request /\ recv'.pc = "idle"
  /\ recv' = [pc |-> "idle", node |-> "none", pack |-> K!NoPack]
  /\ nodes' \in [Apps -> Nod] /\ \A b \in Apps : b # a => nodes'[b] = nodes[b]
  /\ nodes'[a].cur_msgid = nodes[a].cur_msgid /\ nodes'[a].cmd = nodes[a].cmd
  /\ nodes'[a].reqid = nodes[a].reqid /\ ~ nodes'[a].need_write /\ ~ nodes'[a].init_flg
  /\ rpcRx' \in [Apps -> Seq(K!Request)] /\ \A b \in Apps : b # a => rpcRx'[b] = rpcRx[b]
  /\ rpcRx'[a] = Append(rpcRx[a], recv.pack)

\* The receive thread passes the reply to the connection of the node.
LEMMA PassEffect ==
  ASSUME KindsInv, K!RecvProc
  PROVE  \E a \in Apps : Passed(a)
<1> DEFINE a == recv.node
<1>1. a \in Apps /\ recv.pc = "proc" /\ recv.pack \in K!Request
  BY DEF KindsInv, ThreadsInv, K!RecvProc
<1>2. /\ nodes \in [Apps -> Nod] /\ nodes[a] \in Nod
      /\ rpcRx \in [Apps -> Seq(K!Request)] /\ rpcRx[a] \in Seq(K!Request)
  BY <1>1 DEF KindsInv, NodesInv, WiresInv
<1>3. recv' = [pc |-> "idle", node |-> "none", pack |-> K!NoPack]
  BY DEF K!RecvProc, K!RecvDone
<1>4. /\ nodes' \in [Apps -> Nod] /\ \A b \in Apps : b # a => nodes'[b] = nodes[b]
      /\ nodes'[a].cur_msgid = nodes[a].cur_msgid /\ nodes'[a].cmd = nodes[a].cmd
      /\ nodes'[a].reqid = nodes[a].reqid /\ ~ nodes'[a].need_write /\ ~ nodes'[a].init_flg
  BY <1>1, <1>2 DEF K!RecvProc, Nod
<1>5. /\ rpcRx' \in [Apps -> Seq(K!Request)] /\ \A b \in Apps : b # a => rpcRx'[b] = rpcRx[b]
      /\ rpcRx'[a] = Append(rpcRx[a], recv.pack)
  BY <1>1, <1>2 DEF K!RecvProc
<1>6. Passed(a)
  BY <1>1, <1>3, <1>4, <1>5 DEF Passed, Receiving
<1> QED
  BY <1>1, <1>6

\* What the device does.
Replied(f) ==
  /\ down # <<>> /\ f = Head(down) /\ f \in ToSet(down) /\ f.pack \in K!Request
  /\ down' = Tail(down) /\ down' \in Seq(Frames)
  /\ up' = Append(up, f) /\ up' \in Seq(Frames)
  /\ ToSet(up') = ToSet(up) \cup {f}
  /\ exec' = Append(exec, f.pack) /\ exec' \in Seq(K!Request)
  /\ ToSet(exec') = ToSet(exec) \cup {f.pack}

\* The device runs the first request and answers it under the same message id.
LEMMA ReplyEffect ==
  ASSUME KindsInv, K!DevReply
  PROVE  \E f \in Frames : Replied(f)
<1> DEFINE f == Head(down)
<1>1. down \in Seq(Frames) /\ up \in Seq(Frames) /\ exec \in Seq(K!Request) /\ down # <<>>
  BY DEF KindsInv, WiresInv, K!DevReply
<1>2. f \in Frames /\ f \in ToSet(down) /\ Tail(down) \in Seq(Frames)
  BY <1>1, QueueFacts
<1>3. f.pack \in K!Request
  BY <1>2 DEF Frames
<1>4. down' = Tail(down) /\ up' = Append(up, f) /\ exec' = Append(exec, f.pack)
  BY DEF K!DevReply
<1> HIDE DEF f
<1>5. Append(up, f) \in Seq(Frames) /\ ToSet(Append(up, f)) = ToSet(up) \cup {f}
  BY <1>1, <1>2, AppendFacts
<1>6. /\ Append(exec, f.pack) \in Seq(K!Request)
      /\ ToSet(Append(exec, f.pack)) = ToSet(exec) \cup {f.pack}
  BY <1>1, <1>3, AppendFacts
<1>7. Replied(f)
  BY <1>1, <1>2, <1>3, <1>4, <1>5, <1>6 DEF Replied, f
<1> QED
  BY <1>2, <1>7

\* The calls that were made stay; only what became of the last may change.
Grows(a) ==
  /\ calling' = calling /\ Len(log[a]) \in Nat /\ Len(log[a]) <= Len(log'[a])
  /\ DOMAIN log[a] = 1 .. Len(log[a]) /\ DOMAIN log'[a] = 1 .. Len(log'[a])
  /\ \A i \in DOMAIN log[a] : /\ log'[a][i].req = log[a][i].req
                              /\ i < Len(log[a]) => log'[a][i].got = log[a][i].got

\* InStep after the step.
InStepNext(a, i) ==
  /\ calling'.unset = {0}
  /\ \A j \in 1 .. i - 1 : log'[a][j].got # K!Outcome("timeout")

\* Whether a call is in step does not change while the calls before it stay as
\* they are.
LEMMA InStepKept ==
  ASSUME NEW a \in Apps, Grows(a), NEW i \in Nat, i <= Len(log[a])
  PROVE  InStepNext(a, i) <=> K!InStep(a, i)
BY DEF Grows, K!InStep, InStepNext

\* What is not touched stays in order.
SameFlow(b) ==
  /\ calling' = calling /\ log'[b] = log[b] /\ rpcTx'[b] = rpcTx[b] /\ rpcRx'[b] = rpcRx[b]
  /\ ses'[b] = ses[b]
  /\ nodes'[b].need_write = nodes[b].need_write /\ nodes'[b].cmd = nodes[b].cmd
  /\ nodes'[b].reqid = nodes[b].reqid
  /\ Clearing(b)' = Clearing(b) /\ (Clearing(b) => send'.reqid = send.reqid)
  /\ Receiving(b)' = Receiving(b) /\ (Receiving(b) => recv'.pack = recv.pack)
  /\ Of(down', b) = Of(down, b) /\ Of(up', b) = Of(up, b)

\* What is said of the calls of one application stays true while nothing of it
\* is touched.
LEMMA FlowKept ==
  ASSUME NEW b \in Apps, Flow(b), SameFlow(b)
  PROVE  Flow(b)'
<1>1. /\ Calm(b)' <=> Calm(b)
      /\ Current(b)' = Current(b)
      /\ Fresh(b)' <=> Fresh(b)
      /\ Waking(b)' <=> Waking(b)
      /\ K!Waiting(b)' <=> K!Waiting(b)
      /\ Of(down, b)' = Of(down, b) /\ Of(up, b)' = Of(up, b)
  BY DEF SameFlow, Calm, Current, Fresh, Waking, K!Waiting, Of, K!Last
<1>2. AtOne(b)' <=> AtOne(b)
  BY <1>1 DEF SameFlow, AtOne
<1>3. Own(b) => Own(b)'
  BY <1>1 DEF SameFlow, Own, Only
<1>4. Rest(b)' <=> Rest(b)
  BY <1>1 DEF SameFlow, Rest
<1> QED
  BY <1>1, <1>2, <1>3, <1>4 DEF Flow

\* The types, position by position.
LEMMA Typed ==
  ASSUME KindsInv, NEW a \in Apps
  PROVE  /\ log[a] \in Seq(Logged) /\ Len(log[a]) \in Nat /\ DOMAIN log[a] = 1 .. Len(log[a])
         /\ log[a] = <<>> <=> Len(log[a]) = 0
         /\ \A i \in DOMAIN log[a] :
              /\ log[a][i].req \in Reqs
              /\ log[a][i].got \in {K!Outcome("pending"), K!Outcome("timeout")} \cup K!Request
         /\ rpcTx[a] \in Seq(K!Request) /\ Len(rpcTx[a]) \in Nat
         /\ DOMAIN rpcTx[a] = 1 .. Len(rpcTx[a]) /\ (rpcTx[a] = <<>> <=> Len(rpcTx[a]) = 0)
         /\ \A i \in DOMAIN rpcTx[a] : rpcTx[a][i] \in K!Request
         /\ rpcRx[a] \in Seq(K!Request) /\ Len(rpcRx[a]) \in Nat
         /\ DOMAIN rpcRx[a] = 1 .. Len(rpcRx[a]) /\ (rpcRx[a] = <<>> <=> Len(rpcRx[a]) = 0)
         /\ \A i \in DOMAIN rpcRx[a] : rpcRx[a][i] \in K!Request
         /\ nodes[a] \in Nod /\ nodes[a].cmd \in K!Calls \cup {K!NoCall} /\ nodes[a].cmd.no \in Nat
         /\ nodes[a].reqid \in Reqs \cup {"none"} /\ nodes[a].cur_msgid \in calling.unset \cup 1 .. msgid
         /\ ses[a] \in Ses
<1>1. log[a] \in Seq(Logged) /\ rpcTx[a] \in Seq(K!Request) /\ rpcRx[a] \in Seq(K!Request)
      /\ nodes[a] \in Nod /\ ses[a] \in Ses
  BY DEF KindsInv, ClientInv, WiresInv, NodesInv
<1>2. \A i \in DOMAIN log[a] : log[a][i] \in Logged
  BY <1>1, Elements
<1>3. nodes[a].cmd \in K!Calls \cup {K!NoCall} /\ nodes[a].cmd.no \in Nat
  BY <1>1, Sorts DEF Nod
<1> QED
  BY <1>1, <1>2, <1>3, Elements DEF Logged, Nod

\* A log that is not touched grows by nothing.
LEMMA Untouched ==
  ASSUME KindsInv, log' = log, calling' = calling, NEW a \in Apps
  PROVE  Grows(a)
BY Typed DEF Grows

\* What the device was asked is a call of its application.
LEMMA AskedFacts ==
  ASSUME KindsInv, OrderInv, NEW r \in Asked
  PROVE  /\ r \in K!Request /\ r.call \in K!Calls /\ r.call.app \in Apps /\ r.call.no \in Nat
         /\ r.call.no \in DOMAIN log[r.call.app] /\ r.call.no <= Len(log[r.call.app])
<1>1. r \in K!Request
  <2>1. exec \in Seq(K!Request) /\ down \in Seq(Frames)
    BY DEF KindsInv, WiresInv
  <2>2. ToSet(exec) \subseteq K!Request /\ ToSet(down) \subseteq Frames
    BY <2>1, Elements
  <2> QED
    BY <2>2 DEF Asked, Frames
<1>2. r.call \in K!Calls /\ r.call.app \in Apps /\ r.call.no \in 1 .. MaxCalls /\ MaxCalls \in Nat
  BY <1>1, Sorts
<1>3. r.call.no <= nodes[r.call.app].cmd.no /\ nodes[r.call.app].cmd.no <= Len(log[r.call.app])
  BY <1>2 DEF OrderInv, Sent
<1> QED
  BY <1>1, <1>2, <1>3, Typed

\* Where no call before the i-th timed out, and none waits, all is calm.
LEMMA CalmStep ==
  ASSUME KindsInv, NEW a \in Apps, K!InStep(a, Len(log[a])),
         log[a] # <<>> => log[a][Len(log[a])].got # K!Outcome("timeout")
  PROVE  Calm(a)
BY Typed DEF Calm, K!InStep

\* The parts of AskInv after a step that leaves alone what they look at.
LEMMA AskTxKept ==
  ASSUME KindsInv, OrderInv, NEW b \in Apps, AskTx(b), Grows(b),
         NEW k \in DOMAIN rpcTx'[b], NEW i \in DOMAIN rpcTx[b], rpcTx'[b][k] = rpcTx[b][i],
         InStepNext(b, rpcTx'[b][k].call.no)
  PROVE  i = 1 /\ ~ Fresh(b)
<1>1. rpcTx[b][i].call.no \in Nat /\ rpcTx[b][i].call.no <= Len(log[b])
  BY Typed, Sorts DEF OrderInv, Queued
<1>2. K!InStep(b, rpcTx[b][i].call.no)
  BY <1>1, InStepKept
<1> QED
  BY <1>2 DEF AskTx

\* AskTx after a step, without a primed InStep.
LEMMA AskTxNext ==
  ASSUME NEW b \in Apps,
         \A k \in DOMAIN rpcTx'[b] :
           InStepNext(b, rpcTx'[b][k].call.no) => k = 1 /\ ~ Fresh(b)'
  PROVE  AskTx(b)'
BY DEF AskTx, K!InStep, InStepNext

\* A connection that is not touched stays in step, if its node does not become
\* busy.
LEMMA AskTxSame ==
  ASSUME KindsInv, OrderInv, NEW b \in Apps, AskTx(b), Grows(b), rpcTx'[b] = rpcTx[b],
         Fresh(b)' => Fresh(b)
  PROVE  AskTx(b)'
BY AskTxKept, AskTxNext

\* AskNod after a step, without a primed InStep.
LEMMA AskNodNext ==
  ASSUME NEW b \in Apps,
         Fresh(b)' /\ InStepNext(b, nodes'[b].cmd.no) =>
           /\ nodes'[b].reqid = log'[b][nodes'[b].cmd.no].req
           /\ Clearing(b)' => send'.reqid = log'[b][nodes'[b].cmd.no].req
  PROVE  AskNod(b)'
BY DEF AskNod, K!InStep, InStepNext

\* A node with a call has one of the log.
LEMMA CmdFacts ==
  ASSUME KindsInv, OrderInv, NEW b \in Apps, nodes[b].cmd \in K!Calls
  PROVE  /\ nodes[b].cmd.no \in DOMAIN log[b] /\ nodes[b].cmd.no <= Len(log[b])
         /\ nodes[b].cmd.no \in Nat \ {0} /\ nodes[b].cmd.app = b
BY Sorts, Typed DEF OrderInv

\* A node with a request to send has a call.
LEMMA FreshFacts ==
  ASSUME KindsInv, NEW b \in Apps, Fresh(b)
  PROVE  nodes[b].cmd \in K!Calls
BY DEF Fresh, Clearing, KindsInv, NodesInv, ThreadsInv

\* A node that is not touched stays in step.
LEMMA AskNodSame ==
  ASSUME KindsInv, OrderInv, NEW b \in Apps, AskNod(b), Grows(b),
         nodes'[b].cmd = nodes[b].cmd, nodes'[b].reqid = nodes[b].reqid, Fresh(b)' => Fresh(b),
         Clearing(b)' => IF Clearing(b) THEN send'.reqid = send.reqid ELSE send'.reqid = nodes[b].reqid
  PROVE  AskNod(b)'
<1>1. SUFFICES ASSUME Fresh(b)', InStepNext(b, nodes[b].cmd.no)
               PROVE  /\ nodes[b].reqid = log'[b][nodes[b].cmd.no].req
                      /\ Clearing(b)' => send'.reqid = log'[b][nodes[b].cmd.no].req
  BY AskNodNext
<1>2. /\ nodes[b].cmd.no \in DOMAIN log[b] /\ nodes[b].cmd.no <= Len(log[b])
      /\ nodes[b].cmd.no \in Nat
  BY <1>1, FreshFacts, CmdFacts
<1>3. K!InStep(b, nodes[b].cmd.no)
  BY <1>1, <1>2, InStepKept
<1> QED
  BY <1>1, <1>2, <1>3 DEF AskNod, Grows

\* AskDev after a step, without a primed InStep.
LEMMA AskDevNext ==
  ASSUME \A q \in Asked' :
           InStepNext(q.call.app, q.call.no) => q.req = log'[q.call.app][q.call.no].req
  PROVE  AskDev'
BY DEF AskDev, K!InStep, InStepNext

\* A request the device was asked stays that of its call.
LEMMA AskDevKept ==
  ASSUME KindsInv, OrderInv, AskDev, \A b \in Apps : Grows(b), NEW q \in Asked,
         InStepNext(q.call.app, q.call.no)
  PROVE  q.req = log'[q.call.app][q.call.no].req
<1>1. /\ q.call.app \in Apps /\ q.call.no \in Nat /\ q.call.no \in DOMAIN log[q.call.app]
      /\ q.call.no <= Len(log[q.call.app])
  BY AskedFacts
<1>2. K!InStep(q.call.app, q.call.no)
  BY <1>1, InStepKept
<1> QED
  BY <1>1, <1>2 DEF AskDev, Grows

\* The device stays in step while it is asked nothing new.
LEMMA AskDevSame ==
  ASSUME KindsInv, OrderInv, AskDev, \A b \in Apps : Grows(b), Asked' \subseteq Asked
  PROVE  AskDev'
BY AskDevKept, AskDevNext

\* An answer that was given stays the one of its call.
LEMMA AnswersKept ==
  ASSUME KindsInv, AnswersInv, NEW b \in Apps, Grows(b), NEW i \in K!Answered(b),
         log'[b][i] = log[b][i], InStepNext(b, i)
  PROVE  log'[b][i].got = [req |-> log'[b][i].req, call |-> [app |-> b, no |-> i]]
<1>1. i \in Nat /\ i <= Len(log[b])
  BY Typed DEF K!Answered
<1>2. K!InStep(b, i)
  BY <1>1, InStepKept
<1> QED
  BY <1>2 DEF AnswersInv

\* AnswersInv after a step, without a primed InStep.
LEMMA AnswersNext ==
  ASSUME \A b \in Apps : \A i \in K!Answered(b)' : InStepNext(b, i) =>
           log'[b][i].got = [req |-> log'[b][i].req, call |-> [app |-> b, no |-> i]]
  PROVE  AnswersInv'
BY DEF AnswersInv, K!InStep, InStepNext

\* A call keeps IoctlInv.
LEMMA CallStep ==
  ASSUME IoctlInv, NEW a \in Apps, K!Call(a)
  PROVE  IoctlInv'
<1>1. KindsInv /\ OrderInv /\ OnceInv /\ IdsInv /\ AskInv /\ FlowInv /\ AnswersInv
  BY DEF IoctlInv
<1>2. PICK r \in Reqs, n \in 1 .. MaxCalls : Issued(a, r, n)
  BY <1>1, CallEffect
<1>3. UNCHANGED <<rpcRx, nodes, msgid, send, recv, down, up, exec, calling>>
  BY DEF K!Call, K!daemon, K!device
<1> DEFINE p == [req |-> r, call |-> [app |-> a, no |-> n]]
<1>4. /\ p \in K!Request /\ p.call.app = a /\ p.call.no = n /\ p.req = r
      /\ rpcTx'[a] = Append(rpcTx[a], p)
  BY <1>2 DEF Issued
<1> HIDE DEF p
<1>5. /\ Len(rpcTx[a]) \in Nat /\ DOMAIN rpcTx[a] = 1 .. Len(rpcTx[a])
      /\ DOMAIN rpcTx'[a] = 1 .. Len(rpcTx[a]) + 1
      /\ Len(rpcTx'[a]) = Len(rpcTx[a]) + 1
      /\ \A k \in 1 .. Len(rpcTx[a]) : rpcTx'[a][k] = rpcTx[a][k]
      /\ rpcTx'[a][Len(rpcTx[a]) + 1] = p
  BY <1>1, <1>4, Typed, AppendFacts
<1>6. /\ n \in Nat \ {0} /\ n = Len(log[a]) + 1 /\ DOMAIN log[a] = 1 .. n - 1
      /\ DOMAIN log'[a] = 1 .. n /\ \A i \in 1 .. n - 1 : log'[a][i] = log[a][i]
      /\ log'[a][n].req = r /\ log'[a][n].got = K!Outcome("pending") /\ ~ K!Waiting(a)
      /\ Len(log'[a]) = n
  <2>1. /\ n \in Nat \ {0} /\ n = Len(log[a]) + 1 /\ ~ K!Waiting(a)
        /\ DOMAIN log'[a] = 1 .. n /\ Len(log'[a]) = n
        /\ \A i \in 1 .. n - 1 : log'[a][i] = log[a][i]
    BY <1>2, CallsAssumption DEF Issued
  <2>2. log'[a][n].req = r /\ log'[a][n].got = K!Outcome("pending")
    BY <1>2 DEF Issued
  <2>3. DOMAIN log[a] = 1 .. n - 1
    <3>1. log[a] \in Seq(Logged) /\ Len(log[a]) \in Nat /\ DOMAIN log[a] = 1 .. Len(log[a])
      BY <1>1, Typed
    <3> QED
      BY <2>1, <3>1
  <2> QED
    BY <2>1, <2>2, <2>3
<1>8. \A b \in Apps : b # a => log'[b] = log[b] /\ ses'[b] = ses[b] /\ rpcTx'[b] = rpcTx[b]
  BY <1>2 DEF Issued
<1>7. \A b \in Apps : Grows(b)
  <2>1. Grows(a)
    BY <1>3, <1>6 DEF Grows
  <2>2. ASSUME NEW b \in Apps, b # a PROVE Grows(b)
    <3>1. log'[b] = log[b] /\ calling' = calling
      BY <1>3, <1>8, <2>2
    <3> QED
      BY <1>1, <3>1, Typed DEF Grows
  <2> QED
    BY <2>1, <2>2
<1>9. /\ ses'[a].sta = ses[a].sta /\ ses'[a].rx = ses[a].rx /\ ~ ses'[a].wakeup_set
  BY <1>2 DEF Issued
<1>10. KindsInv'
  <2>1. ASSUME NEW i \in DOMAIN log[a] PROVE log[a][i].got # K!Outcome("pending")
    BY <1>1, <1>6, <2>1, Typed DEF KindsInv, ClientInv, K!Waiting, K!Last
  <2>2. \A i \in DOMAIN log'[a] : log'[a][i].got = K!Outcome("pending") => i = Len(log'[a])
    BY <1>6, <2>1
  <2>3. ClientInv'
    <3>1. log' \in [Apps -> Seq(Logged)] /\ ses' \in [Apps -> Ses]
      BY <1>2 DEF Issued
    <3>2. \A b \in Apps : ses'[b].wakeup_set \/ ses'[b].rx = "wake" => ses'[b].sta \in K!Request
      BY <1>1, <1>8, <1>9 DEF KindsInv, ClientInv
    <3>3. \A b \in Apps : \A i \in DOMAIN log'[b] :
            log'[b][i].got = K!Outcome("pending") => i = Len(log'[b])
      BY <1>1, <1>8, <2>2 DEF KindsInv, ClientInv
    <3> QED
      BY <3>1, <3>2, <3>3 DEF ClientInv
  <2>4. WiresInv'
    BY <1>1, <1>2, <1>3 DEF KindsInv, WiresInv, Issued, Frames
  <2>5. NodesInv' /\ ThreadsInv'
    BY <1>1, <1>3 DEF KindsInv, NodesInv, ThreadsInv, Nod
  <2> QED
    BY <2>3, <2>4, <2>5 DEF KindsInv
<1>11. OrderInv'
  <2>1. Queued(a)'
    <3>1. ASSUME NEW i \in 1 .. Len(rpcTx[a])
          PROVE  /\ rpcTx[a][i].call.app = a /\ rpcTx[a][i].call.no \in 1 .. n - 1
                 /\ rpcTx[a][i].req = log[a][rpcTx[a][i].call.no].req
                 /\ nodes[a].cmd.no < rpcTx[a][i].call.no
                 /\ \A j \in 1 .. Len(rpcTx[a]) : i < j => rpcTx[a][i].call.no < rpcTx[a][j].call.no
      <4>1. rpcTx[a][i].call \in K!Calls /\ rpcTx[a][i].call.no \in Nat \ {0}
        BY <1>1, <1>5, Typed, Sorts
      <4>2. Len(log[a]) = n - 1
        BY <1>6, Typed, <1>1
      <4>3. /\ rpcTx[a][i].call.app = a /\ rpcTx[a][i].call.no <= Len(log[a])
            /\ rpcTx[a][i].req = log[a][rpcTx[a][i].call.no].req
            /\ nodes[a].cmd.no < rpcTx[a][i].call.no
            /\ \A j \in DOMAIN rpcTx[a] : i < j => rpcTx[a][i].call.no < rpcTx[a][j].call.no
        BY <1>1, <1>5 DEF OrderInv, Queued
      <4>4. n \in Nat
        BY <1>6
      <4>5. rpcTx[a][i].call.no \in 1 .. n - 1
        BY <4>1, <4>2, <4>3, <4>4
      <4> QED
        BY <1>5, <4>3, <4>5
    <3>2. nodes[a].cmd.no < n
      BY <1>1, <1>6, Typed DEF OrderInv
    <3>3. ASSUME NEW i \in 1 .. Len(rpcTx[a]) + 1
          PROVE  /\ rpcTx'[a][i].call.app = a /\ rpcTx'[a][i].call.no <= n
                 /\ rpcTx'[a][i].req = log'[a][rpcTx'[a][i].call.no].req
                 /\ nodes[a].cmd.no < rpcTx'[a][i].call.no
      <4>1. CASE i = Len(rpcTx[a]) + 1
        BY <1>4, <1>5, <1>6, <3>2, <4>1
      <4>2. CASE i # Len(rpcTx[a]) + 1
        <5>1. i \in 1 .. Len(rpcTx[a]) /\ rpcTx'[a][i] = rpcTx[a][i]
          BY <1>5, <4>2
        <5>2. rpcTx[a][i].call.no \in 1 .. n - 1 /\ rpcTx[a][i].call.no <= n
          BY <1>6, <3>1, <5>1
        <5> QED
          BY <1>6, <3>1, <5>1, <5>2
      <4> QED
        BY <4>1, <4>2
    <3>4. ASSUME NEW i \in 1 .. Len(rpcTx[a]) + 1, NEW j \in 1 .. Len(rpcTx[a]) + 1, i < j
          PROVE  rpcTx'[a][i].call.no < rpcTx'[a][j].call.no
      BY <1>4, <1>5, <1>6, <3>1, <3>4
    <3> QED
      BY <1>3, <1>5, <1>6, <3>3, <3>4 DEF Queued
  <2>2. \A b \in Apps : b # a => Queued(b)'
    BY <1>1, <1>3, <1>8 DEF OrderInv, Queued
  <2>3. \A b \in Apps : nodes'[b].cmd.no <= Len(log'[b])
    BY <1>1, <1>3, <1>6, <1>8, Typed DEF OrderInv
  <2>4. \A q \in Asked' : Sent(q)'
    BY <1>1, <1>3 DEF OrderInv, Asked, Sent, Fresh, Clearing
  <2> QED
    BY <1>1, <1>3, <2>1, <2>2, <2>3, <2>4 DEF OrderInv
<1>12. OnceInv'
  BY <1>1, <1>3 DEF OnceInv, K!AtMostOnce, Distinct
<1>13. \A b \in Apps : K!Answered(b)' = K!Answered(b)
  <2>1. K!Answered(a)' = K!Answered(a)
    BY <1>6 DEF K!Answered
  <2> QED
    BY <1>8, <2>1 DEF K!Answered
<1>14. IdsInv'
  <2>1. \A b \in Apps : \A i \in K!Answered(b) : log'[b][i] = log[b][i]
    BY <1>6, <1>8 DEF K!Answered
  <2>2. \A b \in Apps : ses'[b].sta = ses[b].sta
    BY <1>8, <1>9
  <2> QED
    BY <1>1, <1>3, <1>13, <2>1, <2>2 DEF IdsInv
<1>15. ASSUME InStepNext(a, n) PROVE Calm(a) /\ Rest(a)
  BY <1>1, <1>3, <1>6, <1>15, Typed DEF InStepNext, Calm, FlowInv, Flow
<1>16. AskInv'
  <2>1. ASSUME NEW k \in DOMAIN rpcTx'[a], InStepNext(a, rpcTx'[a][k].call.no)
        PROVE  k = 1 /\ ~ Fresh(a)'
    <3>1. Fresh(a)' = Fresh(a)
      BY <1>3 DEF Fresh, Clearing
    <3>2. CASE k \in DOMAIN rpcTx[a] /\ rpcTx'[a][k] = rpcTx[a][k]
      BY <1>1, <1>7, <2>1, <3>1, <3>2, AskTxKept DEF AskInv
    <3>3. CASE k = Len(rpcTx[a]) + 1
      <4>1. Rest(a)
        BY <1>4, <1>5, <1>15, <2>1, <3>3
      <4> QED
        BY <1>1, <3>1, <3>3, <4>1, Typed DEF Rest
    <3> QED
      BY <1>5, <2>1, <3>2, <3>3
  <2>2. \A b \in Apps : AskTx(b)'
    <3>1. AskTx(a)'
      BY <2>1, AskTxNext
    <3>2. ASSUME NEW b \in Apps, b # a PROVE AskTx(b)'
      BY <1>1, <1>3, <1>7, <1>8, <3>2, AskTxSame DEF AskInv, Fresh, Clearing
    <3> QED
      BY <3>1, <3>2
  <2>3. ASSUME NEW b \in Apps PROVE AskNod(b)'
    BY <1>1, <1>3, <1>7, AskNodSame DEF AskInv, Fresh, Clearing
  <2>4. AskDev'
    BY <1>1, <1>3, <1>7, AskDevSame DEF AskInv, Asked
  <2> QED
    BY <2>2, <2>3, <2>4 DEF AskInv
<1>17. FlowInv'
  <2>1. ASSUME NEW b \in Apps, b # a PROVE Flow(b)'
    <3>1. SameFlow(b)
      BY <1>3, <1>8, <2>1 DEF SameFlow, Clearing, Receiving
    <3> QED
      BY <1>1, <2>1, <3>1, FlowKept DEF FlowInv
  <2>2. ASSUME Calm(a)' PROVE AtOne(a)' /\ Own(a)' /\ K!Waiting(a)'
    <3>1. Rest(a)
      <4>1. InStepNext(a, n)
        BY <1>6, <2>2 DEF Calm, InStepNext
      <4> QED
        BY <1>15, <4>1
    <3>2. Only(rpcTx'[a], p) /\ p = Current(a)'
      BY <1>1, <1>5, <1>6, <3>1, Typed DEF Only, Rest, Current, p
    <3>3. /\ ~ Fresh(a)' /\ Of(down', a) = {} /\ Of(up', a) = {} /\ ~ Receiving(a)'
          /\ rpcRx'[a] = <<>> /\ ~ Waking(a)'
      BY <1>3, <1>9, <3>1 DEF Rest, Fresh, Clearing, Receiving, Waking
    <3>4. K!Waiting(a)'
      BY <1>6 DEF K!Waiting, K!Last
    <3>5. AtOne(a)'
      BY <3>3 DEF AtOne, Waking, Of
    <3>6. Own(a)'
      BY <3>2, <3>3 DEF Own, Of
    <3> QED
      BY <3>4, <3>5, <3>6
  <2> QED
    BY <2>1, <2>2 DEF FlowInv, Flow
<1>18. AnswersInv'
  <2>1. \A b \in Apps : \A i \in K!Answered(b) : log'[b][i] = log[b][i]
    BY <1>6, <1>8 DEF K!Answered
  <2> QED
    BY <1>1, <1>7, <1>13, <2>1, AnswersKept, AnswersNext
<1> QED
  BY <1>10, <1>11, <1>12, <1>14, <1>16, <1>17, <1>18 DEF IoctlInv

\* A return keeps IoctlInv.
LEMMA ReturnStep ==
  ASSUME IoctlInv, NEW a \in Apps, NEW n \in Nat \ {0}, NEW result, Returned(a, result, n),
         UNCHANGED <<rpcTx, rpcRx, nodes, msgid, send, recv, down, up, exec, calling>>,
         \/ result = K!Outcome("timeout")
         \/ ses[a].wakeup_set /\ result = ses[a].sta /\ result \in K!Request
  PROVE  IoctlInv'
<1>1. KindsInv /\ OrderInv /\ OnceInv /\ IdsInv /\ AskInv /\ FlowInv /\ AnswersInv
  BY DEF IoctlInv
<1>2. UNCHANGED <<rpcTx, rpcRx, nodes, msgid, send, recv, down, up, exec, calling>>
  OBVIOUS
<1>3. /\ n = Len(log[a]) /\ n \in DOMAIN log[a] /\ DOMAIN log[a] = 1 .. n
      /\ log[a][n].got = K!Outcome("pending")
      /\ Len(log'[a]) = n /\ DOMAIN log'[a] = 1 .. n
      /\ \A i \in 1 .. n - 1 : log'[a][i] = log[a][i]
      /\ log'[a][n].req = log[a][n].req /\ log'[a][n].got = result
      /\ ses'[a].sta = ses[a].sta /\ ses'[a].rx = ses[a].rx /\ ~ ses'[a].wakeup_set
  BY <1>1, Typed DEF Returned
<1>4. \A b \in Apps : b # a => log'[b] = log[b] /\ ses'[b] = ses[b]
  BY DEF Returned
<1>5. \A b \in Apps : Grows(b)
  <2>1. Grows(a)
    BY <1>2, <1>3 DEF Grows
  <2>2. ASSUME NEW b \in Apps, b # a PROVE Grows(b)
    <3>1. log'[b] = log[b] /\ calling' = calling
      BY <1>2, <1>4, <2>2
    <3> QED
      BY <1>1, <3>1, Typed DEF Grows
  <2> QED
    BY <2>1, <2>2
<1>6. result # K!Outcome("pending")
  BY Sorts
<1>7. \A b \in Apps : Fresh(b)' = Fresh(b) /\ Clearing(b)' = Clearing(b)
  BY <1>2 DEF Fresh, Clearing
<1>8. KindsInv'
  <2>1. ClientInv'
    <3>1. log' \in [Apps -> Seq(Logged)] /\ ses' \in [Apps -> Ses]
      BY DEF Returned
    <3>2. \A b \in Apps : ses'[b].wakeup_set \/ ses'[b].rx = "wake" => ses'[b].sta \in K!Request
      BY <1>1, <1>3, <1>4 DEF KindsInv, ClientInv
    <3>3. \A i \in DOMAIN log'[a] : log'[a][i].got = K!Outcome("pending") => i = Len(log'[a])
      <4>1. \A i \in 1 .. n - 1 : log[a][i].got # K!Outcome("pending")
        BY <1>1, <1>3 DEF KindsInv, ClientInv
      <4> QED
        BY <1>3, <1>6, <4>1
    <3>4. \A b \in Apps : \A i \in DOMAIN log'[b] :
            log'[b][i].got = K!Outcome("pending") => i = Len(log'[b])
      BY <1>1, <1>4, <3>3 DEF KindsInv, ClientInv
    <3> QED
      BY <3>1, <3>2, <3>4 DEF ClientInv
  <2>2. WiresInv' /\ NodesInv' /\ ThreadsInv'
    BY <1>1, <1>2 DEF KindsInv, WiresInv, NodesInv, ThreadsInv, Nod, Frames
  <2> QED
    BY <2>1, <2>2 DEF KindsInv
<1>9. OrderInv'
  <2>1. Queued(a)'
    <3>1. ASSUME NEW i \in DOMAIN rpcTx[a]
          PROVE  log'[a][rpcTx[a][i].call.no].req = log[a][rpcTx[a][i].call.no].req
      <4>1. rpcTx[a][i].call.no \in 1 .. n
        BY <1>1, <1>3, Typed, Sorts DEF OrderInv, Queued
      <4> QED
        BY <1>3, <4>1
    <3> QED
      BY <1>1, <1>2, <1>3, <3>1 DEF OrderInv, Queued
  <2>2. \A b \in Apps : b # a => Queued(b)'
    BY <1>1, <1>2, <1>4 DEF OrderInv, Queued
  <2>3. \A b \in Apps : nodes'[b].cmd.no <= Len(log'[b])
    BY <1>1, <1>2, <1>3, <1>4 DEF OrderInv
  <2>4. \A q \in Asked' : Sent(q)'
    BY <1>1, <1>2 DEF OrderInv, Asked, Sent, Fresh, Clearing
  <2> QED
    BY <1>1, <1>2, <2>1, <2>2, <2>3, <2>4 DEF OrderInv
<1>10. OnceInv'
  BY <1>1, <1>2 DEF OnceInv, K!AtMostOnce, Distinct
<1>11. /\ \A b \in Apps : b # a => K!Answered(b)' = K!Answered(b)
       /\ K!Answered(a)' = K!Answered(a) \cup (IF result = K!Outcome("timeout") THEN {} ELSE {n})
       /\ n \notin K!Answered(a)
  <2>1. K!Answered(a)' = K!Answered(a) \cup (IF result = K!Outcome("timeout") THEN {} ELSE {n})
    BY <1>3, <1>6 DEF K!Answered
  <2> QED
    BY <1>3, <1>4, <2>1 DEF K!Answered
<1>12. \A b \in Apps : \A i \in K!Answered(b) : log'[b][i] = log[b][i]
  BY <1>3, <1>4, <1>11 DEF K!Answered
<1>13. IdsInv'
  <2>1. \A b \in Apps : ses'[b].sta = ses[b].sta
    BY <1>3, <1>4
  <2>2. ASSUME calling.unset = {0}, NEW b \in Apps, NEW i \in K!Answered(b)'
        PROVE  log'[b][i].got.call.app = b
    <3>1. CASE i \in K!Answered(b)
      BY <1>1, <1>12, <2>2, <3>1 DEF IdsInv
    <3>2. CASE i \notin K!Answered(b)
      <4>1. b = a /\ i = n /\ result # K!Outcome("timeout")
        BY <1>11, <2>2, <3>2
      <4>2. result = ses[a].sta /\ ses[a].sta # K!NoPack
        BY <4>1, Sorts
      <4> QED
        BY <1>1, <1>3, <2>2, <4>1, <4>2 DEF IdsInv
    <3> QED
      BY <3>1, <3>2
  <2> QED
    BY <1>1, <1>2, <2>1, <2>2 DEF IdsInv
<1>14. AskInv'
  <2>1. ASSUME NEW b \in Apps PROVE AskTx(b)' /\ AskNod(b)'
    BY <1>1, <1>2, <1>5, <1>7, AskTxSame, AskNodSame DEF AskInv
  <2>2. AskDev'
    BY <1>1, <1>2, <1>5, AskDevSame DEF AskInv, Asked
  <2> QED
    BY <2>1, <2>2 DEF AskInv
<1>15. K!Waiting(a) /\ ~ K!Waiting(a)'
  <2>1. log[a] # <<>>
    BY <1>1, <1>3, Typed
  <2> QED
    BY <1>3, <1>6, <2>1 DEF K!Waiting, K!Last
<1>16. FlowInv'
  <2>1. ASSUME NEW b \in Apps, b # a PROVE Flow(b)'
    <3>1. SameFlow(b)
      BY <1>2, <1>4, <2>1 DEF SameFlow, Clearing, Receiving
    <3> QED
      BY <1>1, <2>1, <3>1, FlowKept DEF FlowInv
  <2>2. ASSUME Calm(a)' PROVE AtOne(a)' /\ Own(a)' /\ Rest(a)'
    <3>1. ses[a].wakeup_set
      BY <1>3, <2>2 DEF Calm
    <3>2. Calm(a)
      <4>1. \A j \in 1 .. n : log[a][j].got # K!Outcome("timeout")
        BY <1>3, <2>2, Sorts DEF Calm
      <4> QED
        BY <1>2, <1>3, <2>2, <4>1 DEF Calm
    <3>3. AtOne(a) /\ Waking(a)
      BY <1>1, <3>1, <3>2 DEF FlowInv, Flow, Waking
    <3>4. /\ rpcTx[a] = <<>> /\ ~ Fresh(a) /\ Of(down, a) = {} /\ Of(up, a) = {}
          /\ ~ Receiving(a) /\ rpcRx[a] = <<>> /\ ses[a].rx # "wake"
      BY <3>1, <3>3 DEF AtOne
    <3>5. /\ rpcTx'[a] = <<>> /\ ~ Fresh(a)' /\ Of(down, a)' = {} /\ Of(up, a)' = {}
          /\ ~ Receiving(a)' /\ rpcRx'[a] = <<>> /\ ~ Waking(a)'
      BY <1>2, <1>3, <1>7, <3>4 DEF Of, Receiving, Waking
    <3> QED
      BY <3>5 DEF AtOne, Own, Rest, Waking
  <2> QED
    BY <2>1, <2>2 DEF FlowInv, Flow
<1>17. AnswersInv'
  <2>1. ASSUME n \in K!Answered(a)', InStepNext(a, n)
        PROVE  log'[a][n].got = [req |-> log'[a][n].req, call |-> [app |-> a, no |-> n]]
    <3>1. result # K!Outcome("timeout") /\ ses[a].wakeup_set /\ result = ses[a].sta
      BY <1>11, <2>1
    <3>2. Calm(a)
      <4>1. K!InStep(a, n)
        BY <1>3, <1>5, <2>1, InStepKept
      <4> QED
        BY <1>1, <1>3, <4>1, Sorts, CalmStep
    <3>3. Own(a) /\ Waking(a)
      BY <1>1, <3>1, <3>2 DEF FlowInv, Flow, Waking
    <3>4. ses[a].sta = Current(a)
      BY <3>3 DEF Own
    <3> QED
      BY <1>3, <3>1, <3>4 DEF Current
  <2>2. ASSUME NEW b \in Apps, NEW i \in K!Answered(b)', InStepNext(b, i)
        PROVE  log'[b][i].got = [req |-> log'[b][i].req, call |-> [app |-> b, no |-> i]]
    <3>1. CASE i \in K!Answered(b)
      BY <1>1, <1>5, <1>12, <2>2, <3>1, AnswersKept
    <3>2. CASE i \notin K!Answered(b)
      BY <1>11, <2>1, <2>2, <3>2
    <3> QED
      BY <3>1, <3>2
  <2> QED
    BY <2>2, AnswersNext
<1> QED
  BY <1>8, <1>9, <1>10, <1>13, <1>14, <1>16, <1>17 DEF IoctlInv

\* The waking of a call keeps IoctlInv.
LEMMA WakeStep ==
  ASSUME IoctlInv, NEW a \in Apps, K!Wake(a)
  PROVE  IoctlInv'
<1>1. KindsInv
  BY DEF IoctlInv
<1>2. /\ K!Waiting(a) /\ ses[a].wakeup_set /\ K!Return(a, ses[a].sta)
      /\ ses' = [ses EXCEPT ![a].wakeup_set = FALSE]
      /\ UNCHANGED <<rpcTx, rpcRx, nodes, msgid, send, recv, down, up, exec, calling>>
  BY DEF K!Wake, K!daemon, K!device
<1>3. ses[a].sta \in K!Request
  BY <1>1, <1>2 DEF KindsInv, ClientInv
<1>4. PICK n \in Nat \ {0} : Returned(a, ses[a].sta, n)
  BY <1>1, <1>2, <1>3, ReturnEffect
<1> QED
  BY <1>2, <1>3, <1>4, ReturnStep

\* A timeout keeps IoctlInv.
LEMMA TimeoutStep ==
  ASSUME IoctlInv, NEW a \in Apps, K!Timeout(a)
  PROVE  IoctlInv'
<1>1. KindsInv
  BY DEF IoctlInv
<1>2. /\ K!Waiting(a) /\ K!Return(a, K!Outcome("timeout"))
      /\ ses' = [ses EXCEPT ![a].wakeup_set = FALSE]
      /\ UNCHANGED <<rpcTx, rpcRx, nodes, msgid, send, recv, down, up, exec, calling>>
  BY DEF K!Timeout, K!daemon, K!device
<1>3. PICK n \in Nat \ {0} : Returned(a, K!Outcome("timeout"), n)
  BY <1>1, <1>2, ReturnEffect
<1> QED
  BY <1>2, <1>3, ReturnStep

\* A read of the read thread keeps IoctlInv.
LEMMA ClientRecvStep ==
  ASSUME IoctlInv, NEW a \in Apps, K!ClientRecv(a)
  PROVE  IoctlInv'
<1>1. KindsInv /\ OrderInv /\ OnceInv /\ IdsInv /\ AskInv /\ FlowInv /\ AnswersInv
  BY DEF IoctlInv
<1>2. PICK p \in K!Request : Received(a, p)
  BY <1>1, ReceiveEffect
<1>3. UNCHANGED <<log, rpcTx, nodes, msgid, send, recv, down, up, exec, calling>>
  BY DEF K!ClientRecv, K!daemon, K!device
<1>4. /\ \A b \in Apps : b # a => ses'[b] = ses[b] /\ rpcRx'[b] = rpcRx[b]
      /\ ses'[a].sta = p /\ ses'[a].rx = "wake" /\ ses'[a].wakeup_set = ses[a].wakeup_set
      /\ ses[a].rx = "read" /\ 1 \in DOMAIN rpcRx[a] /\ p = rpcRx[a][1] /\ rpcRx[a] # <<>>
      /\ rpcRx'[a] = Tail(rpcRx[a])
  BY <1>2 DEF Received
<1>5. /\ Len(rpcRx'[a]) = Len(rpcRx[a]) - 1 /\ Len(rpcRx[a]) \in Nat \ {0}
      /\ \A k \in DOMAIN rpcRx'[a] : k + 1 \in DOMAIN rpcRx[a] /\ rpcRx'[a][k] = rpcRx[a][k + 1]
      /\ rpcRx'[a] \in Seq(K!Request)
  BY <1>1, <1>4, Typed, QueueFacts
<1>6. \A b \in Apps : Grows(b)
  BY <1>1, <1>3, Untouched
<1>7. /\ \A b \in Apps : Fresh(b)' = Fresh(b) /\ Clearing(b)' = Clearing(b)
      /\ Asked' = Asked
  BY <1>3 DEF Fresh, Clearing, Asked
<1>8. KindsInv'
  <2>1. ClientInv'
    BY <1>1, <1>2, <1>3, <1>4 DEF KindsInv, ClientInv, Received
  <2>2. WiresInv'
    BY <1>1, <1>2, <1>3 DEF KindsInv, WiresInv, Received, Frames
  <2>3. NodesInv' /\ ThreadsInv'
    BY <1>1, <1>3 DEF KindsInv, NodesInv, ThreadsInv, Nod
  <2> QED
    BY <2>1, <2>2, <2>3 DEF KindsInv
<1>9. OrderInv'
  BY <1>1, <1>3 DEF OrderInv, Queued, Asked, Sent, Fresh, Clearing
<1>10. OnceInv'
  BY <1>1, <1>3 DEF OnceInv, K!AtMostOnce, Distinct
<1>11. IdsInv'
  <2>1. SUFFICES ASSUME calling.unset = {0}, NEW b \in Apps
                 PROVE  /\ \A i \in DOMAIN rpcRx'[b] : rpcRx'[b][i].call.app = b
                        /\ ses'[b].sta # K!NoPack => ses'[b].sta.call.app = b
    BY <1>1, <1>3 DEF IdsInv, K!Answered
  <2>2. CASE b = a
    <3>1. \A i \in DOMAIN rpcRx[a] : rpcRx[a][i].call.app = a
      BY <1>1, <2>1 DEF IdsInv
    <3> QED
      BY <1>4, <1>5, <2>2, <3>1
  <2>3. CASE b # a
    BY <1>1, <1>4, <2>1, <2>3 DEF IdsInv
  <2> QED
    BY <2>2, <2>3
<1>12. AskInv'
  BY <1>1, <1>3, <1>6, <1>7, AskTxSame, AskNodSame, AskDevSame DEF AskInv
<1>13. FlowInv'
  <2>1. ASSUME NEW b \in Apps, b # a PROVE Flow(b)'
    <3>1. SameFlow(b)
      BY <1>3, <1>4, <2>1 DEF SameFlow, Clearing, Receiving
    <3> QED
      BY <1>1, <2>1, <3>1, FlowKept DEF FlowInv
  <2>2. ASSUME Calm(a)' PROVE AtOne(a)' /\ Own(a)' /\ K!Waiting(a)'
    <3>1. Calm(a)
      BY <1>3, <2>2 DEF Calm
    <3>2. AtOne(a) /\ Own(a) /\ K!Waiting(a)
      BY <1>1, <1>4, <3>1 DEF FlowInv, Flow, Rest
    <3>3. /\ rpcTx[a] = <<>> /\ ~ Fresh(a) /\ Of(down, a) = {} /\ Of(up, a) = {}
          /\ ~ Receiving(a) /\ ~ Waking(a) /\ p = Current(a) /\ Len(rpcRx[a]) = 1
      BY <1>4, <3>2 DEF AtOne, Own, Only
    <3>4. rpcRx'[a] = <<>>
      BY <1>5, <3>3, Elements
    <3>5. /\ rpcTx'[a] = <<>> /\ ~ Fresh(a)' /\ Of(down, a)' = {} /\ Of(up, a)' = {}
          /\ ~ Receiving(a)' /\ ~ ses'[a].wakeup_set
          /\ ses'[a].sta = Current(a)'
      BY <1>3, <1>4, <1>7, <3>3 DEF Of, Receiving, Waking, Current
    <3>6. AtOne(a)'
      BY <3>4, <3>5 DEF AtOne
    <3>7. Own(a)'
      BY <3>4, <3>5 DEF Own
    <3>8. K!Waiting(a)'
      BY <1>3, <3>2 DEF K!Waiting, K!Last
    <3> QED
      BY <3>6, <3>7, <3>8
  <2> QED
    BY <2>1, <2>2 DEF FlowInv, Flow
<1>14. AnswersInv'
  BY <1>1, <1>3 DEF AnswersInv, K!Answered, K!InStep
<1> QED
  BY <1>8, <1>9, <1>10, <1>11, <1>12, <1>13, <1>14 DEF IoctlInv

\* The wakeup by the read thread keeps IoctlInv.
LEMMA ClientWakeStep ==
  ASSUME IoctlInv, NEW a \in Apps, K!ClientWake(a)
  PROVE  IoctlInv'
<1>1. KindsInv /\ OrderInv /\ OnceInv /\ IdsInv /\ AskInv /\ FlowInv /\ AnswersInv
  BY DEF IoctlInv
<1>2. UNCHANGED <<log, rpcTx, rpcRx, nodes, msgid, send, recv, down, up, exec, calling>>
  BY DEF K!ClientWake, K!daemon, K!device
<1>3. /\ ses' \in [Apps -> Ses] /\ \A b \in Apps : b # a => ses'[b] = ses[b]
      /\ ses[a].rx = "wake" /\ ses'[a].rx = "read" /\ ses'[a].wakeup_set
      /\ ses'[a].sta = ses[a].sta
  BY <1>1 DEF KindsInv, ClientInv, K!ClientWake, Ses
<1>4. \A b \in Apps : Grows(b)
  BY <1>1, <1>2, Untouched
<1>5. /\ \A b \in Apps : Fresh(b)' = Fresh(b) /\ Clearing(b)' = Clearing(b)
      /\ Asked' = Asked
  BY <1>2 DEF Fresh, Clearing, Asked
<1>6. KindsInv'
  <2>1. ClientInv'
    BY <1>1, <1>2, <1>3 DEF KindsInv, ClientInv
  <2>2. WiresInv' /\ NodesInv' /\ ThreadsInv'
    BY <1>1, <1>2 DEF KindsInv, WiresInv, NodesInv, ThreadsInv, Nod, Frames
  <2> QED
    BY <2>1, <2>2 DEF KindsInv
<1>7. OrderInv'
  BY <1>1, <1>2 DEF OrderInv, Queued, Asked, Sent, Fresh, Clearing
<1>8. OnceInv'
  BY <1>1, <1>2 DEF OnceInv, K!AtMostOnce, Distinct
<1>9. IdsInv'
  <2>1. \A b \in Apps : ses'[b].sta = ses[b].sta
    BY <1>3
  <2> QED
    BY <1>1, <1>2, <2>1 DEF IdsInv, K!Answered
<1>10. AskInv'
  BY <1>1, <1>2, <1>4, <1>5, AskTxSame, AskNodSame, AskDevSame DEF AskInv
<1>11. FlowInv'
  <2>1. ASSUME NEW b \in Apps, b # a PROVE Flow(b)'
    <3>1. SameFlow(b)
      BY <1>2, <1>3, <2>1 DEF SameFlow, Clearing, Receiving
    <3> QED
      BY <1>1, <2>1, <3>1, FlowKept DEF FlowInv
  <2>2. ASSUME Calm(a)' PROVE AtOne(a)' /\ Own(a)' /\ K!Waiting(a)'
    <3>1. Calm(a)
      BY <1>2, <2>2 DEF Calm
    <3>2. AtOne(a) /\ Own(a) /\ K!Waiting(a)
      BY <1>1, <1>3, <3>1 DEF FlowInv, Flow, Rest, Waking
    <3>3. /\ rpcTx[a] = <<>> /\ ~ Fresh(a) /\ Of(down, a) = {} /\ Of(up, a) = {}
          /\ ~ Receiving(a) /\ rpcRx[a] = <<>> /\ ses[a].sta = Current(a)
      BY <1>3, <3>2 DEF AtOne, Own, Waking
    <3>4. /\ rpcTx'[a] = <<>> /\ ~ Fresh(a)' /\ Of(down, a)' = {} /\ Of(up, a)' = {}
          /\ ~ Receiving(a)' /\ rpcRx'[a] = <<>> /\ ses'[a].sta = Current(a)'
      BY <1>2, <1>3, <1>5, <3>3 DEF Of, Receiving, Current
    <3>5. AtOne(a)'
      BY <1>3, <3>4 DEF AtOne
    <3>6. Own(a)'
      BY <3>4 DEF Own
    <3>7. K!Waiting(a)'
      BY <1>2, <3>2 DEF K!Waiting, K!Last
    <3> QED
      BY <3>5, <3>6, <3>7
  <2> QED
    BY <2>1, <2>2 DEF FlowInv, Flow
<1>12. AnswersInv'
  BY <1>1, <1>2 DEF AnswersInv, K!Answered, K!InStep
<1> QED
  BY <1>6, <1>7, <1>8, <1>9, <1>10, <1>11, <1>12 DEF IoctlInv

\* A read of the rpc thread keeps IoctlInv.
LEMMA RpcReadStep ==
  ASSUME IoctlInv, NEW a \in Apps, K!RpcRead(a)
  PROVE  IoctlInv'
<1>1. KindsInv /\ OrderInv /\ OnceInv /\ IdsInv /\ AskInv /\ FlowInv /\ AnswersInv
  BY DEF IoctlInv
<1>2. PICK p \in K!Request : Taken(a, p)
  BY <1>1, TakeEffect
<1>3. UNCHANGED <<log, ses, rpcRx, msgid, send, recv, down, up, exec, calling>>
  BY DEF K!RpcRead, K!client, K!device
<1>4. /\ \A b \in Apps : b # a => rpcTx'[b] = rpcTx[b] /\ nodes'[b] = nodes[b]
      /\ rpcTx[a] # <<>> /\ 1 \in DOMAIN rpcTx[a] /\ p = rpcTx[a][1]
      /\ rpcTx'[a] = Tail(rpcTx[a]) /\ nodes'[a].cur_msgid = nodes[a].cur_msgid
      /\ nodes'[a].need_write /\ nodes'[a].init_flg
      /\ \/ nodes[a].need_write /\ nodes'[a] = nodes[a]
         \/ nodes[a].need_write /\ nodes'[a].cmd = p.call /\ nodes'[a].reqid = nodes[a].reqid
         \/ ~ nodes[a].need_write /\ nodes'[a].cmd = p.call /\ nodes'[a].reqid = p.req
  BY <1>2 DEF Taken
<1>5. /\ Len(rpcTx'[a]) = Len(rpcTx[a]) - 1 /\ Len(rpcTx[a]) \in Nat \ {0}
      /\ \A k \in DOMAIN rpcTx'[a] : k + 1 \in DOMAIN rpcTx[a] /\ rpcTx'[a][k] = rpcTx[a][k + 1]
      /\ rpcTx'[a] \in Seq(K!Request) /\ DOMAIN rpcTx'[a] = 1 .. Len(rpcTx'[a])
  BY <1>1, <1>4, Typed, QueueFacts, Elements
<1>6. \A b \in Apps : Grows(b)
  BY <1>1, <1>3, Untouched
<1>7. /\ \A b \in Apps : Clearing(b)' = Clearing(b) /\ (b # a => Fresh(b)' = Fresh(b))
      /\ Fresh(a)' /\ Asked' = Asked
  BY <1>3, <1>4 DEF Fresh, Clearing, Asked
<1>8. /\ p.call \in K!Calls /\ p.call.app = a /\ p.call.no \in DOMAIN log[a] /\ p.call.no \in Nat
      /\ p.call.no <= Len(log[a]) /\ p.req = log[a][p.call.no].req /\ nodes[a].cmd.no < p.call.no
      /\ p.req \in Reqs
  BY <1>1, <1>2, <1>4, Typed, Sorts DEF OrderInv, Queued
<1>9. /\ nodes'[a].cmd \in K!Calls /\ nodes'[a].cmd.app = a /\ nodes'[a].reqid \in Reqs
      /\ nodes[a].cmd.no <= nodes'[a].cmd.no /\ nodes'[a].cmd.no <= p.call.no
      /\ (~ Fresh(a) => nodes'[a].cmd = p.call /\ nodes'[a].reqid = p.req)
  <2>1. nodes[a].need_write => nodes[a].cmd \in K!Calls /\ nodes[a].reqid \in Reqs
    BY <1>1 DEF KindsInv, NodesInv
  <2>2. nodes[a].cmd.no \in Nat /\ (nodes[a].cmd \in K!Calls => nodes[a].cmd.app = a)
    BY <1>1, Typed DEF OrderInv
  <2> QED
    BY <1>4, <1>8, <2>1, <2>2 DEF Fresh
<1>10. KindsInv'
  <2>1. ClientInv'
    BY <1>1, <1>3 DEF KindsInv, ClientInv
  <2>2. WiresInv'
    BY <1>1, <1>2, <1>3 DEF KindsInv, WiresInv, Taken, Frames
  <2>3. NodesInv'
    <3>1. nodes' \in [Apps -> Nod] /\ Nod' = Nod
      BY <1>2, <1>3 DEF Taken, Nod
    <3>2. \A b \in Apps : /\ nodes'[b].init_flg = nodes'[b].need_write
                          /\ nodes'[b].need_write => nodes'[b].cmd \in K!Calls /\ nodes'[b].reqid \in Reqs
      <4>1. nodes'[a].init_flg = TRUE /\ nodes'[a].need_write = TRUE
        BY <1>4, <3>1 DEF Nod
      <4>2. ASSUME NEW b \in Apps, b # a
            PROVE  /\ nodes'[b].init_flg = nodes'[b].need_write
                   /\ nodes'[b].need_write => nodes'[b].cmd \in K!Calls /\ nodes'[b].reqid \in Reqs
        BY <1>1, <1>4, <4>2 DEF KindsInv, NodesInv
      <4> QED
        BY <1>9, <4>1, <4>2
    <3> QED
      BY <1>1, <1>3, <3>1, <3>2 DEF KindsInv, NodesInv
  <2>4. ThreadsInv'
    <3>1. send.pc = "clear" => nodes'[send.node].cmd \in K!Calls
      BY <1>1, <1>4, <1>9 DEF KindsInv, ThreadsInv
    <3>2. send.pc = "clear" => nodes'[send.node].cur_msgid = nodes[send.node].cur_msgid
      BY <1>1, <1>4 DEF KindsInv, ThreadsInv
    <3> QED
      BY <1>1, <1>3, <3>1, <3>2 DEF KindsInv, ThreadsInv
  <2> QED
    BY <2>1, <2>2, <2>3, <2>4 DEF KindsInv
<1>11. OrderInv'
  <2>1. Queued(a)'
    <3>1. ASSUME NEW i \in DOMAIN rpcTx'[a]
          PROVE  nodes'[a].cmd.no < rpcTx'[a][i].call.no
      <4>1. p.call.no < rpcTx[a][i + 1].call.no
        BY <1>1, <1>4, <1>5 DEF OrderInv, Queued
      <4>2. rpcTx[a][i + 1].call.no \in Nat /\ nodes'[a].cmd.no \in Nat
        BY <1>1, <1>5, <1>9, Typed, Sorts
      <4>3. nodes'[a].cmd.no < rpcTx[a][i + 1].call.no
        BY <1>8, <1>9, <4>1, <4>2
      <4> QED
        BY <1>5, <4>3
    <3>2. ASSUME NEW i \in DOMAIN rpcTx'[a], NEW j \in DOMAIN rpcTx'[a], i < j
          PROVE  rpcTx'[a][i].call.no < rpcTx'[a][j].call.no
      <4>1. i + 1 \in DOMAIN rpcTx[a] /\ j + 1 \in DOMAIN rpcTx[a] /\ i + 1 < j + 1
        BY <1>5, <3>2
      <4>2. rpcTx[a][i + 1].call.no < rpcTx[a][j + 1].call.no
        BY <1>1, <4>1 DEF OrderInv, Queued
      <4> QED
        BY <1>5, <4>2
    <3>3. ASSUME NEW i \in DOMAIN rpcTx'[a]
          PROVE  /\ rpcTx'[a][i].call.app = a /\ rpcTx'[a][i].call.no <= Len(log[a])
                 /\ rpcTx'[a][i].req = log[a][rpcTx'[a][i].call.no].req
      <4>1. i + 1 \in DOMAIN rpcTx[a] /\ rpcTx'[a][i] = rpcTx[a][i + 1]
        BY <1>5
      <4> QED
        BY <1>1, <4>1 DEF OrderInv, Queued
    <3> QED
      BY <1>3, <3>1, <3>2, <3>3 DEF Queued
  <2>2. ASSUME NEW b \in Apps, b # a
        PROVE  nodes'[b].cmd.no <= Len(log'[b]) /\ (nodes'[b].cmd \in K!Calls => nodes'[b].cmd.app = b)
               /\ Queued(b)'
    BY <1>1, <1>3, <1>4, <2>2 DEF OrderInv, Queued
  <2>3. nodes'[a].cmd.no <= Len(log'[a]) /\ nodes'[a].cmd.app = a
    BY <1>1, <1>3, <1>8, <1>9, Typed, Sorts
  <2>4. ASSUME NEW q \in Asked PROVE Sent(q)'
    <3>1. q.call.app \in Apps /\ q.call.no \in Nat /\ Sent(q)
      BY <1>1, AskedFacts DEF OrderInv
    <3>2. CASE q.call.app # a
      BY <1>4, <1>7, <3>1, <3>2 DEF Sent
    <3>3. CASE q.call.app = a
      <4>1. q.call.no < nodes'[a].cmd.no
        <5>1. CASE Fresh(a)
          BY <1>8, <1>9, <3>1, <3>3, <5>1, <1>1, Typed, Sorts DEF Sent
        <5>2. CASE ~ Fresh(a)
          BY <1>8, <1>9, <3>1, <3>3, <5>2, <1>1, Typed, Sorts DEF Sent
        <5> QED
          BY <5>1, <5>2
      <4>2. nodes'[a].cmd.no \in Nat
        BY <1>9, Sorts
      <4> QED
        BY <3>1, <3>3, <4>1, <4>2 DEF Sent
    <3> QED
      BY <3>2, <3>3
  <2> QED
    BY <1>7, <2>1, <2>2, <2>3, <2>4 DEF OrderInv
<1>12. OnceInv'
  BY <1>1, <1>3 DEF OnceInv, K!AtMostOnce, Distinct
<1>13. IdsInv'
  <2>1. \A b \in Apps : nodes'[b].cur_msgid = nodes[b].cur_msgid
    BY <1>4
  <2> QED
    BY <1>1, <1>3, <2>1 DEF IdsInv, K!Answered
<1>14. AskInv'
  <2>1. AskTx(a)'
    <3>1. ASSUME NEW k \in DOMAIN rpcTx'[a], InStepNext(a, rpcTx'[a][k].call.no) PROVE FALSE
      <4>1. k + 1 \in DOMAIN rpcTx[a] /\ rpcTx'[a][k] = rpcTx[a][k + 1] /\ k \in Nat \ {0}
        BY <1>5, <3>1
      <4>2. k + 1 = 1
        BY <1>1, <1>6, <3>1, <4>1, AskTxKept DEF AskInv
      <4> QED
        BY <4>1, <4>2
    <3> QED
      BY <3>1, AskTxNext
  <2>2. AskNod(a)'
    <3>1. SUFFICES ASSUME InStepNext(a, nodes'[a].cmd.no)
                   PROVE  /\ nodes'[a].reqid = log[a][nodes'[a].cmd.no].req
                          /\ Clearing(a)' => send'.reqid = log[a][nodes'[a].cmd.no].req
      BY <1>3, AskNodNext
    <3>2. CASE nodes'[a] = nodes[a]
      <4>1. nodes[a].cmd \in K!Calls /\ Fresh(a)
        BY <1>4, <1>9, <3>2 DEF Fresh
      <4>2. K!InStep(a, nodes[a].cmd.no)
        BY <1>1, <1>6, <3>1, <3>2, <4>1, CmdFacts, InStepKept
      <4> QED
        BY <1>1, <1>3, <1>7, <3>2, <4>1, <4>2 DEF AskInv, AskNod
    <3>3. CASE nodes'[a].cmd = p.call
      <4>1. K!InStep(a, p.call.no)
        BY <1>6, <1>8, <3>1, <3>3, InStepKept
      <4>2. ~ Fresh(a)
        BY <1>1, <1>4, <4>1 DEF AskInv, AskTx
      <4> QED
        BY <1>7, <1>8, <1>9, <3>3, <4>2 DEF Fresh
    <3> QED
      BY <1>4, <3>2, <3>3
  <2>3. ASSUME NEW b \in Apps, b # a PROVE AskTx(b)' /\ AskNod(b)'
    BY <1>1, <1>3, <1>4, <1>6, <1>7, <2>3, AskTxSame, AskNodSame DEF AskInv
  <2>4. AskDev'
    BY <1>1, <1>6, <1>7, AskDevSame DEF AskInv
  <2> QED
    BY <2>1, <2>2, <2>3, <2>4 DEF AskInv
<1>15. FlowInv'
  <2>1. ASSUME NEW b \in Apps, b # a PROVE Flow(b)'
    <3>1. SameFlow(b)
      BY <1>3, <1>4, <1>7, <2>1 DEF SameFlow, Receiving
    <3> QED
      BY <1>1, <2>1, <3>1, FlowKept DEF FlowInv
  <2>2. ASSUME Calm(a)' PROVE AtOne(a)' /\ Own(a)' /\ K!Waiting(a)'
    <3>1. Calm(a)
      BY <1>3, <2>2 DEF Calm
    <3>2. AtOne(a) /\ Own(a) /\ K!Waiting(a)
      BY <1>1, <1>4, <3>1 DEF FlowInv, Flow, Rest
    <3>3. /\ ~ Fresh(a) /\ Of(down, a) = {} /\ Of(up, a) = {}
          /\ ~ Receiving(a) /\ rpcRx[a] = <<>> /\ ~ Waking(a) /\ p = Current(a)
          /\ Len(rpcTx[a]) = 1
      BY <1>4, <3>2 DEF AtOne, Own, Only
    <3>4. rpcTx'[a] = <<>>
      BY <1>5, <3>3, Elements
    <3>5. /\ ~ Clearing(a)' /\ Of(down, a)' = {} /\ Of(up, a)' = {}
          /\ ~ Receiving(a)' /\ rpcRx'[a] = <<>> /\ ~ Waking(a)'
          /\ nodes'[a].cmd = Current(a)'.call /\ nodes'[a].reqid = Current(a)'.req
      BY <1>3, <1>7, <1>9, <3>3 DEF Of, Receiving, Waking, Current, Fresh
    <3>6. AtOne(a)'
      BY <3>4, <3>5 DEF AtOne, Waking
    <3>7. Own(a)'
      BY <1>4, <3>4, <3>5 DEF Own
    <3>8. K!Waiting(a)'
      BY <1>3, <3>2 DEF K!Waiting, K!Last
    <3> QED
      BY <3>6, <3>7, <3>8
  <2> QED
    BY <2>1, <2>2 DEF FlowInv, Flow
<1>16. AnswersInv'
  BY <1>1, <1>3 DEF AnswersInv, K!Answered, K!InStep
<1> QED
  BY <1>10, <1>11, <1>12, <1>13, <1>14, <1>15, <1>16 DEF IoctlInv

\* The scan of the send thread keeps IoctlInv.
LEMMA ScanStep ==
  ASSUME IoctlInv, K!Scan
  PROVE  IoctlInv'
<1>1. KindsInv /\ OrderInv /\ OnceInv /\ IdsInv /\ AskInv /\ FlowInv /\ AnswersInv
  BY DEF IoctlInv
<1>2. PICK a \in Apps : send' = [send EXCEPT !.pc = "make", !.node = a]
  BY DEF K!Scan
<1>3. UNCHANGED <<log, ses, rpcTx, rpcRx, nodes, msgid, recv, down, up, exec, calling>>
  BY DEF K!Scan, K!client, K!device
<1>4. /\ send'.pc = "make" /\ send'.node = a /\ send'.reqid = send.reqid
      /\ send' \in [pc : {"scan", "make", "clear"}, node : Apps \cup {"none"},
                   reqid : Reqs \cup {"none"}]
  BY <1>1, <1>2 DEF KindsInv, ThreadsInv
<1>5. /\ \A b \in Apps : /\ Clearing(b)' = Clearing(b) /\ Fresh(b)' = Fresh(b)
                         /\ ~ Clearing(b)' /\ ~ Clearing(b)
      /\ Asked' = Asked
  BY <1>3, <1>4 DEF Fresh, Clearing, Asked, K!Scan
<1>6. \A b \in Apps : Grows(b)
  BY <1>1, <1>3, Untouched
<1>7. KindsInv'
  <2>1. ClientInv' /\ WiresInv' /\ NodesInv'
    BY <1>1, <1>3 DEF KindsInv, ClientInv, WiresInv, NodesInv, Nod, Frames
  <2>2. ThreadsInv'
    BY <1>1, <1>3, <1>4 DEF KindsInv, ThreadsInv
  <2> QED
    BY <2>1, <2>2 DEF KindsInv
<1>8. OrderInv'
  <2>1. \A q \in Asked : Sent(q)'
    BY <1>1, <1>3, <1>4 DEF OrderInv, Sent, Fresh, Clearing, K!Scan
  <2> QED
    BY <1>1, <1>3, <1>5, <2>1 DEF OrderInv, Queued
<1>9. OnceInv'
  BY <1>1, <1>3 DEF OnceInv, K!AtMostOnce, Distinct
<1>10. IdsInv'
  BY <1>1, <1>3 DEF IdsInv, K!Answered
<1>11. AskInv'
  BY <1>1, <1>3, <1>5, <1>6, AskTxSame, AskNodSame, AskDevSame DEF AskInv
<1>12. FlowInv'
  <2>1. \A b \in Apps : SameFlow(b)
    BY <1>3, <1>5 DEF SameFlow, Receiving
  <2> QED
    BY <1>1, <2>1, FlowKept DEF FlowInv
<1>13. AnswersInv'
  BY <1>1, <1>3 DEF AnswersInv, K!Answered, K!InStep
<1> QED
  BY <1>7, <1>8, <1>9, <1>10, <1>11, <1>12, <1>13 DEF IoctlInv

\* The making of a frame keeps IoctlInv.
LEMMA PackMakeStep ==
  ASSUME IoctlInv, K!PackMake
  PROVE  IoctlInv'
<1>1. KindsInv /\ OrderInv /\ OnceInv /\ IdsInv /\ AskInv /\ FlowInv /\ AnswersInv
  BY DEF IoctlInv
<1>2. UNCHANGED <<log, ses, rpcTx, rpcRx, recv, down, up, exec, calling>>
  BY DEF K!PackMake, K!client, K!device
<1>3. \A b \in Apps : Grows(b)
  BY <1>1, <1>2, Untouched
<1>4. CASE send' = [send EXCEPT !.pc = "scan"] /\ UNCHANGED <<nodes, msgid>>
  <2>1. /\ send'.pc = "scan" /\ send'.reqid = send.reqid
        /\ send' \in [pc : {"scan", "make", "clear"}, node : Apps \cup {"none"},
                     reqid : Reqs \cup {"none"}]
    BY <1>1, <1>4 DEF KindsInv, ThreadsInv
  <2>2. /\ \A b \in Apps : /\ Clearing(b)' = Clearing(b) /\ Fresh(b)' = Fresh(b)
                           /\ ~ Clearing(b)' /\ ~ Clearing(b)
        /\ Asked' = Asked
    BY <1>2, <1>4, <2>1 DEF Fresh, Clearing, Asked, K!PackMake
  <2>3. KindsInv'
    <3>1. ClientInv' /\ WiresInv' /\ NodesInv'
      BY <1>1, <1>2, <1>4 DEF KindsInv, ClientInv, WiresInv, NodesInv, Nod, Frames
    <3>2. ThreadsInv'
      BY <1>1, <1>2, <1>4, <2>1 DEF KindsInv, ThreadsInv
    <3> QED
      BY <3>1, <3>2 DEF KindsInv
  <2>4. OrderInv'
    <3>1. \A q \in Asked : Sent(q)'
      BY <1>1, <1>2, <1>4, <2>1 DEF OrderInv, Sent, Fresh, Clearing, K!PackMake
    <3> QED
      BY <1>1, <1>2, <1>4, <2>2, <3>1 DEF OrderInv, Queued
  <2>5. OnceInv' /\ IdsInv' /\ AnswersInv'
    BY <1>1, <1>2, <1>4
    DEF OnceInv, K!AtMostOnce, Distinct, IdsInv, K!Answered, AnswersInv, K!InStep
  <2>6. AskInv'
    BY <1>1, <1>2, <1>3, <1>4, <2>2, AskTxSame, AskNodSame, AskDevSame DEF AskInv
  <2>7. FlowInv'
    <3>1. \A b \in Apps : SameFlow(b)
      BY <1>2, <1>4, <2>2 DEF SameFlow, Receiving
    <3> QED
      BY <1>1, <3>1, FlowKept DEF FlowInv
  <2> QED
    BY <2>3, <2>4, <2>5, <2>6, <2>7 DEF IoctlInv
<1>5. CASE send'.pc = "clear"
  <2>1. PICK a \in Apps : Made(a)
    BY <1>1, <1>5, MakeEffect
  <2>2. /\ send.pc = "make" /\ send.node = a /\ nodes[a].need_write
        /\ send'.pc = "clear" /\ send'.node = a /\ send'.reqid = nodes[a].reqid
        /\ msgid' = msgid + 1
        /\ nodes' \in [Apps -> Nod'] /\ \A b \in Apps : b # a => nodes'[b] = nodes[b]
        /\ nodes'[a].cur_msgid = msgid + 1 /\ nodes'[a].cmd = nodes[a].cmd
        /\ nodes'[a].reqid = nodes[a].reqid /\ nodes'[a].need_write /\ nodes'[a].init_flg
    BY <2>1 DEF Made
  <2>3. nodes[a].cmd \in K!Calls /\ nodes[a].reqid \in Reqs /\ msgid \in Nat
    BY <1>1, <2>2 DEF KindsInv, NodesInv
  <2>4. /\ \A b \in Apps : /\ nodes'[b].cmd = nodes[b].cmd /\ nodes'[b].reqid = nodes[b].reqid
                           /\ b # a => Clearing(b)' = Clearing(b) /\ Fresh(b)' = Fresh(b)
                           /\ ~ Clearing(b)
        /\ Fresh(a) /\ Fresh(a)' /\ Clearing(a)' /\ Asked' = Asked
    BY <1>2, <2>2 DEF Fresh, Clearing, Asked
  <2>5. Frames \subseteq Frames'
    BY <2>2, <2>3 DEF Frames
  <2>6. KindsInv'
    <3>1. ClientInv'
      BY <1>1, <1>2 DEF KindsInv, ClientInv
    <3>2. WiresInv'
      <4>1. down \in Seq(Frames') /\ up \in Seq(Frames')
        BY <1>1, <2>5, SeqMonotonic DEF KindsInv, WiresInv
      <4> QED
        BY <1>1, <1>2, <4>1 DEF KindsInv, WiresInv
    <3>3. NodesInv'
      <4>1. nodes'[a].init_flg = TRUE /\ nodes'[a].need_write = TRUE
        BY <2>2 DEF Nod
      <4>2. ASSUME NEW b \in Apps, b # a
            PROVE  /\ nodes'[b].init_flg = nodes'[b].need_write
                   /\ nodes'[b].need_write => nodes'[b].cmd \in K!Calls /\ nodes'[b].reqid \in Reqs
        BY <1>1, <2>2, <4>2 DEF KindsInv, NodesInv
      <4>3. \A b \in Apps : /\ nodes'[b].init_flg = nodes'[b].need_write
                            /\ nodes'[b].need_write => nodes'[b].cmd \in K!Calls /\ nodes'[b].reqid \in Reqs
        BY <2>2, <2>3, <4>1, <4>2
      <4>4. calling' \in Calling /\ msgid' \in Nat
        BY <1>1, <1>2, <2>2, <2>3 DEF KindsInv, NodesInv
      <4> QED
        BY <2>2, <4>3, <4>4 DEF NodesInv
    <3>4. ThreadsInv'
      <4>1. send \in [pc : {"scan", "make", "clear"}, node : Apps \cup {"none"}, reqid : Reqs \cup {"none"}]
        BY <1>1 DEF KindsInv, ThreadsInv
      <4>2. send' \in [pc : {"scan", "make", "clear"}, node : Apps \cup {"none"}, reqid : Reqs \cup {"none"}]
        BY <1>5, <2>2, <2>3, <4>1 DEF K!PackMake
      <4> QED
        BY <1>1, <1>2, <2>2, <2>3, <4>2 DEF KindsInv, ThreadsInv
    <3> QED
      BY <3>1, <3>2, <3>3, <3>4 DEF KindsInv
  <2>7. OrderInv'
    <3>1. ASSUME NEW q \in Asked PROVE Sent(q)'
      <4>1. q.call.app \in Apps /\ Sent(q)
        BY <1>1, <3>1, AskedFacts DEF OrderInv
      <4> QED
        BY <2>4, <4>1 DEF Sent
    <3>2. \A b \in Apps : /\ nodes'[b].cmd.no <= Len(log'[b])
                          /\ nodes'[b].cmd \in K!Calls => nodes'[b].cmd.app = b
                          /\ Queued(b)'
      BY <1>1, <1>2, <2>4 DEF OrderInv, Queued
    <3> QED
      BY <2>4, <3>1, <3>2 DEF OrderInv
  <2>8. OnceInv' /\ AnswersInv'
    BY <1>1, <1>2 DEF OnceInv, K!AtMostOnce, Distinct, K!Answered, AnswersInv, K!InStep
  <2>9. IdsInv'
    <3>1. SUFFICES ASSUME calling.unset = {0}
                   PROVE  /\ \A b, c \in Apps : nodes'[b].cur_msgid = nodes'[c].cur_msgid =>
                                b = c \/ nodes'[b].cur_msgid = 0
                          /\ \A f \in ToSet(down) \cup ToSet(up) : \A b \in Apps :
                               nodes'[b].cur_msgid = f.msgid => f.pack.call.app = b
      BY <1>1, <1>2 DEF IdsInv, K!Answered
    <3>2. \A b \in Apps : nodes[b].cur_msgid # msgid + 1
      <4>1. ASSUME NEW b \in Apps PROVE nodes[b].cur_msgid \in {0} \cup 1 .. msgid
        BY <1>1, <3>1, Typed
      <4> QED
        BY <2>3, <4>1
    <3>3. \A f \in ToSet(down) \cup ToSet(up) : f.msgid # msgid + 1
      <4>1. ToSet(down) \subseteq Frames /\ ToSet(up) \subseteq Frames
        BY <1>1, Elements DEF KindsInv, WiresInv
      <4> QED
        BY <2>3, <4>1 DEF Frames
    <3>4. ASSUME NEW b \in Apps, NEW c \in Apps, nodes'[b].cur_msgid = nodes'[c].cur_msgid
          PROVE  b = c \/ nodes'[b].cur_msgid = 0
      BY <1>1, <2>2, <3>1, <3>2, <3>4 DEF IdsInv
    <3>5. ASSUME NEW f \in ToSet(down) \cup ToSet(up), NEW b \in Apps,
                 nodes'[b].cur_msgid = f.msgid
          PROVE  f.pack.call.app = b
      BY <1>1, <2>2, <3>1, <3>3, <3>5 DEF IdsInv
    <3> QED
      BY <3>4, <3>5
  <2>10. AskInv'
    <3>1. ASSUME NEW b \in Apps PROVE AskTx(b)' /\ AskNod(b)'
      BY <1>1, <1>2, <1>3, <2>2, <2>4, AskTxSame, AskNodSame DEF AskInv
    <3> QED
      BY <1>1, <1>3, <2>4, <3>1, AskDevSame DEF AskInv
  <2>11. FlowInv'
    <3>1. ASSUME NEW b \in Apps, b # a PROVE Flow(b)'
      <4>1. SameFlow(b)
        BY <1>2, <2>2, <2>4, <3>1 DEF SameFlow, Receiving
      <4> QED
        BY <1>1, <3>1, <4>1, FlowKept DEF FlowInv
    <3>2. ASSUME Calm(a)' PROVE AtOne(a)' /\ Own(a)' /\ K!Waiting(a)'
      <4>1. Calm(a)
        BY <1>2, <3>2 DEF Calm
      <4>2. AtOne(a) /\ Own(a) /\ K!Waiting(a)
        BY <1>1, <2>4, <4>1 DEF FlowInv, Flow, Rest
      <4>3. AtOne(a)'
        BY <1>2, <2>4, <4>2 DEF AtOne, Of, Receiving, Waking
      <4>4. Own(a)'
        BY <1>2, <2>2, <2>4, <4>2 DEF Own, Only, Current, Of, Receiving, Waking
      <4>5. K!Waiting(a)'
        BY <1>2, <4>2 DEF K!Waiting, K!Last
      <4> QED
        BY <4>3, <4>4, <4>5
    <3> QED
      BY <3>1, <3>2 DEF FlowInv, Flow
  <2> QED
    BY <2>6, <2>7, <2>8, <2>9, <2>10, <2>11 DEF IoctlInv
<1>6. \/ send' = [send EXCEPT !.pc = "scan"] /\ UNCHANGED <<nodes, msgid>>
      \/ send'.pc = "clear"
  <2>1. send \in [pc : {"scan", "make", "clear"}, node : Apps \cup {"none"}, reqid : Reqs \cup {"none"}]
    BY <1>1 DEF KindsInv, ThreadsInv
  <2> QED
    BY <2>1 DEF K!PackMake
<1> QED
  BY <1>4, <1>5, <1>6

\* The sending of a frame keeps IoctlInv.
LEMMA PackSentStep ==
  ASSUME IoctlInv, K!PackSent
  PROVE  IoctlInv'
<1>1. KindsInv /\ OrderInv /\ OnceInv /\ IdsInv /\ AskInv /\ FlowInv /\ AnswersInv
  BY DEF IoctlInv
<1>2. PICK a \in Apps, f \in Frames : Queues(a, f)
  BY <1>1, SentEffect
<1>3. UNCHANGED <<log, ses, rpcTx, rpcRx, msgid, recv, up, exec, calling>>
  BY DEF K!PackSent, K!client
<1>4. /\ send.pc = "clear" /\ send.node = a /\ f.msgid = nodes[a].cur_msgid
      /\ f.pack \in K!Request /\ f.pack.req = send.reqid /\ f.pack.call = nodes[a].cmd
      /\ send'.pc = "make" /\ send'.node = a /\ send'.reqid = send.reqid
      /\ nodes' \in [Apps -> Nod] /\ \A b \in Apps : b # a => nodes'[b] = nodes[b]
      /\ nodes'[a].cur_msgid = nodes[a].cur_msgid /\ nodes'[a].cmd = nodes[a].cmd
      /\ nodes'[a].reqid = nodes[a].reqid /\ ~ nodes'[a].need_write /\ ~ nodes'[a].init_flg
      /\ down' = Append(down, f) /\ down' \in Seq(Frames)
      /\ ToSet(down') = ToSet(down) \cup {f}
  BY <1>2 DEF Queues, Clearing
<1>5. \A b \in Apps : Grows(b)
  BY <1>1, <1>3, Untouched
<1>6. /\ nodes[a].cmd \in K!Calls /\ nodes[a].cmd.app = a /\ nodes[a].cmd.no \in Nat \ {0}
      /\ nodes[a].cmd.no \in DOMAIN log[a] /\ nodes[a].cmd.no <= Len(log[a])
      /\ nodes[a].cur_msgid \in 1 .. msgid /\ msgid \in Nat
  <2>1. nodes[a].cmd \in K!Calls /\ nodes[a].cur_msgid \in 1 .. msgid /\ msgid \in Nat
    BY <1>1, <1>4 DEF KindsInv, NodesInv, ThreadsInv
  <2> QED
    BY <1>1, <2>1, CmdFacts
<1>7. /\ \A b \in Apps : /\ nodes'[b].cmd = nodes[b].cmd /\ nodes'[b].reqid = nodes[b].reqid
                         /\ nodes'[b].cur_msgid = nodes[b].cur_msgid
                         /\ b # a => Fresh(b)' = Fresh(b) /\ ~ Clearing(b)
                         /\ ~ Clearing(b)'
      /\ Fresh(a) /\ Clearing(a) /\ ~ Fresh(a)' /\ Asked' = Asked \cup {f.pack}
  <2>1. Asked' = Asked \cup {f.pack}
    BY <1>3, <1>4 DEF Asked
  <2> QED
    BY <1>4, <2>1 DEF Fresh, Clearing
<1>8. /\ f.pack.call.app = a /\ f.pack.call.no = nodes[a].cmd.no
      /\ \A q \in Asked : q.call # f.pack.call
  <2>1. ASSUME NEW q \in Asked, q.call = f.pack.call PROVE FALSE
    <3>1. Sent(q)
      BY <1>1 DEF OrderInv
    <3>2. q.call.no < nodes[a].cmd.no
      BY <1>4, <1>6, <1>7, <2>1, <3>1 DEF Sent
    <3> QED
      BY <1>4, <1>6, <2>1, <3>2
  <2> QED
    BY <1>4, <1>6, <2>1
<1>9. KindsInv'
  <2>1. ClientInv' /\ WiresInv'
    BY <1>1, <1>3, <1>4 DEF KindsInv, ClientInv, WiresInv, Frames
  <2>2. NodesInv'
    <3>1. nodes' \in [Apps -> Nod'] /\ calling' \in Calling /\ msgid' \in Nat
      BY <1>1, <1>3, <1>4 DEF KindsInv, NodesInv, Nod
    <3>2. nodes'[a].init_flg = FALSE /\ nodes'[a].need_write = FALSE
      BY <1>4 DEF Nod
    <3>3. ASSUME NEW b \in Apps, b # a
          PROVE  /\ nodes'[b].init_flg = nodes'[b].need_write
                 /\ nodes'[b].need_write => nodes'[b].cmd \in K!Calls /\ nodes'[b].reqid \in Reqs
      BY <1>1, <1>4, <3>3 DEF KindsInv, NodesInv
    <3>4. \A b \in Apps : /\ nodes'[b].init_flg = nodes'[b].need_write
                          /\ nodes'[b].need_write => nodes'[b].cmd \in K!Calls /\ nodes'[b].reqid \in Reqs
      BY <3>2, <3>3
    <3> QED
      BY <3>1, <3>4 DEF NodesInv
  <2>3. ThreadsInv'
    <3>1. send' = [send EXCEPT !.pc = "make"]
      BY DEF K!PackSent
    <3>2. send' \in [pc : {"scan", "make", "clear"}, node : Apps \cup {"none"}, reqid : Reqs \cup {"none"}]
      BY <1>1, <3>1 DEF KindsInv, ThreadsInv
    <3> QED
      BY <1>1, <1>3, <1>4, <3>2 DEF KindsInv, ThreadsInv
  <2> QED
    BY <2>1, <2>2, <2>3 DEF KindsInv
<1>10. OrderInv'
  <2>1. ASSUME NEW q \in Asked' PROVE Sent(q)'
    <3>1. CASE q = f.pack
      BY <1>6, <1>7, <1>8, <3>1 DEF Sent
    <3>2. CASE q \in Asked
      <4>1. q.call.app \in Apps /\ Sent(q)
        BY <1>1, <3>2, AskedFacts DEF OrderInv
      <4> QED
        BY <1>7, <4>1 DEF Sent
    <3> QED
      BY <1>7, <2>1, <3>1, <3>2
  <2>2. \A b \in Apps : /\ nodes'[b].cmd.no <= Len(log'[b])
                        /\ nodes'[b].cmd \in K!Calls => nodes'[b].cmd.app = b
                        /\ Queued(b)'
    BY <1>1, <1>3, <1>7 DEF OrderInv, Queued
  <2> QED
    BY <2>1, <2>2 DEF OrderInv
<1>11. OnceInv'
  <2>1. /\ \A q \in ToSet(exec) : q.call # f.pack.call
        /\ \A g \in ToSet(down) : g.pack.call # f.pack.call
    BY <1>8 DEF Asked
  <2>2. Distinct(down')
    <3>1. down \in Seq(Frames)
      BY <1>1 DEF KindsInv, WiresInv
    <3> QED
      BY <1>1, <1>4, <2>1, <3>1, DistinctAppend DEF OnceInv
  <2>3. \A q \in ToSet(exec), g \in ToSet(down') : q.call # g.pack.call
    BY <1>1, <1>4, <2>1 DEF OnceInv
  <2>4. Distinct(down)'
    BY <2>2 DEF Distinct
  <2> QED
    BY <1>1, <1>3, <2>3, <2>4 DEF OnceInv, K!AtMostOnce, Distinct
<1>12. IdsInv'
  <2>1. SUFFICES ASSUME calling.unset = {0}, NEW g \in ToSet(down') \cup ToSet(up),
                        NEW b \in Apps, nodes[b].cur_msgid = g.msgid
                 PROVE  g.pack.call.app = b
    BY <1>1, <1>3, <1>7 DEF IdsInv, K!Answered
  <2>2. CASE g = f
    <3>1. nodes[a].cur_msgid # 0
      BY <1>6
    <3> QED
      BY <1>1, <1>4, <1>8, <2>1, <2>2, <3>1 DEF IdsInv
  <2>3. CASE g # f
    BY <1>1, <1>4, <2>1, <2>3 DEF IdsInv
  <2> QED
    BY <2>2, <2>3
<1>13. AskInv'
  <2>1. ASSUME NEW b \in Apps PROVE AskTx(b)' /\ AskNod(b)'
    BY <1>1, <1>3, <1>5, <1>7, AskTxSame, AskNodSame DEF AskInv
  <2>2. ASSUME InStepNext(a, nodes[a].cmd.no) PROVE send.reqid = log[a][nodes[a].cmd.no].req
    <3>1. K!InStep(a, nodes[a].cmd.no)
      BY <1>5, <1>6, <2>2, InStepKept
    <3> QED
      BY <1>1, <1>7, <3>1 DEF AskInv, AskNod
  <2>3. ASSUME NEW q \in Asked', InStepNext(q.call.app, q.call.no)
        PROVE  q.req = log'[q.call.app][q.call.no].req
    <3>1. CASE q = f.pack
      BY <1>3, <1>4, <1>8, <2>2, <2>3, <3>1
    <3>2. CASE q \in Asked
      BY <1>1, <1>5, <2>3, <3>2, AskDevKept DEF AskInv
    <3> QED
      BY <1>7, <2>3, <3>1, <3>2
  <2>4. AskDev'
    BY <2>3, AskDevNext
  <2> QED
    BY <2>1, <2>4 DEF AskInv
<1>14. FlowInv'
  <2>1. ASSUME NEW b \in Apps, b # a PROVE Flow(b)'
    <3>1. Of(down', b) = Of(down, b)
      BY <1>4, <1>8, <2>1 DEF Of
    <3>2. Clearing(b)' = Clearing(b) /\ ~ Clearing(b)
      BY <1>4, <2>1 DEF Clearing
    <3>3. SameFlow(b)
      BY <1>3, <1>4, <2>1, <3>1, <3>2 DEF SameFlow, Receiving
    <3> QED
      BY <1>1, <2>1, <3>3, FlowKept DEF FlowInv
  <2>2. ASSUME Calm(a)' PROVE AtOne(a)' /\ Own(a)' /\ K!Waiting(a)'
    <3>1. Calm(a)
      BY <1>3, <2>2 DEF Calm
    <3>2. AtOne(a) /\ Own(a) /\ K!Waiting(a)
      BY <1>1, <1>7, <3>1 DEF FlowInv, Flow, Rest
    <3>3. /\ rpcTx[a] = <<>> /\ Of(down, a) = {} /\ Of(up, a) = {}
          /\ ~ Receiving(a) /\ rpcRx[a] = <<>> /\ ~ Waking(a)
      BY <1>7, <3>2 DEF AtOne
    <3>4. f.pack.req = Current(a).req /\ f.pack.call = Current(a).call
      BY <1>4, <1>7, <3>2 DEF Own
    <3>5. f.pack = Current(a)
      BY <1>4, <3>4 DEF K!Request, Current
    <3>6. Of(down', a) = {f}
      BY <1>4, <1>8, <3>3 DEF Of
    <3>7. /\ rpcTx'[a] = <<>> /\ Of(down, a)' = {f} /\ Of(up, a)' = {}
          /\ ~ Receiving(a)' /\ rpcRx'[a] = <<>> /\ ~ Waking(a)' /\ f.pack = Current(a)'
      BY <1>3, <3>3, <3>5, <3>6 DEF Of, Receiving, Waking, Current
    <3>8. AtOne(a)'
      BY <1>7, <3>7 DEF AtOne, Waking
    <3>9. Own(a)'
      BY <1>7, <3>7 DEF Own
    <3>10. K!Waiting(a)'
      BY <1>3, <3>2 DEF K!Waiting, K!Last
    <3> QED
      BY <3>8, <3>9, <3>10
  <2> QED
    BY <2>1, <2>2 DEF FlowInv, Flow
<1>15. AnswersInv'
  BY <1>1, <1>3 DEF AnswersInv, K!Answered, K!InStep
<1> QED
  BY <1>9, <1>10, <1>11, <1>12, <1>13, <1>14, <1>15 DEF IoctlInv

\* The finding of the node of a frame keeps IoctlInv.
LEMMA RecvFindStep ==
  ASSUME IoctlInv, K!RecvFind
  PROVE  IoctlInv'
<1>1. KindsInv /\ OrderInv /\ OnceInv /\ IdsInv /\ AskInv /\ FlowInv /\ AnswersInv
  BY DEF IoctlInv
<1>2. PICK f \in Frames : Found(f)
  BY <1>1, FindEffect
<1>3. UNCHANGED <<log, ses, rpcTx, rpcRx, nodes, msgid, send, down, exec, calling>>
  BY DEF K!RecvFind, K!client
<1>4. /\ up # <<>> /\ f = Head(up) /\ f \in ToSet(up) /\ f.pack \in K!Request
      /\ up' \in Seq(Frames) /\ up' = Tail(up) /\ recv.pc = "idle"
      /\ \/ recv' = recv
         \/ \E a \in Apps : /\ recv'.pc = "proc" /\ recv'.node = a /\ recv'.pack = f.pack
                            /\ nodes[a].cur_msgid = f.msgid
  BY <1>2 DEF Found
<1>5. Distinct(up') /\ ToSet(up') = ToSet(up) \ {f}
  BY <1>1, <1>4, DistinctTail DEF KindsInv, WiresInv, OnceInv
<1>6. /\ \A b \in Apps : Fresh(b)' = Fresh(b) /\ Clearing(b)' = Clearing(b)
      /\ Asked' = Asked
  BY <1>3 DEF Fresh, Clearing, Asked
<1>7. \A b \in Apps : Grows(b)
  BY <1>1, <1>3, Untouched
<1>8. KindsInv'
  <2>1. ClientInv' /\ WiresInv' /\ NodesInv'
    BY <1>1, <1>3, <1>4 DEF KindsInv, ClientInv, WiresInv, NodesInv, Nod, Frames
  <2>2. recv' \in [pc : {"idle", "proc"}, node : Apps \cup {"none"}, pack : K!Request \cup {K!NoPack}]
    <3>1. recv' = recv \/ \E a \in Apps : recv' = [pc |-> "proc", node |-> a, pack |-> f.pack]
      BY <1>4 DEF K!RecvFind
    <3> QED
      BY <1>1, <1>4, <3>1 DEF KindsInv, ThreadsInv
  <2>3. ThreadsInv'
    BY <1>1, <1>3, <1>4, <2>2 DEF KindsInv, ThreadsInv
  <2> QED
    BY <2>1, <2>3 DEF KindsInv
<1>9. OrderInv'
  BY <1>1, <1>3 DEF OrderInv, Queued, Asked, Sent, Fresh, Clearing
<1>10. OnceInv'
  <2>1. Distinct(up)'
    BY <1>5 DEF Distinct
  <2> QED
    BY <1>1, <1>3, <1>5, <2>1 DEF OnceInv, K!AtMostOnce, Distinct
<1>11. IdsInv'
  <2>1. ASSUME calling.unset = {0}, recv'.pc = "proc" PROVE recv'.pack.call.app = recv'.node
    BY <1>1, <1>4, <2>1 DEF IdsInv
  <2> QED
    BY <1>1, <1>3, <1>5, <2>1 DEF IdsInv, K!Answered
<1>12. AskInv'
  BY <1>1, <1>3, <1>6, <1>7, AskTxSame, AskNodSame, AskDevSame DEF AskInv
<1>13. FlowInv'
  <2>1. SUFFICES ASSUME NEW b \in Apps, Calm(b)'
                 PROVE  AtOne(b)' /\ Own(b)' /\ (~ K!Waiting(b)' => Rest(b)')
    BY DEF FlowInv, Flow
  <2>2. Calm(b) /\ calling.unset = {0}
    BY <1>3, <2>1 DEF Calm
  <2>3. AtOne(b) /\ Own(b) /\ (~ K!Waiting(b) => Rest(b))
    BY <1>1, <2>2 DEF FlowInv, Flow
  <2>4. ~ Receiving(b)
    BY <1>4 DEF Receiving
  <2>5. CASE f.pack.call.app = b
    <3>1. f \in Of(up, b) /\ f.pack = Current(b)
      BY <1>4, <2>3, <2>5 DEF Of, Own
    <3>2. Of(up', b) = {}
      <4>1. ASSUME NEW g \in Of(up', b) PROVE FALSE
        <5>1. g \in Of(up, b) /\ g # f /\ g \in ToSet(up') /\ g.pack = Current(b)
          BY <1>5, <2>3, <4>1 DEF Of, Own
        <5>2. g.pack.call # f.pack.call
          BY <1>1, <1>4, <5>1, DistinctTail DEF KindsInv, WiresInv, OnceInv
        <5> QED
          BY <3>1, <5>1, <5>2
      <4> QED
        BY <4>1
    <3>3. /\ rpcTx[b] = <<>> /\ ~ Fresh(b) /\ Of(down, b) = {}
          /\ rpcRx[b] = <<>> /\ ~ Waking(b) /\ K!Waiting(b)
      BY <2>3, <3>1 DEF AtOne, Rest
    <3>4. /\ rpcTx'[b] = <<>> /\ ~ Fresh(b)' /\ Of(down, b)' = {} /\ Of(up, b)' = {}
          /\ rpcRx'[b] = <<>> /\ ~ Waking(b)' /\ K!Waiting(b)' /\ Current(b)' = f.pack
      BY <1>3, <1>6, <3>1, <3>2, <3>3 DEF Of, Waking, Current, K!Waiting, K!Last
    <3>5. Receiving(b)' => recv'.pack = f.pack
      BY <1>4 DEF Receiving
    <3>6. AtOne(b)'
      BY <3>4 DEF AtOne, Waking
    <3>7. Own(b)'
      BY <3>4, <3>5 DEF Own
    <3> QED
      BY <3>4, <3>6, <3>7
  <2>6. CASE f.pack.call.app # b
    <3>1. Of(up', b) = Of(up, b)
      BY <1>5, <2>6 DEF Of
    <3>2. ~ Receiving(b)'
      BY <1>1, <1>4, <2>2, <2>6 DEF Receiving, IdsInv
    <3>3. Receiving(b)' = Receiving(b)
      BY <2>4, <3>2 DEF Receiving
    <3>4. SameFlow(b)
      BY <1>3, <1>6, <2>4, <3>1, <3>3 DEF SameFlow
    <3> QED
      BY <1>1, <2>1, <3>4, FlowKept DEF FlowInv, Flow
  <2> QED
    BY <2>5, <2>6
<1>14. AnswersInv'
  BY <1>1, <1>3 DEF AnswersInv, K!Answered, K!InStep
<1> QED
  BY <1>8, <1>9, <1>10, <1>11, <1>12, <1>13, <1>14 DEF IoctlInv

\* The passing of a reply keeps IoctlInv.
LEMMA RecvProcStep ==
  ASSUME IoctlInv, K!RecvProc
  PROVE  IoctlInv'
<1>1. KindsInv /\ OrderInv /\ OnceInv /\ IdsInv /\ AskInv /\ FlowInv /\ AnswersInv
  BY DEF IoctlInv
<1>2. PICK a \in Apps : Passed(a)
  BY <1>1, PassEffect
<1>3. UNCHANGED <<log, ses, rpcTx, msgid, send, down, up, exec, calling>>
  BY DEF K!RecvProc, K!client, K!device
<1>4. /\ recv.pc = "proc" /\ recv.node = a /\ recv.pack \in K!Request
      /\ recv' = [pc |-> "idle", node |-> "none", pack |-> K!NoPack] /\ recv'.pc = "idle"
      /\ nodes' \in [Apps -> Nod] /\ \A b \in Apps : b # a => nodes'[b] = nodes[b]
      /\ nodes'[a].cur_msgid = nodes[a].cur_msgid /\ nodes'[a].cmd = nodes[a].cmd
      /\ nodes'[a].reqid = nodes[a].reqid /\ ~ nodes'[a].need_write /\ ~ nodes'[a].init_flg
      /\ rpcRx' \in [Apps -> Seq(K!Request)] /\ \A b \in Apps : b # a => rpcRx'[b] = rpcRx[b]
      /\ rpcRx'[a] = Append(rpcRx[a], recv.pack)
  BY <1>2 DEF Passed, Receiving
<1>5. \A b \in Apps : Grows(b)
  BY <1>1, <1>3, Untouched
<1>6. /\ \A b \in Apps : /\ nodes'[b].cmd = nodes[b].cmd /\ nodes'[b].reqid = nodes[b].reqid
                         /\ nodes'[b].cur_msgid = nodes[b].cur_msgid
                         /\ Clearing(b)' = Clearing(b) /\ (Fresh(b)' => Fresh(b))
      /\ Asked' = Asked
  BY <1>3, <1>4 DEF Fresh, Clearing, Asked
<1>7. /\ Len(rpcRx[a]) \in Nat /\ DOMAIN rpcRx[a] = 1 .. Len(rpcRx[a])
      /\ DOMAIN rpcRx'[a] = 1 .. Len(rpcRx[a]) + 1 /\ Len(rpcRx'[a]) = Len(rpcRx[a]) + 1
      /\ \A k \in 1 .. Len(rpcRx[a]) : rpcRx'[a][k] = rpcRx[a][k]
      /\ rpcRx'[a][Len(rpcRx[a]) + 1] = recv.pack
  BY <1>1, <1>4, Typed, AppendFacts
<1>8. KindsInv'
  <2>1. ClientInv' /\ WiresInv'
    BY <1>1, <1>3, <1>4 DEF KindsInv, ClientInv, WiresInv, Frames
  <2>2. NodesInv'
    <3>1. nodes' \in [Apps -> Nod'] /\ calling' \in Calling /\ msgid' \in Nat
      BY <1>1, <1>3, <1>4 DEF KindsInv, NodesInv, Nod
    <3>2. nodes'[a].init_flg = FALSE /\ nodes'[a].need_write = FALSE
      BY <1>4 DEF Nod
    <3>3. ASSUME NEW b \in Apps, b # a
          PROVE  /\ nodes'[b].init_flg = nodes'[b].need_write
                 /\ nodes'[b].need_write => nodes'[b].cmd \in K!Calls /\ nodes'[b].reqid \in Reqs
      BY <1>1, <1>4, <3>3 DEF KindsInv, NodesInv
    <3>4. \A b \in Apps : /\ nodes'[b].init_flg = nodes'[b].need_write
                          /\ nodes'[b].need_write => nodes'[b].cmd \in K!Calls /\ nodes'[b].reqid \in Reqs
      BY <3>2, <3>3
    <3> QED
      BY <3>1, <3>4 DEF NodesInv
  <2>3. ThreadsInv'
    <3>1. recv' \in [pc : {"idle", "proc"}, node : Apps \cup {"none"}, pack : K!Request \cup {K!NoPack}]
      BY <1>4
    <3>2. \A b \in Apps : nodes'[b].cmd = nodes[b].cmd /\ nodes'[b].cur_msgid = nodes[b].cur_msgid
      BY <1>6
    <3> QED
      BY <1>1, <1>3, <1>4, <3>1, <3>2 DEF KindsInv, ThreadsInv
  <2> QED
    BY <2>1, <2>2, <2>3 DEF KindsInv
<1>9. OrderInv'
  <2>1. ASSUME NEW q \in Asked PROVE Sent(q)'
    <3>1. q.call.app \in Apps /\ Sent(q)
      BY <1>1, AskedFacts DEF OrderInv
    <3> QED
      BY <1>6, <3>1 DEF Sent
  <2>2. \A b \in Apps : /\ nodes'[b].cmd.no <= Len(log'[b])
                        /\ nodes'[b].cmd \in K!Calls => nodes'[b].cmd.app = b
                        /\ Queued(b)'
    BY <1>1, <1>3, <1>6 DEF OrderInv, Queued
  <2> QED
    BY <1>6, <2>1, <2>2 DEF OrderInv
<1>10. OnceInv'
  BY <1>1, <1>3 DEF OnceInv, K!AtMostOnce, Distinct
<1>11. IdsInv'
  <2>1. ASSUME calling.unset = {0}, NEW b \in Apps, NEW i \in DOMAIN rpcRx'[b]
        PROVE  rpcRx'[b][i].call.app = b
    <3>1. CASE b = a
      <4>1. \A k \in DOMAIN rpcRx[a] : rpcRx[a][k].call.app = a
        BY <1>1, <2>1 DEF IdsInv
      <4>2. recv.pack.call.app = a
        BY <1>1, <1>4, <2>1 DEF IdsInv
      <4>3. CASE i \in 1 .. Len(rpcRx[a])
        BY <1>7, <3>1, <4>1, <4>3
      <4>4. CASE i = Len(rpcRx[a]) + 1
        BY <1>7, <3>1, <4>2, <4>4
      <4> QED
        BY <1>7, <2>1, <3>1, <4>3, <4>4
    <3>2. CASE b # a
      BY <1>1, <1>4, <2>1, <3>2 DEF IdsInv
    <3> QED
      BY <3>1, <3>2
  <2> QED
    BY <1>1, <1>3, <1>4, <1>6, <2>1 DEF IdsInv, K!Answered
<1>12. AskInv'
  BY <1>1, <1>3, <1>5, <1>6, AskTxSame, AskNodSame, AskDevSame DEF AskInv
<1>13. FlowInv'
  <2>1. ASSUME NEW b \in Apps, b # a PROVE Flow(b)'
    <3>1. ~ Receiving(b) /\ Receiving(b)' = Receiving(b)
      BY <1>4, <2>1 DEF Receiving
    <3>2. SameFlow(b)
      BY <1>3, <1>4, <1>6, <2>1, <3>1 DEF SameFlow, Clearing
    <3> QED
      BY <1>1, <2>1, <3>2, FlowKept DEF FlowInv
  <2>2. ASSUME Calm(a)' PROVE AtOne(a)' /\ Own(a)' /\ K!Waiting(a)'
    <3>1. Calm(a) /\ Receiving(a)
      BY <1>3, <1>4, <2>2 DEF Calm, Receiving
    <3>2. AtOne(a) /\ Own(a) /\ K!Waiting(a)
      BY <1>1, <3>1 DEF FlowInv, Flow, Rest
    <3>3. /\ rpcTx[a] = <<>> /\ ~ Fresh(a) /\ Of(down, a) = {} /\ Of(up, a) = {}
          /\ rpcRx[a] = <<>> /\ ~ Waking(a) /\ recv.pack = Current(a)
      BY <3>1, <3>2 DEF AtOne, Own
    <3>4. Len(rpcRx'[a]) = 1 /\ rpcRx'[a][1] = Current(a)
      BY <1>1, <1>7, <3>3, Typed
    <3>5. /\ rpcTx'[a] = <<>> /\ ~ Fresh(a)' /\ Of(down, a)' = {} /\ Of(up, a)' = {}
          /\ ~ Waking(a)' /\ Current(a)' = Current(a) /\ ~ Receiving(a)'
      BY <1>3, <1>4, <1>6, <3>3 DEF Of, Waking, Current, Receiving
    <3>6. AtOne(a)'
      BY <3>5 DEF AtOne, Waking
    <3>7. Own(a)'
      BY <3>4, <3>5 DEF Own, Only
    <3>8. K!Waiting(a)'
      BY <1>3, <3>2 DEF K!Waiting, K!Last
    <3> QED
      BY <3>6, <3>7, <3>8
  <2> QED
    BY <2>1, <2>2 DEF FlowInv, Flow
<1>14. AnswersInv'
  BY <1>1, <1>3 DEF AnswersInv, K!Answered, K!InStep
<1> QED
  BY <1>8, <1>9, <1>10, <1>11, <1>12, <1>13, <1>14 DEF IoctlInv

\* An answer of the device keeps IoctlInv.
LEMMA DevReplyStep ==
  ASSUME IoctlInv, K!DevReply
  PROVE  IoctlInv'
<1>1. KindsInv /\ OrderInv /\ OnceInv /\ IdsInv /\ AskInv /\ FlowInv /\ AnswersInv
  BY DEF IoctlInv
<1>2. PICK f \in Frames : Replied(f)
  BY <1>1, ReplyEffect
<1>3. UNCHANGED <<log, ses, rpcTx, rpcRx, nodes, msgid, send, recv, calling>>
  BY DEF K!DevReply, K!client, K!daemon
<1>4. /\ down # <<>> /\ f = Head(down) /\ f \in ToSet(down) /\ f.pack \in K!Request
      /\ down' = Tail(down) /\ down' \in Seq(Frames)
      /\ up' = Append(up, f) /\ up' \in Seq(Frames)
      /\ ToSet(up') = ToSet(up) \cup {f}
      /\ exec' = Append(exec, f.pack) /\ exec' \in Seq(K!Request)
      /\ ToSet(exec') = ToSet(exec) \cup {f.pack}
  BY <1>2 DEF Replied
<1>5. /\ down \in Seq(Frames) /\ up \in Seq(Frames) /\ exec \in Seq(K!Request)
      /\ Distinct(down) /\ Distinct(up) /\ K!AtMostOnce
  BY <1>1 DEF KindsInv, WiresInv, OnceInv
<1>6. /\ Distinct(down') /\ ToSet(down') = ToSet(down) \ {f}
      /\ \A g \in ToSet(down') : g.pack.call # f.pack.call
  BY <1>4, <1>5, DistinctTail
<1>7. \A r \in ToSet(exec) : r.call # f.pack.call
  BY <1>1, <1>4 DEF OnceInv
<1>8. /\ \A b \in Apps : Fresh(b)' = Fresh(b) /\ Clearing(b)' = Clearing(b)
      /\ Asked' \subseteq Asked
  <2>1. Asked' \subseteq Asked
    BY <1>4, <1>6 DEF Asked
  <2> QED
    BY <1>3, <2>1 DEF Fresh, Clearing
<1>9. \A b \in Apps : Grows(b)
  BY <1>1, <1>3, Untouched
<1>10. KindsInv'
  <2>1. ClientInv' /\ NodesInv' /\ ThreadsInv'
    BY <1>1, <1>3 DEF KindsInv, ClientInv, NodesInv, ThreadsInv, Nod
  <2>2. WiresInv'
    BY <1>1, <1>3, <1>4 DEF KindsInv, WiresInv, Frames
  <2> QED
    BY <2>1, <2>2 DEF KindsInv
<1>11. OrderInv'
  <2>1. \A q \in Asked' : Sent(q)'
    BY <1>1, <1>3, <1>8 DEF OrderInv, Sent, Fresh, Clearing
  <2> QED
    BY <1>1, <1>3, <2>1 DEF OrderInv, Queued
<1>12. OnceInv'
  <2>1. K!AtMostOnce'
    <3>1. /\ Len(exec) \in Nat /\ DOMAIN exec = 1 .. Len(exec)
          /\ DOMAIN exec' = 1 .. Len(exec) + 1
          /\ \A k \in 1 .. Len(exec) : exec'[k] = exec[k] /\ exec[k].call # f.pack.call
          /\ exec'[Len(exec) + 1] = f.pack
      BY <1>4, <1>5, <1>7, AppendFacts, Elements
    <3>2. SUFFICES ASSUME NEW i \in DOMAIN exec', NEW j \in DOMAIN exec',
                          exec'[i].call = exec'[j].call
                   PROVE  i = j
      BY DEF K!AtMostOnce
    <3>3. CASE i \in 1 .. Len(exec) /\ j \in 1 .. Len(exec)
      BY <1>5, <3>1, <3>2, <3>3 DEF K!AtMostOnce
    <3>4. CASE i = Len(exec) + 1 \/ j = Len(exec) + 1
      BY <3>1, <3>2, <3>4
    <3> QED
      BY <3>1, <3>3, <3>4
  <2>2. Distinct(up')
    <3>1. \A g \in ToSet(up) : g.pack.call # f.pack.call
      BY <1>1, <1>7 DEF OnceInv
    <3> QED
      BY <1>4, <1>5, <3>1, DistinctAppend
  <2>3. \A r \in ToSet(exec'), g \in ToSet(down') : r.call # g.pack.call
    BY <1>1, <1>4, <1>6 DEF OnceInv
  <2>4. \A g \in ToSet(up') : g.pack \in ToSet(exec')
    BY <1>1, <1>4 DEF OnceInv
  <2>5. Distinct(down)' /\ Distinct(up)'
    BY <1>6, <2>2 DEF Distinct
  <2> QED
    BY <2>1, <2>3, <2>4, <2>5 DEF OnceInv
<1>13. IdsInv'
  <2>1. ToSet(down') \cup ToSet(up') \subseteq ToSet(down) \cup ToSet(up)
    BY <1>4, <1>6
  <2> QED
    BY <1>1, <1>3, <2>1 DEF IdsInv, K!Answered
<1>14. AskInv'
  BY <1>1, <1>3, <1>8, <1>9, AskTxSame, AskNodSame, AskDevSame DEF AskInv
<1>15. FlowInv'
  <2>1. SUFFICES ASSUME NEW b \in Apps, Calm(b)'
                 PROVE  AtOne(b)' /\ Own(b)' /\ (~ K!Waiting(b)' => Rest(b)')
    BY DEF FlowInv, Flow
  <2>2. Calm(b)
    BY <1>3, <2>1 DEF Calm
  <2>3. AtOne(b) /\ Own(b) /\ (~ K!Waiting(b) => Rest(b))
    BY <1>1, <2>2 DEF FlowInv, Flow
  <2>4. CASE f.pack.call.app = b
    <3>1. f \in Of(down, b) /\ f.pack = Current(b)
      BY <1>4, <2>3, <2>4 DEF Of, Own
    <3>2. Of(down', b) = {}
      <4>1. ASSUME NEW g \in Of(down', b) PROVE FALSE
        <5>1. g \in Of(down, b) /\ g \in ToSet(down')
          BY <1>6, <4>1 DEF Of
        <5>2. g.pack = Current(b)
          BY <2>3, <5>1 DEF Own
        <5> QED
          BY <1>6, <3>1, <5>1, <5>2
      <4> QED
        BY <4>1
    <3>3. /\ rpcTx[b] = <<>> /\ ~ Fresh(b) /\ Of(up, b) = {} /\ ~ Receiving(b)
          /\ rpcRx[b] = <<>> /\ ~ Waking(b) /\ K!Waiting(b)
      BY <2>3, <3>1 DEF AtOne, Rest
    <3>4. Of(up', b) = {f}
      BY <1>4, <2>4, <3>3 DEF Of
    <3>5. /\ rpcTx'[b] = <<>> /\ ~ Fresh(b)' /\ Of(down, b)' = {} /\ Of(up, b)' = {f}
          /\ ~ Receiving(b)' /\ rpcRx'[b] = <<>> /\ ~ Waking(b)' /\ K!Waiting(b)'
          /\ Current(b)' = f.pack
      BY <1>3, <1>8, <3>1, <3>2, <3>3, <3>4 DEF Of, Waking, Receiving, Current, K!Waiting, K!Last
    <3>6. AtOne(b)'
      BY <3>5 DEF AtOne, Waking
    <3>7. Own(b)'
      BY <3>5 DEF Own
    <3> QED
      BY <3>5, <3>6, <3>7
  <2>5. CASE f.pack.call.app # b
    <3>1. Of(down', b) = Of(down, b) /\ Of(up', b) = Of(up, b)
      BY <1>4, <1>6, <2>5 DEF Of
    <3>2. SameFlow(b)
      BY <1>3, <1>8, <3>1 DEF SameFlow, Receiving
    <3> QED
      BY <1>1, <2>1, <3>2, FlowKept DEF FlowInv, Flow
  <2> QED
    BY <2>4, <2>5
<1>16. AnswersInv'
  BY <1>1, <1>3 DEF AnswersInv, K!Answered, K!InStep
<1> QED
  BY <1>10, <1>11, <1>12, <1>13, <1>14, <1>15, <1>16 DEF IoctlInv

\* It holds at first.
LEMMA InitInv == K!Init => IoctlInv
<1> SUFFICES ASSUME K!Init PROVE IoctlInv
  OBVIOUS
<1>1. /\ \A a \in Apps : /\ log[a] = <<>> /\ rpcTx[a] = <<>> /\ rpcRx[a] = <<>>
                         /\ ses[a].rx = "read" /\ ~ ses[a].wakeup_set /\ ses[a].sta = K!NoPack
                         /\ ses[a] \in Ses
                         /\ nodes[a] \in [reqid : {"none"}, cmd : {K!NoCall}, need_write : {FALSE},
                                        init_flg : {FALSE}, cur_msgid : calling.unset]
      /\ down = <<>> /\ up = <<>> /\ exec = <<>> /\ msgid = 0
      /\ send.pc = "scan" /\ recv.pc = "idle"
  BY DEF K!Init, Ses
<1>2. /\ ToSet(down) = {} /\ ToSet(up) = {} /\ ToSet(exec) = {}
      /\ DOMAIN down = {} /\ DOMAIN up = {} /\ DOMAIN exec = {}
  BY <1>1 DEF ToSet
<1>3. \A a \in Apps : DOMAIN log[a] = {} /\ DOMAIN rpcTx[a] = {} /\ DOMAIN rpcRx[a] = {}
  <2>1. DOMAIN <<>> = {}
    OBVIOUS
  <2> QED
    BY <1>1, <2>1
<1>4. ASSUME NEW a \in Apps PROVE ~ Fresh(a) /\ ~ Clearing(a) /\ ~ Receiving(a) /\ ~ Waking(a)
  <2>1. ~ nodes[a].need_write
    BY <1>1
  <2>2. ses[a].rx = "read" /\ ~ ses[a].wakeup_set
    BY <1>1
  <2> QED
    BY <1>1, <2>1, <2>2 DEF Fresh, Clearing, Receiving, Waking
<1>5. KindsInv
  <2>1. ClientInv
    <3>1. ses \in [Apps -> Ses]
      BY <1>1 DEF K!Init
    <3>2. log \in [Apps -> Seq(Logged)]
      BY DEF K!Init
    <3> QED
      BY <1>1, <1>3, <3>1, <3>2 DEF ClientInv
  <2>2. WiresInv
    BY <1>1 DEF K!Init, WiresInv
  <2>3. NodesInv
    <3>1. \A a \in Apps : nodes[a] \in Nod /\ nodes[a].init_flg = nodes[a].need_write /\ ~ nodes[a].need_write
      BY <1>1 DEF Nod
    <3>2. nodes \in [Apps -> Nod]
      BY <3>1 DEF K!Init
    <3> QED
      BY <1>1, <3>1, <3>2 DEF K!Init, NodesInv
  <2>4. ThreadsInv
    BY <1>1 DEF K!Init, ThreadsInv
  <2> QED
    BY <2>1, <2>2, <2>3, <2>4 DEF KindsInv
<1>6. OrderInv
  <2>1. ASSUME NEW a \in Apps PROVE nodes[a].cmd = K!NoCall /\ Len(log[a]) = 0
    BY <1>1, EmptySeq
  <2> QED
    BY <1>2, <1>3, <2>1, Sorts DEF OrderInv, Queued, Asked
<1>7. OnceInv
  BY <1>2 DEF OnceInv, K!AtMostOnce, Distinct
<1>8. IdsInv
  <2>1. ASSUME NEW a \in Apps
        PROVE  /\ calling.unset = {0} => nodes[a].cur_msgid = 0
               /\ ses[a].sta = K!NoPack /\ K!Answered(a) = {}
    <3>1. nodes[a].cur_msgid \in calling.unset
      BY <1>1
    <3>2. ses[a].sta = K!NoPack
      BY <1>1
    <3>3. K!Answered(a) = {}
      BY <1>3 DEF K!Answered
    <3> QED
      BY <3>1, <3>2, <3>3
  <2> QED
    BY <1>1, <1>2, <1>3, <2>1 DEF IdsInv
<1>9. AskInv
  BY <1>2, <1>3, <1>4 DEF AskInv, AskTx, AskNod, AskDev, Asked
<1>10. FlowInv
  BY <1>1, <1>2, <1>4 DEF FlowInv, Flow, AtOne, Own, Rest, Of, Waking
<1>11. AnswersInv
  BY <1>3 DEF AnswersInv, K!Answered
<1> QED
  BY <1>5, <1>6, <1>7, <1>8, <1>9, <1>10, <1>11 DEF IoctlInv

\* Every step of module Ioctl keeps it.
LEMMA NextInv == IoctlInv /\ [K!Next]_(K!vars) => IoctlInv'
<1> SUFFICES ASSUME IoctlInv, [K!Next]_(K!vars) PROVE IoctlInv'
  OBVIOUS
<1>1. CASE UNCHANGED K!vars
  <2>1. UNCHANGED <<log, ses, rpcTx, rpcRx, nodes, msgid, send, recv, down, up, exec, calling>>
    BY <1>1 DEF K!vars, K!client, K!daemon, K!device
  <2>2. KindsInv /\ OrderInv /\ OnceInv /\ IdsInv /\ AskInv /\ FlowInv /\ AnswersInv
    BY DEF IoctlInv
  <2>3. KindsInv'
    BY <2>1, <2>2
    DEF KindsInv, ClientInv, WiresInv, NodesInv, ThreadsInv, Nod, Frames
  <2>4. OrderInv'
    BY <2>1, <2>2 DEF OrderInv, Queued, Asked, Sent, Fresh, Clearing
  <2>5. OnceInv' /\ IdsInv' /\ AnswersInv'
    BY <2>1, <2>2 DEF OnceInv, K!AtMostOnce, Distinct, IdsInv, K!Answered, AnswersInv, K!InStep
  <2>6. AskInv'
    BY <2>1, <2>2 DEF AskInv, AskTx, AskNod, AskDev, Asked, Fresh, Clearing, K!InStep
  <2>7. FlowInv'
    <3>1. \A b \in Apps : SameFlow(b)
      BY <2>1 DEF SameFlow, Clearing, Receiving
    <3> QED
      BY <2>2, <3>1, FlowKept DEF FlowInv
  <2> QED
    BY <2>3, <2>4, <2>5, <2>6, <2>7 DEF IoctlInv
<1>2. ASSUME NEW a \in Apps, K!Call(a) PROVE IoctlInv'
  BY <1>2, CallStep
<1>3. ASSUME NEW a \in Apps, K!Wake(a) PROVE IoctlInv'
  BY <1>3, WakeStep
<1>4. ASSUME NEW a \in Apps, K!Timeout(a) PROVE IoctlInv'
  BY <1>4, TimeoutStep
<1>5. ASSUME NEW a \in Apps, K!ClientRecv(a) PROVE IoctlInv'
  BY <1>5, ClientRecvStep
<1>6. ASSUME NEW a \in Apps, K!ClientWake(a) PROVE IoctlInv'
  BY <1>6, ClientWakeStep
<1>7. ASSUME NEW a \in Apps, K!RpcRead(a) PROVE IoctlInv'
  BY <1>7, RpcReadStep
<1>8. CASE K!SendThread
  BY <1>8, ScanStep, PackMakeStep, PackSentStep DEF K!SendThread
<1>9. CASE K!RecvThread
  BY <1>9, RecvFindStep, RecvProcStep DEF K!RecvThread
<1>10. CASE K!DevReply
  BY <1>10, DevReplyStep
<1> QED
  BY <1>1, <1>2, <1>3, <1>4, <1>5, <1>6, <1>7, <1>8, <1>9, <1>10 DEF K!Next, K!ReadThread

\* The types of module Ioctl follow from it.
LEMMA InvTypes == IoctlInv => K!TypeOK
<1> SUFFICES ASSUME IoctlInv PROVE K!TypeOK
  OBVIOUS
<1>1. KindsInv
  BY DEF IoctlInv
<1>2. \A f \in ToSet(down) \cup ToSet(up) : f.pack \in K!Request /\ f.msgid \in 1 .. msgid
  <2>1. ToSet(down) \subseteq Frames /\ ToSet(up) \subseteq Frames
    BY <1>1, Elements DEF KindsInv, WiresInv
  <2> QED
    BY <2>1 DEF Frames
<1>3. \A f \in K!ToSet(down) \cup K!ToSet(up) : f.pack \in K!Request /\ f.msgid \in 1 .. msgid
  BY <1>2 DEF ToSet, K!ToSet
<1> QED
  BY <1>1, <1>3
  DEF K!TypeOK, KindsInv, ClientInv, WiresInv, NodesInv, ThreadsInv, Logged, Ses, Nod

\* So does OwnAnswer: what AnswersInv says of each call.
LEMMA InvAnswers == IoctlInv => K!OwnAnswer
<1> SUFFICES ASSUME IoctlInv, NEW a \in Apps, NEW i \in K!Answered(a)
             PROVE  /\ calling.unset = {0} => log[a][i].got.call.app = a
                    /\ K!InStep(a, i) =>
                         log[a][i].got = [req |-> log[a][i].req, call |-> [app |-> a, no |-> i]]
  BY DEF K!OwnAnswer
<1> QED
  BY DEF IoctlInv, IdsInv, AnswersInv

\* So does that the device runs each request as it was asked and once: AskInv
\* and OnceInv.
LEMMA InvAsked == IoctlInv => K!RunsWhatWasAsked /\ K!AtMostOnce
<1>1. IoctlInv => K!RunsWhatWasAsked
  <2>1. SUFFICES ASSUME IoctlInv, NEW e \in ToSet(exec), K!InStep(e.call.app, e.call.no)
                 PROVE  e.req = log[e.call.app][e.call.no].req
    BY DEF K!RunsWhatWasAsked, ToSet, K!ToSet
  <2> QED
    BY <2>1 DEF IoctlInv, AskInv, AskDev, Asked
<1> QED
  BY <1>1 DEF IoctlInv, OnceInv

\* A step of the part "callback" leaves the ioctl variables alone, one of the
\* part "ioctl" is a step of module Ioctl.
LEMMA IoctlStep == IoctlInv /\ [PartsNext]_allVars => IoctlInv'
<1>1. [PartsNext]_allVars => [K!Next]_(K!vars)
  BY DEF PartsNext, allVars, ioctlVars, K!vars, K!client, K!daemon, K!device
<1> QED
  BY <1>1, NextInv

\* The inductive invariant of the ioctl path, for any number of applications,
\* calls and request ids.
LEMMA IoctlAlways == PartsSpec => []IoctlInv
<1>1. PartsInit => IoctlInv
  BY InitInv DEF PartsInit
<1> QED
  BY <1>1, IoctlStep, PTL DEF PartsSpec

\* Every call that returned before any call of its application timed out got
\* the answer of the device to that very call.
THEOREM OwnAnswersHolds == PartsSpec => []OwnAnswers
<1>1. IoctlInv => OwnAnswers
  BY InvTypes, InvAnswers DEF OwnAnswers, K!OwnAnswers
<1> QED
  BY <1>1, IoctlAlways, PTL

\* The device runs only what an application asked, and runs each call at most
\* once.
THEOREM AskedOnceHolds == PartsSpec => []AskedOnce
<1>1. IoctlInv => AskedOnce
  BY InvAsked DEF AskedOnce, K!AskedOnce
<1> QED
  BY <1>1, IoctlAlways, PTL

-----------------------------------------------------------------------------
(* The event callbacks.                                                    *)

\* The types; the list holds one node at most, and a thread that has a node
\* has one of the nodes.
CbKinds ==
  /\ app \in [Subs -> {"idle", "waiting", "subscribed", "refused", "closed"}]
  /\ rpc \in [Subs -> Connection] /\ nod \in [Nodes -> Node]
  /\ work_list = <<>> \/ \E n \in Nodes : work_list = <<n>>
  /\ snd \in [pc : {"scan", "picked", "make", "tell", "mark", "free"}, node : Nodes \cup {NoNode}]
  /\ rcv \in [pc : {"idle", "proc", "ok", "mark", "fail", "flag", "notify"},
              node : Nodes \cup {NoNode}, pack : {"none", "ok", "fail", "event"}]
  /\ toDev \in Seq({"sub"}) /\ fromDev \in Seq({"ok", "fail", "event"})
  /\ events \in 0 .. MaxEvents
  /\ plug \in {"in", "out", "teardown", "stopped"} /\ cls_head \subseteq Nodes
  /\ setup \in Setups
  /\ snd.pc # "scan" => snd.node \in Nodes
  /\ rcv.pc # "idle" => rcv.node \in Nodes

\* A connection is with its node from the attaching to the end; the node the
\* send thread works on is in the list; the teardown alone has connections
\* give up a node.
CbLinks ==
  /\ \A s \in Subs :
       /\ rpc[s].pc # "none" => rpc[s].cbdev \in Nodes
       /\ rpc[s].pc # "none" \/ rpc[s].conn => s \in setup.subs
       /\ \A n \in Nodes : s \in nod[n].head => rpc[s].pc \in Attached /\ rpc[s].cbdev = n
       /\ rpc[s].pc \in Attached => s \in nod[rpc[s].cbdev].head
  /\ snd.pc \in {"picked", "make", "tell", "mark"} => work_list = <<snd.node>>
  /\ plug # "in" => toDev = <<>> /\ fromDev = <<>>
  /\ plug \in {"in", "out"} => /\ \A n \in Nodes : ~ nod[n].exitflg
                             /\ \A s \in Subs : rpc[s].pc \notin {"flag", "notify"}
  /\ setup.offline => toDev = <<>> /\ fromDev = <<>> /\ rcv.pc = "idle"
  /\ ~ setup.offline => snd.pc \notin {"tell", "mark"}

\* As long as the device stays and takes the subscription, no node is ever
\* marked to be freed.
AliveInv == ~ setup.fail /\ ~ setup.unplug =>
  /\ plug = "in" /\ snd.pc # "free"
  /\ rcv.pc \notin {"fail", "flag", "notify"} /\ rcv.pack # "fail"
  /\ \A k \in DOMAIN fromDev : fromDev[k] # "fail"
  /\ \A n \in Nodes : ~ nod[n].freeflag

\* A node is marked before it is freed, and the send thread, which frees
\* nodes, works on none that was; a node that a connection is attached to is
\* not given up, unless it was before.
KeptInv ==
  /\ \A n \in Nodes : /\ nod[n].mem = "freed" => nod[n].freeflag
                      /\ nod[n].mem = "none" => ~ nod[n].freeflag
                      /\ work_list = <<n>> => nod[n].mem # "none"
  /\ \A s \in Subs : /\ rpc[s].pc = "none" => nod[s].mem = "none"
                     /\ rpc[s].pc # "none" => nod[rpc[s].cbdev].mem # "none"
  /\ rcv.pc # "idle" => nod[rcv.node].mem # "none"
  /\ snd.pc = "free" => nod[snd.node].freeflag
  /\ snd.pc \in {"picked", "make", "tell", "mark"} => Live(snd.node)
  /\ \A s \in Subs : rpc[s].pc \in Attached /\ s \notin late => ~ GivenUp(rpc[s].cbdev)
  /\ late \subseteq Subs

\* What holds of every event.
BasicInv == CbKinds /\ CbLinks /\ AliveInv /\ KeptInv

\* While the device is there: an announced event keeps its node, that needs
\* no connection to ask for the command.
Status(n) == nod[n].status
AnnouncedInv == plug = "in" /\ setup.base =>
  /\ work_list = <<BaseNode>> /\ Status(BaseNode) # "not_init"
  /\ \A n \in Nodes : ~ nod[n].freeflag
  /\ rcv.pc \notin {"fail", "flag", "notify"} /\ rcv.pack # "fail"
  /\ \A k \in DOMAIN fromDev : fromDev[k] # "fail"
  /\ \A s \in Subs : rpc[s].pc # "start" /\ (rpc[s].pc # "none" => rpc[s].cbdev = BaseNode)

\* Of another event nothing happens before its one subscriber asked for the
\* command, which it does once.
Early == {"none", "found", "attached", "check", "start"}
Quiet == \A s \in Subs : rpc[s].pc \in Early
NewInv == plug = "in" /\ ~ setup.base =>
  /\ \A s \in Subs : rpc[s].pc # "none" => rpc[s].cbdev = s
  /\ \A s \in Subs : rpc[s].pc \in Early \ {"none"} => work_list = <<s>>
  /\ (\A s \in Subs : rpc[s].pc = "none") => work_list = <<>>
  /\ \A n \in Nodes : nod[n].freeflag \/ work_list = <<n>> => n \in setup.subs
  /\ Quiet => /\ toDev = <<>> /\ fromDev = <<>> /\ rcv.pc = "idle" /\ snd.pc = "scan"
              /\ \A n \in Nodes : Status(n) = "not_init" /\ ~ nod[n].freeflag

\* A node that does anything is the one in the list; one marked to be freed
\* has nothing on its way.
WorkInv == plug = "in" =>
  /\ \A n \in Nodes : Status(n) # "not_init" => work_list = <<n>>
  /\ \A n \in Nodes : nod[n].freeflag =>
       /\ Status(n) = "not_init" /\ ~ setup.offline /\ ~ setup.base
       /\ toDev = <<>> /\ fromDev = <<>> /\ rcv.pc \in {"idle", "notify"}
  /\ snd.pc \in {"tell", "mark"} => Status(snd.node) = "wait_usb_data"

\* One command or reply is on its way exactly while the node waits for it;
\* events come from a node that is subscribed.
AwaitsReply == \E n \in Nodes : Status(n) = "wait_usb_cmd"
CountInv == plug = "in" =>
  /\ RepliesOut = IF AwaitsReply THEN 1 ELSE 0
  /\ (\E k \in DOMAIN fromDev : fromDev[k] = "event") => Subscribed

\* What the receive thread has is for the node in the list, as its status
\* says.
RecvInv ==
  /\ plug = "in" /\ rcv.pc \notin {"idle", "notify"} => work_list = <<rcv.node>>
  /\ plug = "in" /\ rcv.pc = "proc" /\ rcv.pack = "event" => Status(rcv.node) = "wait_usb_data"
  /\ plug = "in" /\ rcv.pc = "proc" /\ rcv.pack # "event" => Status(rcv.node) = "wait_usb_cmd"
  /\ plug = "in" /\ rcv.pc \in {"ok", "mark"} => Status(rcv.node) = "wait_usb_data"
  /\ plug = "in" /\ rcv.pc \in {"fail", "flag", "notify"} => Status(rcv.node) = "not_init"
  /\ rcv.pc = "proc" /\ rcv.pack # "event" => Status(rcv.node) # "wait_usb_data"

\* A subscribed application is connected, and with the node that has the
\* event; it is marked, or about to be.
SubsInv == plug = "in" =>
  /\ \A s \in Subs : rpc[s].pc = "reply" =>
       rpc[s].initflag /\ Status(rpc[s].cbdev) = "wait_usb_data"
  /\ \A s \in Subs : app[s] = "subscribed" =>
       /\ rpc[s].conn
       /\ \E n \in Nodes : s \in nod[n].head /\ Status(n) = "wait_usb_data"
       /\ rpc[s].initflag \/ rcv.pc = "mark" \/ snd.pc = "mark"

\* What holds where the command is sent once.
CbInv == BasicInv /\ AnnouncedInv /\ NewInv /\ WorkInv /\ CountInv /\ RecvInv /\ SubsInv

\* The nodes are told apart from NoNode, and a list of one node has that node
\* only.
LEMMA CbWork ==
  /\ NoNode \notin Nodes /\ BaseNode \notin Subs /\ BaseNode \in Nodes
  /\ \A n : /\ <<n>> # <<>> /\ Head(<<n>>) = n /\ DOMAIN <<n>> = {1} /\ <<n>>[1] = n
            /\ ToSet(<<n>>) = {n}
            /\ RemoveAt(<<n>>, 1) = <<>>
            /\ \A m : <<n>> = <<m>> => n = m
  /\ ToSet(<<>>) = {} /\ DOMAIN <<>> = {}
<1>1. NoNode \notin Nodes /\ BaseNode \notin Subs /\ BaseNode \in Nodes
  BY SubsAssumption DEF Nodes, NoNode, BaseNode
<1>2. ASSUME NEW n
      PROVE  /\ <<n>> # <<>> /\ Head(<<n>>) = n /\ DOMAIN <<n>> = {1} /\ <<n>>[1] = n
             /\ \A m : <<n>> = <<m>> => n = m
  <2>1. <<n>> \in Seq({n}) /\ Len(<<n>>) = 1 /\ <<n>>[1] = n
    OBVIOUS
  <2>2. DOMAIN <<n>> = 1 .. 1
    BY <2>1
  <2>3. DOMAIN <<n>> = {1}
    BY <2>2
  <2>4. <<n>> # <<>> /\ Head(<<n>>) = n
    BY <2>1
  <2>5. ASSUME NEW m, <<n>> = <<m>>
        PROVE  n = m
    BY <2>5
  <2>6. QED
    BY <2>1, <2>3, <2>4, <2>5
<1>3. ASSUME NEW n
      PROVE  ToSet(<<n>>) = {n}
  BY <1>2 DEF ToSet
<1>4. ASSUME NEW n
      PROVE  RemoveAt(<<n>>, 1) = <<>>
  BY DEF RemoveAt
<1>5. ToSet(<<>>) = {} /\ DOMAIN <<>> = {}
  BY DEF ToSet
<1>6. QED
  BY <1>1, <1>2, <1>3, <1>4, <1>5

\* The setup is one of the constants, with applications that there are.
LEMMA SetupFacts == CbKinds => setup \in Setup /\ setup.subs \subseteq Subs
BY SetupsAssumption DEF CbKinds, Setup

\* The positions of an rpc thread; the fields of a connection and of a node,
\* one by one.
Pcs == {"none", "found", "attached", "reply", "check", "start", "read", "end", "flag",
        "notify", "done"}

\* A connection with another value of a field is a connection.
LEMMA RpcWith == ASSUME NEW c \in Connection
  PROVE  /\ \A p \in Pcs : /\ [c EXCEPT !.pc = p] \in Connection
                         /\ \A n \in Nodes : [c EXCEPT !.pc = p, !.cbdev = n] \in Connection
                         /\ \A b \in BOOLEAN : [c EXCEPT !.pc = p, !.initflag = b] \in Connection
         /\ \A b \in BOOLEAN : [c EXCEPT !.conn = b] \in Connection
         /\ \A b \in BOOLEAN : [c EXCEPT !.initflag = b] \in Connection
<1>1. \A p \in Pcs : /\ [c EXCEPT !.pc = p] \in Connection
                         /\ \A n \in Nodes : [c EXCEPT !.pc = p, !.cbdev = n] \in Connection
  BY DEF Connection, Pcs
<1>2. \A p \in Pcs : \A b \in BOOLEAN : [c EXCEPT !.pc = p, !.initflag = b] \in Connection
  BY DEF Connection, Pcs
<1>3.  \A b \in BOOLEAN : [c EXCEPT !.conn = b] \in Connection
  BY DEF Connection, Pcs
<1>4. \A b \in BOOLEAN : [c EXCEPT !.initflag = b] \in Connection
  BY DEF Connection, Pcs
<1> QED BY <1>1, <1>2, <1>3, <1>4

\* A node with another value of a field is a node.
LEMMA NodWith == ASSUME NEW c \in Node
  PROVE  /\ [c EXCEPT !.mem = "live"] \in Node
         /\ [c EXCEPT !.mem = "freed"] \in Node
         /\ \A p \in {"not_init", "need_send_cmd", "wait_usb_cmd", "wait_usb_data"} : [c EXCEPT !.status = p] \in Node
         /\ \A b \in BOOLEAN : [c EXCEPT !.freeflag = b] \in Node
         /\ \A b, d \in BOOLEAN : [c EXCEPT !.exitflg = b, !.freeflag = d] \in Node
         /\ \A h \in SUBSET Subs : [c EXCEPT !.head = h] \in Node
<1>1.  /\ [c EXCEPT !.mem = "live"] \in Node
         /\ [c EXCEPT !.mem = "freed"] \in Node
  BY DEF Node
<1>2. \A p \in {"not_init", "need_send_cmd", "wait_usb_cmd", "wait_usb_data"} : [c EXCEPT !.status = p] \in Node
  BY DEF Node
<1>3.  \A b \in BOOLEAN : [c EXCEPT !.freeflag = b] \in Node
  BY DEF Node
<1>4.  \A b, d \in BOOLEAN : [c EXCEPT !.exitflg = b, !.freeflag = d] \in Node
  BY DEF Node
<1>5. \A h \in SUBSET Subs : [c EXCEPT !.head = h] \in Node
  BY DEF Node
<1> QED BY <1>1, <1>2, <1>3, <1>4, <1>5

\* What a step leaves of a connection, and of a node.
Same(t) == rpc'[t].pc = rpc[t].pc /\ rpc'[t].cbdev = rpc[t].cbdev
SameConn(t) == rpc'[t].conn = rpc[t].conn
SameMark(t) == rpc'[t].initflag = rpc[t].initflag
SameNode(m) == /\ nod'[m].mem = nod[m].mem /\ nod'[m].freeflag = nod[m].freeflag
               /\ nod'[m].exitflg = nod[m].exitflg /\ nod'[m].head = nod[m].head

\* The states of a node.
Statuses == {"not_init", "need_send_cmd", "wait_usb_cmd", "wait_usb_data"}

\* Setting the status of one node leaves all else.
LEMMA StatusSet ==
  ASSUME CbKinds, NEW n \in Nodes, NEW st \in Statuses, nod' = [nod EXCEPT ![n].status = st]
  PROVE  /\ nod' \in [Nodes -> Node]
         /\ \A m \in Nodes : /\ SameNode(m)
                             /\ nod'[m].status = IF m = n THEN st ELSE nod[m].status
<1>1. nod \in [Nodes -> Node]
  BY DEF CbKinds
<1>2. [nod[n] EXCEPT !.status = st] \in Node
  BY <1>1, NodWith DEF Statuses
<1>3. nod' \in [Nodes -> Node]
  BY <1>1, <1>2
<1>4. ASSUME NEW m \in Nodes
      PROVE  SameNode(m) /\ nod'[m].status = IF m = n THEN st ELSE nod[m].status
  <2>1. CASE m = n
    <3>1. nod'[m] = [nod[n] EXCEPT !.status = st]
      BY <1>1, <2>1
    <3>2. QED
      BY <1>1, <2>1, <3>1 DEF SameNode, Node
  <2>2. CASE m # n
    BY <1>1, <2>2 DEF SameNode
  <2>3. QED
    BY <2>1, <2>2
<1>5. QED
  BY <1>3, <1>4

\* Marking the subscribers of a node sets initflag and nothing else.
LEMMA MarkEffect ==
  ASSUME CbKinds, NEW n \in Nodes, MarkAll(n)
  PROVE  /\ rpc' \in [Subs -> Connection]
         /\ \A t \in Subs : /\ Same(t) /\ SameConn(t)
                            /\ rpc[t].initflag => rpc'[t].initflag
                            /\ t \in nod[n].head => rpc'[t].initflag
                            /\ rpc'[t].initflag => rpc[t].initflag \/ t \in nod[n].head
<1>1. rpc \in [Subs -> Connection]
  BY DEF CbKinds
<1>2. ASSUME NEW t \in Subs
      PROVE  [rpc[t] EXCEPT !.initflag = @ \/ t \in nod[n].head] \in Connection
  <2>1. (rpc[t].initflag \/ t \in nod[n].head) \in BOOLEAN
    OBVIOUS
  <2>2. QED
    BY <1>1, <2>1, RpcWith
<1>3. rpc' \in [Subs -> Connection]
  BY <1>2 DEF MarkAll
<1>4. ASSUME NEW t \in Subs
      PROVE  /\ Same(t) /\ SameConn(t)
             /\ rpc[t].initflag => rpc'[t].initflag
             /\ t \in nod[n].head => rpc'[t].initflag
             /\ rpc'[t].initflag => rpc[t].initflag \/ t \in nod[n].head
  <2>1. rpc'[t] = [rpc[t] EXCEPT !.initflag = @ \/ t \in nod[n].head]
    BY DEF MarkAll
  <2>2. rpc[t] \in Connection
    BY <1>1
  <2>3. Same(t) /\ SameConn(t)
    BY <2>1, <2>2 DEF Same, SameConn, Connection
  <2>4. rpc'[t].initflag = (rpc[t].initflag \/ t \in nod[n].head)
    BY <2>1, <2>2 DEF Connection
  <2>5. QED
    BY <2>3, <2>4
<1>5. QED
  BY <1>3, <1>4

\* What RpcFind does: the connection gets node n, that the list then holds.
FoundNode(s, n) ==
  /\ rpc' \in [Subs -> Connection] /\ nod' \in [Nodes -> Node]
  /\ work_list' = <<n>>
  /\ rpc[s].pc = "none" /\ rpc[s].conn
  /\ rpc'[s].pc = "found" /\ rpc'[s].cbdev = n
  /\ \A t \in Subs : (t # s => Same(t)) /\ SameConn(t) /\ SameMark(t)
  /\ \A m \in Nodes : /\ nod'[m].status = nod[m].status /\ nod'[m].freeflag = nod[m].freeflag
                      /\ nod'[m].exitflg = nod[m].exitflg /\ nod'[m].head = nod[m].head
                      /\ (m # n => nod'[m].mem = nod[m].mem)
  /\ \/ work_list = <<n>> /\ nod'[n].mem = nod[n].mem
     \/ work_list = <<>> /\ n = s /\ nod'[n].mem = "live"

\* Finding the node of the event, or making one, comes to the same: the list
\* holds the node of the connection.
LEMMA JoinEffect ==
  ASSUME CbKinds, NEW s \in Subs, RpcFind(s)
  PROVE  \E n \in Nodes : FoundNode(s, n)
<1>1. rpc \in [Subs -> Connection] /\ nod \in [Nodes -> Node] /\ s \in Nodes
  BY DEF CbKinds, Nodes
<1>2. PICK n \in Nodes : \/ work_list = <<n>> /\ nod' = nod
                         \/ work_list = <<>> /\ n = s /\ nod' = [nod EXCEPT ![n].mem = "live"]
  BY <1>1, CbWork DEF RpcFind, CbKinds
<1>3. work_list' = <<n>> /\ rpc' = [rpc EXCEPT ![s].pc = "found", ![s].cbdev = n]
  <2>1. CASE work_list = <<n>>
    BY <2>1, CbWork DEF RpcFind
  <2>2. CASE work_list = <<>> /\ n = s
    BY <2>2 DEF RpcFind
  <2>3. QED
    BY <1>2, <2>1, <2>2
<1>4. [rpc[s] EXCEPT !.pc = "found", !.cbdev = n] \in Connection
  BY <1>1, RpcWith DEF Pcs
<1>5. rpc' \in [Subs -> Connection]
  BY <1>1, <1>3, <1>4
<1>6. rpc'[s] = [rpc[s] EXCEPT !.pc = "found", !.cbdev = n] /\ rpc[s] \in Connection
  BY <1>1, <1>3
<1>7. rpc'[s].pc = "found" /\ rpc'[s].cbdev = n /\ SameConn(s) /\ SameMark(s)
  BY <1>6 DEF Connection, SameConn, SameMark
<1>8. ASSUME NEW t \in Subs, t # s
      PROVE  Same(t) /\ SameConn(t) /\ SameMark(t)
  BY <1>1, <1>3, <1>8 DEF Same, SameConn, SameMark
<1>9. [nod[n] EXCEPT !.mem = "live"] \in Node
  BY <1>1, NodWith
<1>10. nod' \in [Nodes -> Node]
  BY <1>1, <1>2, <1>9
<1>11. ASSUME NEW m \in Nodes
       PROVE  /\ nod'[m].status = nod[m].status /\ nod'[m].freeflag = nod[m].freeflag
              /\ nod'[m].exitflg = nod[m].exitflg /\ nod'[m].head = nod[m].head
              /\ (m # n => nod'[m].mem = nod[m].mem)
  <2>1. nod'[m] = nod[m] \/ (m = n /\ nod'[m] = [nod[n] EXCEPT !.mem = "live"])
    <3>1. CASE nod' = nod
      BY <3>1
    <3>2. CASE n = s /\ nod' = [nod EXCEPT ![n].mem = "live"]
      BY <1>1, <3>2
    <3>3. QED
      BY <1>2, <3>1, <3>2
  <2>2. nod[m] \in Node /\ nod[n] \in Node
    BY <1>1
  <2>3. QED
    BY <2>1, <2>2 DEF Node
<1>12. \/ work_list = <<n>> /\ nod'[n].mem = nod[n].mem
       \/ work_list = <<>> /\ n = s /\ nod'[n].mem = "live"
  <2>1. nod[n] \in Node
    BY <1>1
  <2>2. QED
    BY <1>1, <1>2, <2>1 DEF Node
<1>13. QED
  BY <1>3, <1>5, <1>7, <1>8, <1>10, <1>11, <1>12 DEF RpcFind, FoundNode

\* A connection that attached joins the event if it is subscribed, and else
\* goes on to ask for it.
LEMMA StatusEffect ==
  ASSUME CbKinds, NEW s \in Subs, RpcStatus(s)
  PROVE  /\ rpc' \in [Subs -> Connection]
         /\ rpc[s].pc = "attached"
         /\ \A t \in Subs : (t # s => Same(t) /\ SameMark(t)) /\ SameConn(t)
         /\ rpc'[s].cbdev = rpc[s].cbdev
         /\ rpc[s].initflag => rpc'[s].initflag
         /\ rpc'[s].initflag => rpc[s].initflag \/ rpc'[s].pc = "reply"
         /\ \/ nod[rpc[s].cbdev].status = "wait_usb_data" /\ rpc'[s].pc = "reply" /\ rpc'[s].initflag
            \/ nod[rpc[s].cbdev].status # "wait_usb_data" /\ rpc'[s].pc = "check"
<1> DEFINE joined == nod[rpc[s].cbdev].status = "wait_usb_data"
           p == IF joined THEN "reply" ELSE "check"
           b == rpc[s].initflag \/ joined
<1>1. rpc \in [Subs -> Connection]
  BY DEF CbKinds
<1>2. rpc' = [rpc EXCEPT ![s] = [rpc[s] EXCEPT !.pc = p, !.initflag = b]]
  BY DEF RpcStatus
<1>3. p \in Pcs /\ b \in BOOLEAN
  BY DEF Pcs
<1>4. [rpc[s] EXCEPT !.pc = p, !.initflag = b] \in Connection
  <2> HIDE DEF p, b
  <2>1. QED
    BY <1>1, <1>3, RpcWith
<1>5. rpc' \in [Subs -> Connection]
  BY <1>1, <1>2, <1>4
<1>6. rpc'[s] = [rpc[s] EXCEPT !.pc = p, !.initflag = b] /\ rpc[s] \in Connection
  BY <1>1, <1>2
<1>7. rpc'[s].pc = p /\ rpc'[s].initflag = b /\ rpc'[s].cbdev = rpc[s].cbdev /\ SameConn(s)
  <2> HIDE DEF p, b
  <2>1. QED
    BY <1>6 DEF Connection, SameConn
<1>8. ASSUME NEW t \in Subs, t # s
      PROVE  Same(t) /\ SameConn(t) /\ SameMark(t)
  BY <1>1, <1>2, <1>8 DEF Same, SameConn, SameMark
<1>9. rpc'[s].initflag <=> b
  BY <1>7
<1>10. QED
  BY <1>5, <1>7, <1>8, <1>9 DEF RpcStatus

\* The teardown marks nodes and shuts down connections, and changes nothing
\* else of them.
LEMMA TearDownEffect ==
  ASSUME CbKinds, TearDown
  PROVE  /\ rpc' \in [Subs -> Connection] /\ nod' \in [Nodes -> Node]
         /\ \A t \in Subs : Same(t) /\ (rpc'[t].conn => rpc[t].conn) /\ SameMark(t)
         /\ \A m \in Nodes : nod'[m].status = nod[m].status /\ nod'[m].mem = nod[m].mem /\ nod'[m].head = nod[m].head
         /\ cls_head' \subseteq Nodes
<1>1. rpc \in [Subs -> Connection] /\ nod \in [Nodes -> Node]
  BY DEF CbKinds
<1>2. ASSUME NEW t \in Subs
      PROVE  /\ rpc'[t] \in Connection
             /\ Same(t) /\ (rpc'[t].conn => rpc[t].conn) /\ SameMark(t)
  <2> DEFINE b == rpc[t].conn /\ \A n \in ToSet(work_list) : t \notin nod[n].head
  <2>1. rpc'[t] = [rpc[t] EXCEPT !.conn = b] /\ b \in BOOLEAN
    BY DEF TearDown
  <2>2. rpc[t] \in Connection
    BY <1>1
  <2>3. rpc'[t].conn = b /\ Same(t) /\ SameMark(t)
    <3> HIDE DEF b
    <3>1. QED
      BY <2>1, <2>2 DEF Connection, Same, SameMark
  <2>4. rpc'[t] \in Connection
    <3> HIDE DEF b
    <3>1. QED
      BY <2>1, <2>2, RpcWith
  <2>5. QED
    BY <2>3, <2>4
<1>3. ASSUME NEW m \in Nodes
      PROVE  /\ nod'[m] \in Node
             /\ nod'[m].status = nod[m].status /\ nod'[m].mem = nod[m].mem /\ nod'[m].head = nod[m].head
  <2> DEFINE b == nod[m].exitflg \/ m \in ToSet(work_list)
             d == nod[m].freeflag \/ (m \in ToSet(work_list) /\ nod[m].head = {})
  <2>1. nod'[m] = [nod[m] EXCEPT !.exitflg = b, !.freeflag = d] /\ b \in BOOLEAN /\ d \in BOOLEAN
    BY DEF TearDown
  <2>2. nod[m] \in Node
    BY <1>1
  <2>3. QED
    <3> HIDE DEF b, d
    <3>1. nod'[m].status = nod[m].status /\ nod'[m].mem = nod[m].mem /\ nod'[m].head = nod[m].head
      BY <2>1, <2>2 DEF Node
    <3>2. QED
      BY <2>1, <2>2, <3>1, NodWith
<1>4. rpc' \in [Subs -> Connection]
  <2>1. rpc' = [t \in Subs |-> rpc'[t]]
    BY DEF TearDown
  <2>2. QED
    BY <1>2, <2>1
<1>5. nod' \in [Nodes -> Node]
  <2>1. nod' = [m \in Nodes |-> nod'[m]]
    BY DEF TearDown
  <2>2. QED
    BY <1>3, <2>1
<1>6. cls_head' \subseteq Nodes
  <2>1. ToSet(work_list) \subseteq Nodes
    <3>1. CASE work_list = <<>>
      BY <3>1, CbWork
    <3>2. CASE \E n \in Nodes : work_list = <<n>>
      BY <3>2, CbWork
    <3>3. QED
      BY <3>1, <3>2 DEF CbKinds
  <2>2. QED
    BY <2>1 DEF TearDown
<1>7. QED
  BY <1>2, <1>3, <1>4, <1>5, <1>6

\* The positions of the replies in a queue of frames from the device.
Replies(q) == {k \in DOMAIN q : q[k] # "event"}

\* The replies among the frames of a queue: finitely many, none if all are
\* events.
LEMMA RepliesFacts ==
  ASSUME NEW T, NEW q \in Seq(T)
  PROVE  /\ IsFiniteSet(Replies(q)) /\ Cardinality(Replies(q)) \in Nat
         /\ Cardinality(Replies(q)) = 0 <=> \A k \in DOMAIN q : q[k] = "event"
         /\ Replies(<<>>) = {} /\ Cardinality(Replies(<<>>)) = 0
<1>1. DOMAIN q = 1 .. Len(q) /\ Len(q) \in Nat
  OBVIOUS
<1>2. Replies(q) \subseteq 1 .. Len(q)
  BY <1>1 DEF Replies
<1>3. IsFiniteSet(Replies(q))
  <2>1. IsFiniteSet(1 .. Len(q))
    BY <1>1, FS_Interval
  <2>2. QED
    BY <1>2, <2>1, FS_Subset
<1>4. Replies(<<>>) = {}
  BY CbWork DEF Replies
<1>5. Cardinality(Replies(q)) = 0 <=> Replies(q) = {}
  BY <1>3, FS_EmptySet
<1>6. QED
  BY <1>3, <1>4, <1>5, FS_CardinalityType, FS_EmptySet DEF Replies

\* A frame more is a reply more, unless it is an event.
LEMMA RepliesAppend ==
  ASSUME NEW T, NEW q \in Seq(T), NEW e \in T
  PROVE  Cardinality(Replies(Append(q, e))) = Cardinality(Replies(q)) + (IF e = "event" THEN 0 ELSE 1)
<1>1. /\ DOMAIN Append(q, e) = DOMAIN q \cup {Len(q) + 1} /\ Len(q) + 1 \notin DOMAIN q
      /\ \A k \in DOMAIN q : Append(q, e)[k] = q[k]
      /\ Append(q, e)[Len(q) + 1] = e
  OBVIOUS
<1>2. IsFiniteSet(Replies(q)) /\ Cardinality(Replies(q)) \in Nat /\ Len(q) + 1 \notin Replies(q)
  BY <1>1, RepliesFacts DEF Replies
<1>3. CASE e = "event"
  <2>1. Replies(Append(q, e)) = Replies(q)
    BY <1>1, <1>3 DEF Replies
  <2>2. QED
    BY <1>2, <1>3, <2>1
<1>4. CASE e # "event"
  <2>1. Replies(Append(q, e)) = Replies(q) \cup {Len(q) + 1}
    BY <1>1, <1>4 DEF Replies
  <2>2. QED
    BY <1>2, <1>4, <2>1, FS_AddElement
<1>5. QED
  BY <1>3, <1>4

\* A frame less is a reply less, unless it is an event.
LEMMA RepliesTail ==
  ASSUME NEW T, NEW q \in Seq(T), q # <<>>
  PROVE  Cardinality(Replies(q)) = Cardinality(Replies(Tail(q))) + (IF Head(q) = "event" THEN 0 ELSE 1)
<1> DEFINE t == Tail(q)
           A == Replies(q) \ {1}
           f == [k \in Replies(t) |-> k + 1]
<1>1. /\ Len(q) \in Nat \ {0} /\ t \in Seq(T) /\ Len(t) = Len(q) - 1
      /\ DOMAIN q = 1 .. Len(q) /\ DOMAIN t = 1 .. Len(q) - 1
      /\ \A k \in 1 .. Len(q) - 1 : t[k] = q[k + 1]
      /\ Head(q) = q[1]
  OBVIOUS
<1>2. IsFiniteSet(Replies(t)) /\ IsFiniteSet(Replies(q)) /\ Cardinality(Replies(q)) \in Nat
      /\ Cardinality(Replies(t)) \in Nat
  BY <1>1, RepliesFacts
<1>3. f \in Bijection(Replies(t), A)
  <2>1. \A k \in Replies(t) : k \in 1 .. Len(q) - 1 /\ k + 1 \in A /\ f[k] = k + 1
    BY <1>1 DEF Replies
  <2>2. \A j \in A : j - 1 \in Replies(t) /\ f[j - 1] = j
    BY <1>1 DEF Replies
  <2>3. f \in [Replies(t) -> A]
    BY <2>1
  <2>4. \A k, j \in Replies(t) : f[k] = f[j] => k = j
    BY <2>1
  <2> HIDE DEF f, A
  <2>5. QED
    BY <2>2, <2>3, <2>4, Fun_IsBij
<1>4. IsFiniteSet(A) /\ Cardinality(A) = Cardinality(Replies(t))
  BY <1>2, <1>3, FS_Bijection DEF ExistsBijection
<1>5. 1 \in Replies(q) <=> Head(q) # "event"
  BY <1>1 DEF Replies
<1>6. CASE 1 \in Replies(q)
  BY <1>2, <1>4, <1>5, <1>6, FS_RemoveElement
<1>7. CASE 1 \notin Replies(q)
  <2>1. A = Replies(q)
    BY <1>7 DEF A
  <2>2. QED
    <3>1. Cardinality(Replies(q)) = Cardinality(Replies(t)) /\ Head(q) = "event"
      BY <1>4, <1>5, <1>7, <2>1
    <3>2. QED
      BY <1>2, <3>1
<1>8. QED
  BY <1>6, <1>7

\* The send thread asks the device if the node needs it, and then waits for
\* the reply.
LEMMA PackEffect ==
  ASSUME CbKinds, PackMake
  PROVE  /\ snd.node \in Nodes
         /\ \/ nod' = nod /\ toDev' = toDev /\ nod[snd.node].status # "need_send_cmd"
            \/ /\ nod[snd.node].status = "need_send_cmd"
               /\ toDev' = (IF plug = "in" THEN Append(toDev, "sub") ELSE toDev)
               /\ nod' \in [Nodes -> Node]
               /\ \A m \in Nodes :
                    /\ SameNode(m)
                    /\ nod'[m].status = IF m = snd.node THEN "wait_usb_cmd" ELSE nod[m].status
<1>1. snd.node \in Nodes
  BY DEF PackMake, CbKinds
<1>2. CASE nod[snd.node].status # "need_send_cmd"
  BY <1>1, <1>2 DEF PackMake
<1>3. CASE nod[snd.node].status = "need_send_cmd"
  <2>1. nod' = [nod EXCEPT ![snd.node].status = "wait_usb_cmd"]
    BY <1>3 DEF PackMake
  <2>2. toDev' = (IF plug = "in" THEN Append(toDev, "sub") ELSE toDev)
    BY <1>3 DEF PackMake
  <2>3. "wait_usb_cmd" \in Statuses
    BY DEF Statuses
  <2>4. QED
    BY <1>1, <1>3, <2>1, <2>2, <2>3, StatusSet
<1>4. QED
  BY <1>2, <1>3

\* Marking a node to be freed leaves all else.
LEMMA FlagSet ==
  ASSUME CbKinds, NEW n \in Nodes, nod' = [nod EXCEPT ![n].freeflag = TRUE]
  PROVE  /\ nod' \in [Nodes -> Node]
         /\ \A m \in Nodes :
              /\ nod'[m].status = nod[m].status /\ nod'[m].mem = nod[m].mem
              /\ nod'[m].exitflg = nod[m].exitflg /\ nod'[m].head = nod[m].head
              /\ nod'[m].freeflag <=> nod[m].freeflag \/ m = n
<1>1. nod \in [Nodes -> Node]
  BY DEF CbKinds
<1>2. [nod[n] EXCEPT !.freeflag = TRUE] \in Node
  BY <1>1, NodWith
<1>3. nod' \in [Nodes -> Node]
  BY <1>1, <1>2
<1>4. ASSUME NEW m \in Nodes
      PROVE  /\ nod'[m].status = nod[m].status /\ nod'[m].mem = nod[m].mem
             /\ nod'[m].exitflg = nod[m].exitflg /\ nod'[m].head = nod[m].head
             /\ nod'[m].freeflag <=> nod[m].freeflag \/ m = n
  <2>1. CASE m = n
    <3>1. nod'[m] = [nod[m] EXCEPT !.freeflag = TRUE] /\ nod[m] \in Node
      BY <1>1, <2>1
    <3>2. QED
      BY <2>1, <3>1 DEF Node
  <2>2. CASE m # n
    BY <1>1, <2>2
  <2>3. QED
    BY <2>1, <2>2
<1>5. QED
  BY <1>3, <1>4

\* A refusal is told to the subscribers, or the node is given up.
LEMMA FailEffect ==
  ASSUME CbKinds, RecvFail
  PROVE  /\ rcv.node \in Nodes
         /\ rcv' \in [pc : {"idle", "proc", "ok", "mark", "fail", "flag", "notify"},
                     node : Nodes \cup {NoNode}, pack : {"none", "ok", "fail", "event"}]
         /\ \/ /\ nod[rcv.node].head # {}
               /\ rcv'.pc = "idle" /\ rcv'.node = NoNode /\ rcv'.pack = "none"
               /\ app' = [s \in Subs |-> IF s \in Unmarked(rcv.node) /\ rpc[s].conn
                                         THEN Hears(app[s], "REQ_FAL") ELSE app[s]]
            \/ /\ nod[rcv.node].head = {} /\ app' = app
               /\ rcv'.pc = "flag" /\ rcv'.node = rcv.node /\ rcv'.pack = rcv.pack
<1>1. rcv.node \in Nodes
  BY DEF RecvFail, CbKinds
<1>2. CASE nod[rcv.node].head # {}
  BY <1>1, <1>2 DEF RecvFail, RecvDone, Told
<1>3. CASE nod[rcv.node].head = {}
  BY <1>1, <1>3 DEF RecvFail, CbKinds
<1>4. QED
  BY <1>2, <1>3

\* No frame, no reply.
LEMMA CardEmpty ==
  /\ fromDev = <<>> => Cardinality({k \in DOMAIN fromDev : fromDev[k] # "event"}) = 0
  /\ toDev = <<>> => Len(toDev) = 0
<1>1. Replies(<<>>) = {} /\ Cardinality({}) = 0
  BY CbWork, FS_EmptySet DEF Replies
<1>2. QED
  BY <1>1 DEF Replies

\* What keeps the nodes' memory and flags, and gives up none, keeps KeptInv.
LEMMA KeptFrame ==
  ASSUME BasicInv, late' = late, work_list' = work_list,
         \A m \in Nodes : nod'[m].mem = nod[m].mem /\ (nod'[m].freeflag <=> nod[m].freeflag),
         \A t \in Subs : /\ rpc'[t].cbdev = rpc[t].cbdev
                         /\ rpc'[t].pc = "none" <=> rpc[t].pc = "none"
                         /\ rpc'[t].pc \in Attached => rpc[t].pc \in Attached
                         /\ rpc'[t].pc = "flag" => rpc[t].pc = "flag",
         rcv' = rcv, snd' = snd \/ snd'.pc = "scan"
  PROVE  KeptInv'
<1>1. KeptInv /\ CbLinks /\ CbKinds
  BY DEF BasicInv
<1>2. \A t \in Subs : t \in Nodes /\ (rpc[t].pc # "none" => rpc[t].cbdev \in Nodes)
  BY <1>1 DEF CbLinks, Nodes
<1>3. ASSUME NEW t \in Subs, rpc'[t].pc \in Attached, t \notin late
      PROVE  ~ GivenUp(rpc[t].cbdev)'
  <2>1. rpc[t].pc \in Attached /\ ~ GivenUp(rpc[t].cbdev)
    BY <1>1, <1>3 DEF KeptInv
  <2>2. rpc[t].cbdev \in Nodes /\ rpc'[t].cbdev = rpc[t].cbdev
    BY <1>2, <2>1 DEF Attached
  <2>3. QED
    BY <2>1, <2>2 DEF GivenUp
<1>4. /\ \A m \in Nodes : /\ nod'[m].mem = "freed" => nod'[m].freeflag
                          /\ nod'[m].mem = "none" => ~ nod'[m].freeflag
                          /\ work_list' = <<m>> => nod'[m].mem # "none"
      /\ \A t \in Subs : /\ rpc'[t].pc = "none" => nod'[t].mem = "none"
                         /\ rpc'[t].pc # "none" => nod'[rpc'[t].cbdev].mem # "none"
  BY <1>1, <1>2 DEF KeptInv
<1>5. /\ rcv'.pc # "idle" => nod'[rcv'.node].mem # "none"
      /\ snd'.pc = "free" => nod'[snd'.node].freeflag
      /\ snd'.pc \in {"picked", "make", "tell", "mark"} => nod'[snd'.node].mem = "live"
  BY <1>1 DEF KeptInv, CbKinds, Live
<1>6. late' \subseteq Subs
  BY <1>1 DEF KeptInv
<1>7. QED
  BY <1>3, <1>4, <1>5, <1>6 DEF KeptInv, Live

\* A subscription keeps BasicInv.
LEMMA SubscribeKept == ASSUME BasicInv, NEW s \in Subs, Subscribe(s)
  PROVE BasicInv'
<1>1. CbKinds'
  <2>1. rpc \in [Subs -> Connection]
    BY DEF BasicInv, CbKinds
  <2>2. [rpc[s] EXCEPT !.conn = TRUE] \in Connection
    BY <2>1, RpcWith DEF Pcs
  <2>3. rpc' \in [Subs -> Connection]
    BY <2>1, <2>2 DEF Subscribe
  <2>4. QED
    BY <2>3 DEF Subscribe, BasicInv, CbKinds, wire, plugVars
<1>2. CbLinks'
  BY CbWork, SetupFacts DEF BasicInv, Subscribe, Attached, CbKinds, CbLinks, Connection, Node,
      Status, Live, wire, plugVars
<1>3. AliveInv'
  BY CbWork, SetupFacts DEF BasicInv, Subscribe, Live, CbKinds, CbLinks, AliveInv, Connection,
      Node, Attached, Status, wire, plugVars
<1>4. KeptInv'
  BY CbWork DEF BasicInv, Subscribe, Live, CbKinds, CbLinks, Connection, Node, Attached, wire,
      plugVars, KeptInv, GivenUp, freedVars, Uses, UsesOwn, UseOf, Listed
<1>5. QED
  BY <1>1, <1>2, <1>3, <1>4 DEF BasicInv

\* An application that closes keeps BasicInv.
LEMMA LeaveKept == ASSUME BasicInv, NEW s \in Subs, Leave(s)
  PROVE BasicInv'
<1>1. CbKinds'
  <2>1. rpc \in [Subs -> Connection]
    BY DEF BasicInv, CbKinds
  <2>2. [rpc[s] EXCEPT !.conn = FALSE] \in Connection
    BY <2>1, RpcWith DEF Pcs
  <2>3. rpc' \in [Subs -> Connection]
    BY <2>1, <2>2 DEF Leave
  <2>4. QED
    BY <2>3 DEF Leave, BasicInv, CbKinds, wire, plugVars
<1>2. CbLinks'
  BY CbWork, SetupFacts DEF BasicInv, Leave, Attached, CbKinds, CbLinks, Connection, Node,
      Status, Live, wire, plugVars
<1>3. AliveInv'
  BY CbWork, SetupFacts DEF BasicInv, Leave, Live, CbKinds, CbLinks, AliveInv, Connection, Node,
      Attached, Status, wire, plugVars
<1>4. KeptInv'
  BY CbWork DEF BasicInv, Leave, Live, CbKinds, CbLinks, Connection, Node, Attached, wire,
      plugVars, KeptInv, GivenUp, freedVars, Uses, UsesOwn, UseOf, Listed
<1>5. QED
  BY <1>1, <1>2, <1>3, <1>4 DEF BasicInv

\* Finding the node keeps BasicInv.
LEMMA RpcFindKept == ASSUME BasicInv, NEW s \in Subs, RpcFind(s)
  PROVE BasicInv'
<1>a. PICK n \in Nodes : FoundNode(s, n)
  BY JoinEffect DEF BasicInv
<1>b. UNCHANGED <<app, snd, rcv, toDev, fromDev, events, plug, cls_head, setup>>
  BY DEF RpcFind, wire, plugVars
<1>c. plug # "stopped"
  BY DEF RpcFind
<1>1. CbKinds'
  BY CbWork, SetupFacts, <1>a, <1>b, <1>c DEF BasicInv, CbKinds, Connection, Node, Attached,
      Status, Live, wire, plugVars, Same, SameConn, SameMark, SameNode, FoundNode
<1>2. CbLinks'
  <2>d. /\ FoundNode(s, n) /\ CbLinks /\ CbKinds /\ AliveInv /\ KeptInv
    BY <1>a DEF BasicInv
  <2>e. /\ rpc[s].pc = "none" /\ rpc'[s].pc = "found" /\ rpc'[s].cbdev = n /\ work_list' = <<n>>
        /\ \A t \in Subs : t # s => rpc'[t].pc = rpc[t].pc /\ rpc'[t].cbdev = rpc[t].cbdev
        /\ \A t \in Subs : (rpc'[t].conn <=> rpc[t].conn) /\ (rpc'[t].initflag <=> rpc[t].initflag)
        /\ rpc[s].conn
    BY <1>a DEF FoundNode, Same, SameConn, SameMark
  <2>m. \A m \in Nodes : /\ nod'[m].status = nod[m].status /\ nod'[m].head = nod[m].head
                         /\ (nod'[m].freeflag <=> nod[m].freeflag)
                         /\ (nod'[m].exitflg <=> nod[m].exitflg)
                         /\ (nod'[m].mem = nod[m].mem \/ (m = n /\ work_list = <<>> /\ nod'[m].mem = "live"))
    BY <1>a DEF FoundNode
  <2>w. work_list = <<n>> \/ (work_list = <<>> /\ n = s)
    BY <1>a DEF FoundNode
  <2>1. ASSUME NEW t \in Subs
        PROVE  /\ rpc'[t].pc # "none" => rpc'[t].cbdev \in Nodes
               /\ (rpc'[t].pc # "none" \/ rpc'[t].conn => t \in setup.subs)
               /\ \A m \in Nodes : t \in nod'[m].head => rpc'[t].pc \in Attached /\ rpc'[t].cbdev = m
               /\ rpc'[t].pc \in Attached => t \in nod'[rpc'[t].cbdev].head
    <3>1. CASE t = s
      BY <2>d, <2>e, <2>m, <3>1 DEF CbLinks, Attached
    <3>2. CASE t # s
      <4>1. /\ rpc'[t].pc = rpc[t].pc /\ rpc'[t].cbdev = rpc[t].cbdev /\ (rpc'[t].conn <=> rpc[t].conn)
            /\ \A m \in Nodes : nod'[m].head = nod[m].head
        BY <2>e, <2>m, <3>2
      <4>2. QED
        BY <2>d, <4>1 DEF CbLinks, Attached
    <3>3. QED
      BY <3>1, <3>2
  <2>2. snd.pc \in {"picked", "make", "tell", "mark"} => work_list' = <<snd.node>>
    BY <2>d, <2>e, <2>w, CbWork DEF CbLinks
  <2>3. plug \in {"in", "out"} => \A t \in Subs : rpc'[t].pc \notin {"flag", "notify"}
    BY <2>d, <2>e DEF CbLinks
  <2>4. QED
    BY <1>b, <2>1, <2>2, <2>3, <2>d, <2>m DEF CbLinks
<1>3. AliveInv'
  <2>1. \A m \in Nodes : nod'[m].freeflag <=> nod[m].freeflag
    BY <1>a DEF FoundNode
  <2>2. QED
    BY <1>b, <2>1 DEF BasicInv, AliveInv
<1>4. KeptInv'
  <2>1. /\ rpc[s].pc = "none" /\ rpc'[s].pc = "found" /\ rpc'[s].cbdev = n /\ work_list' = <<n>>
        /\ \A t \in Subs : t # s => rpc'[t].pc = rpc[t].pc /\ rpc'[t].cbdev = rpc[t].cbdev
    BY <1>a DEF FoundNode, Same
  <2>2. \A m \in Nodes : /\ nod'[m].freeflag <=> nod[m].freeflag
                         /\ m # n => nod'[m].mem = nod[m].mem
    BY <1>a DEF FoundNode
  <2>3. /\ nod'[n].mem # "none"
        /\ nod'[n].mem = nod[n].mem \/ (n = s /\ nod[n].mem = "none" /\ nod'[n].mem = "live")
    BY <1>a, <2>1 DEF FoundNode, BasicInv, KeptInv
  <2>4. \A m \in Nodes : /\ nod[m].mem # "none" => nod'[m].mem = nod[m].mem
                         /\ work_list' = <<m>> => m = n
    BY <2>1, <2>2, <2>3, CbWork
  <2>5. \A m \in Nodes : /\ nod'[m].mem = "freed" => nod'[m].freeflag
                         /\ nod'[m].mem = "none" => ~ nod'[m].freeflag
                         /\ work_list' = <<m>> => nod'[m].mem # "none"
    BY <2>2, <2>3, <2>4 DEF BasicInv, KeptInv
  <2>6. ASSUME NEW t \in Subs
        PROVE  /\ rpc'[t].pc = "none" => nod'[t].mem = "none"
               /\ rpc'[t].pc # "none" => nod'[rpc'[t].cbdev].mem # "none"
    <3>1. CASE t = s
      BY <2>1, <2>3, <3>1
    <3>2. CASE t # s
      <4>1. t \in Nodes
        BY DEF Nodes
      <4>2. rpc[t].pc = "none" => nod[t].mem = "none" /\ nod'[t].mem = nod[t].mem
        <5>1. CASE t = n
          BY <2>3, <3>2, <5>1 DEF BasicInv, KeptInv
        <5>2. CASE t # n
          BY <2>2, <4>1, <5>2 DEF BasicInv, KeptInv
        <5>3. QED
          BY <5>1, <5>2
      <4>3. rpc[t].pc # "none" => rpc[t].cbdev \in Nodes /\ nod[rpc[t].cbdev].mem # "none"
        BY DEF BasicInv, KeptInv, CbLinks
      <4>4. QED
        BY <2>1, <2>4, <3>2, <4>2, <4>3
    <3>3. QED
      BY <3>1, <3>2
  <2>7. /\ rcv.pc # "idle" => nod'[rcv.node].mem # "none"
        /\ snd.pc = "free" => nod'[snd.node].freeflag
        /\ snd.pc \in {"picked", "make", "tell", "mark"} => nod'[snd.node].mem = "live"
    BY <2>2, <2>4 DEF BasicInv, CbKinds, KeptInv, Live
  <2>8. ASSUME NEW t \in Subs, rpc'[t].pc \in Attached, t \notin late
        PROVE  ~ GivenUp(rpc[t].cbdev)'
    <3>1. t # s /\ rpc[t].pc \in Attached
      BY <2>1, <2>8 DEF Attached
    <3>2. ~ GivenUp(rpc[t].cbdev) /\ rpc[t].cbdev \in Nodes /\ rpc'[t].cbdev = rpc[t].cbdev
      BY <2>1, <2>8, <3>1 DEF BasicInv, KeptInv, CbLinks, Attached
    <3>3. \A u \in Subs : rpc'[u].pc = "flag" => rpc[u].pc = "flag" /\ rpc'[u].cbdev = rpc[u].cbdev
      BY <2>1
    <3>4. QED
      BY <1>b, <2>2, <3>2, <3>3 DEF GivenUp
  <2>9. late' \subseteq Subs /\ late' = late
    BY DEF RpcFind, Listed, BasicInv, KeptInv
  <2>10. QED
    BY <1>b, <2>5, <2>6, <2>7, <2>8, <2>9 DEF KeptInv, Live
<1>5. QED
  BY <1>1, <1>2, <1>3, <1>4 DEF BasicInv

\* Attaching to the node keeps BasicInv.
LEMMA RpcAttachKept == ASSUME BasicInv, NEW s \in Subs, RpcAttach(s)
  PROVE BasicInv'
<1>1. CbKinds'
  <2> DEFINE n == rpc[s].cbdev
  <2>1. nod \in [Nodes -> Node] /\ n \in Nodes /\ nod[n] \in Node /\ nod[n].head \subseteq Subs
    BY DEF BasicInv, CbKinds, CbLinks, RpcAttach, Node
  <2>2. [nod[n] EXCEPT !.head = nod[n].head \cup {s}] \in Node
    BY <2>1, NodWith
  <2>3. rpc \in [Subs -> Connection] /\ rpc[s] \in Connection
    BY DEF BasicInv, CbKinds
  <2>4. [rpc[s] EXCEPT !.pc = "attached"] \in Connection
    BY <2>3, RpcWith DEF Pcs
  <2>5. nod' = [nod EXCEPT ![n] = [nod[n] EXCEPT !.head = nod[n].head \cup {s}]]
    BY DEF RpcAttach
  <2>6. nod' \in [Nodes -> Node]
    BY <2>1, <2>2, <2>5
  <2>7. rpc' \in [Subs -> Connection]
    BY <2>3, <2>4 DEF RpcAttach
  <2>8. QED
    BY <2>6, <2>7 DEF RpcAttach, BasicInv, CbKinds, wire, plugVars
<1>2. CbLinks'
  BY CbWork, SetupFacts DEF BasicInv, RpcAttach, Attached, CbKinds, CbLinks, Connection, Node,
      Status, Live, wire, plugVars
<1>3. AliveInv'
  BY CbWork, SetupFacts DEF BasicInv, RpcAttach, Live, CbKinds, CbLinks, AliveInv, Connection,
      Node, Attached, Status, wire, plugVars
<1>4. KeptInv'
  BY CbWork DEF BasicInv, RpcAttach, Live, CbKinds, CbLinks, Connection, Node, Attached, wire,
      plugVars, KeptInv, GivenUp, freedVars, Uses, UsesOwn, UseOf, Listed
<1>5. QED
  BY <1>1, <1>2, <1>3, <1>4 DEF BasicInv

\* Looking at the status of the node keeps BasicInv.
LEMMA RpcStatusKept == ASSUME BasicInv, NEW s \in Subs, RpcStatus(s)
  PROVE BasicInv'
<1>b. UNCHANGED <<app, nod, work_list, snd, rcv, toDev, fromDev, events, plug, cls_head, setup>>
  BY DEF RpcStatus, wire, plugVars
<1>1. CbKinds'
  BY CbWork, SetupFacts, StatusEffect, <1>b DEF BasicInv, CbKinds, Connection, Node, Attached,
      Status, Live, wire, plugVars, Same, SameConn, SameMark, SameNode
<1>2. CbLinks'
  <2>e. /\ rpc[s].pc = "attached" /\ rpc'[s].cbdev = rpc[s].cbdev
        /\ \A t \in Subs : t # s => Same(t) /\ SameMark(t)
        /\ \A t \in Subs : SameConn(t)
        /\ rpc[s].initflag => rpc'[s].initflag
        /\ rpc'[s].pc = "check" \/ (/\ rpc'[s].pc = "reply" /\ rpc'[s].initflag
                                  /\ Status(rpc[s].cbdev) = "wait_usb_data")
    BY StatusEffect DEF BasicInv, Status
  <2>1. ASSUME NEW t \in Subs
        PROVE  /\ rpc'[t].cbdev = rpc[t].cbdev /\ rpc'[t].conn = rpc[t].conn
               /\ (rpc'[t].pc = "none" <=> rpc[t].pc = "none")
               /\ (rpc'[t].pc \in Attached <=> rpc[t].pc \in Attached)
    <3>1. CASE t = s
      BY <2>e, <3>1 DEF SameConn, Attached
    <3>2. CASE t # s
      BY <2>e, <3>2 DEF SameConn, Same
    <3>3. QED
      BY <3>1, <3>2
  <2>2. CbLinks /\ CbKinds
    BY DEF BasicInv
  <2>4. \A t \in Subs : rpc'[t].conn <=> rpc[t].conn
    BY <2>1
  <2>5. plug \in {"in", "out"} => \A t \in Subs : rpc'[t].pc \notin {"flag", "notify"}
    <3>1. \A t \in Subs : rpc'[t].pc = rpc[t].pc \/ rpc'[t].pc \in {"check", "reply"}
      BY <2>e DEF Same
    <3>2. QED
      BY <2>2, <3>1 DEF CbLinks
  <2>3. QED
    BY <1>b, <2>1, <2>2, <2>4, <2>5 DEF CbLinks
<1>3. AliveInv'
  BY CbWork, SetupFacts, StatusEffect, <1>b DEF BasicInv, Live, CbKinds, CbLinks, AliveInv,
      Connection, Node, Attached, Status, wire, plugVars, Same, SameConn, SameMark, SameNode
<1>4. KeptInv'
  <2>1. \A t \in Subs : /\ rpc'[t].cbdev = rpc[t].cbdev
                        /\ \/ rpc'[t].pc = rpc[t].pc
                           \/ rpc[t].pc = "attached" /\ rpc'[t].pc \in {"check", "reply"}
    <3>1. \A t \in Subs : t # s => rpc'[t].pc = rpc[t].pc /\ rpc'[t].cbdev = rpc[t].cbdev
      BY StatusEffect DEF BasicInv, Same
    <3>2. /\ rpc'[s].cbdev = rpc[s].cbdev /\ rpc[s].pc = "attached"
          /\ rpc'[s].pc \in {"check", "reply"}
      BY StatusEffect DEF BasicInv
    <3>3. QED
      BY <3>1, <3>2
  <2>2. late' = late
    BY DEF RpcStatus, UsesOwn, Uses
  <2>3. QED
    BY <1>b, <2>1, <2>2, KeptFrame DEF Attached
<1>5. QED
  BY <1>1, <1>2, <1>3, <1>4 DEF BasicInv

\* The answer to a connection that joined keeps BasicInv.
LEMMA RpcReplyKept == ASSUME BasicInv, NEW s \in Subs, RpcReply(s)
  PROVE BasicInv'
<1>1. CbKinds'
  <2>1. rpc \in [Subs -> Connection]
    BY DEF BasicInv, CbKinds
  <2>2. [rpc[s] EXCEPT !.pc = "read"] \in Connection
    BY <2>1, RpcWith DEF Pcs
  <2>3. rpc' \in [Subs -> Connection]
    BY <2>1, <2>2 DEF RpcReply
  <2>4. app' \in [Subs -> {"idle", "waiting", "subscribed", "refused", "closed"}]
    BY DEF RpcReply, Told, Hears, BasicInv, CbKinds
  <2>5. QED
    BY <2>3, <2>4 DEF RpcReply, BasicInv, CbKinds, wire, plugVars
<1>2. CbLinks'
  BY CbWork, SetupFacts DEF BasicInv, RpcReply, Told, Hears, Attached, CbKinds, CbLinks,
      Connection, Node, Status, Live, wire, plugVars
<1>3. AliveInv'
  BY CbWork, SetupFacts DEF BasicInv, RpcReply, Told, Hears, Live, CbKinds, CbLinks, AliveInv,
      Connection, Node, Attached, Status, wire, plugVars
<1>4. KeptInv'
  BY CbWork DEF BasicInv, RpcReply, Told, Hears, Live, CbKinds, CbLinks, Connection, Node,
      Attached, wire, plugVars, KeptInv, GivenUp, freedVars, Uses, UsesOwn, UseOf, Listed
<1>5. QED
  BY <1>1, <1>2, <1>3, <1>4 DEF BasicInv

\* Looking whether the command is to be asked for keeps BasicInv.
LEMMA RpcCheckKept == ASSUME BasicInv, NEW s \in Subs, RpcCheck(s)
  PROVE BasicInv'
<1>1. CbKinds'
  <2>1. rpc \in [Subs -> Connection]
    BY DEF BasicInv, CbKinds
  <2>2. \A p \in Pcs : [rpc[s] EXCEPT !.pc = p] \in Connection
    BY <2>1, RpcWith
  <2>3. PICK p \in Pcs : rpc' = [rpc EXCEPT ![s].pc = p]
    BY DEF RpcCheck, Pcs
  <2>4. rpc' \in [Subs -> Connection]
    BY <2>1, <2>2, <2>3
  <2>5. QED
    BY <2>4 DEF RpcCheck, BasicInv, CbKinds, wire, plugVars
<1>2. CbLinks'
  BY CbWork, SetupFacts DEF BasicInv, RpcCheck, Attached, CbKinds, CbLinks, Connection, Node,
      Status, Live, wire, plugVars
<1>3. AliveInv'
  BY CbWork, SetupFacts DEF BasicInv, RpcCheck, Live, CbKinds, CbLinks, AliveInv, Connection,
      Node, Attached, Status, wire, plugVars
<1>4. KeptInv'
  BY CbWork DEF BasicInv, RpcCheck, Live, CbKinds, CbLinks, Connection, Node, Attached, wire,
      plugVars, KeptInv, GivenUp, freedVars, Uses, UsesOwn, UseOf, Listed
<1>5. QED
  BY <1>1, <1>2, <1>3, <1>4 DEF BasicInv

\* Asking for the command keeps BasicInv.
LEMMA RpcStartKept == ASSUME BasicInv, NEW s \in Subs, RpcStart(s)
  PROVE BasicInv'
<1>a. rpc[s].cbdev \in Nodes /\ rpc[s].pc = "start" /\ rpc \in [Subs -> Connection]
  BY DEF RpcStart, BasicInv, CbKinds, CbLinks
<1>b. nod' = [nod EXCEPT ![rpc[s].cbdev].status = "need_send_cmd"] /\ "need_send_cmd" \in Statuses
  BY DEF RpcStart, Statuses
<1>c. /\ nod' \in [Nodes -> Node]
      /\ \A m \in Nodes : /\ SameNode(m)
                          /\ nod'[m].status = IF m = rpc[s].cbdev THEN "need_send_cmd" ELSE nod[m].status
  <2>1. CbKinds
    BY DEF BasicInv
  <2>2. QED
    BY <1>a, <1>b, <2>1, StatusSet
<1>d. rpc' \in [Subs -> Connection] /\ rpc' = [rpc EXCEPT ![s].pc = "read"]
  <2>1. [rpc[s] EXCEPT !.pc = "read"] \in Connection
    BY <1>a, RpcWith DEF Pcs
  <2>2. QED
    BY <1>a, <2>1 DEF RpcStart
<1>f. UNCHANGED <<app, work_list, snd, rcv, toDev, fromDev, events, plug, cls_head, setup>>
  BY DEF RpcStart, wire, plugVars
<1>1. CbKinds'
  BY CbWork, SetupFacts, <1>a, <1>c, <1>d, <1>f, CardEmpty DEF BasicInv, CbKinds, Connection,
      Node, Attached, Status, Live, wire, plugVars, Same, SameConn, SameMark, SameNode
<1>2. CbLinks'
  BY CbWork, SetupFacts, <1>a, <1>c, <1>d, <1>f, CardEmpty DEF BasicInv, Attached, CbKinds,
      CbLinks, Connection, Node, Status, Live, wire, plugVars, Same, SameConn, SameMark,
      SameNode
<1>3. AliveInv'
  BY CbWork, SetupFacts, <1>a, <1>c, <1>d, <1>f, CardEmpty DEF BasicInv, Live, CbKinds, CbLinks,
      AliveInv, Connection, Node, Attached, Status, wire, plugVars, Same, SameConn, SameMark,
      SameNode
<1>4. KeptInv'
  BY CbWork, <1>a, <1>c, <1>d, <1>f, CardEmpty DEF BasicInv, RpcStart, Live, CbKinds, CbLinks,
      Connection, Node, Attached, wire, plugVars, Same, SameConn, SameMark, SameNode, KeptInv,
      GivenUp, freedVars, Uses, UsesOwn, UseOf, Listed
<1>5. QED
  BY <1>1, <1>2, <1>3, <1>4 DEF BasicInv

\* Detaching from the node keeps BasicInv.
LEMMA RpcEndKept == ASSUME BasicInv, NEW s \in Subs, RpcEnd(s)
  PROVE BasicInv'
<1>1. CbKinds'
  <2> DEFINE n == rpc[s].cbdev
  <2>1. nod \in [Nodes -> Node] /\ n \in Nodes /\ nod[n] \in Node /\ nod[n].head \subseteq Subs
    BY DEF BasicInv, CbKinds, CbLinks, RpcEnd, Node
  <2>2. [nod[n] EXCEPT !.head = nod[n].head \ {s}] \in Node
    BY <2>1, NodWith
  <2>3. rpc \in [Subs -> Connection] /\ rpc[s] \in Connection
    BY DEF BasicInv, CbKinds
  <2>4. [rpc[s] EXCEPT !.pc = "end"] \in Connection
    BY <2>3, RpcWith DEF Pcs
  <2>5. nod' = [nod EXCEPT ![n] = [nod[n] EXCEPT !.head = nod[n].head \ {s}]]
    BY DEF RpcEnd
  <2>6. nod' \in [Nodes -> Node]
    BY <2>1, <2>2, <2>5
  <2>7. rpc' \in [Subs -> Connection]
    BY <2>3, <2>4 DEF RpcEnd
  <2>8. QED
    BY <2>6, <2>7 DEF RpcEnd, BasicInv, CbKinds, wire, plugVars
<1>2. CbLinks'
  BY CbWork, SetupFacts DEF BasicInv, RpcEnd, Attached, CbKinds, CbLinks, Connection, Node,
      Status, Live, wire, plugVars
<1>3. AliveInv'
  BY CbWork, SetupFacts DEF BasicInv, RpcEnd, Live, CbKinds, CbLinks, AliveInv, Connection,
      Node, Attached, Status, wire, plugVars
<1>4. KeptInv'
  BY CbWork DEF BasicInv, RpcEnd, Live, CbKinds, CbLinks, Connection, Node, Attached, wire,
      plugVars, KeptInv, GivenUp, freedVars, Uses, UsesOwn, UseOf, Listed
<1>5. QED
  BY <1>1, <1>2, <1>3, <1>4 DEF BasicInv

\* The last look at the node keeps BasicInv.
LEMMA RpcEndCheckKept == ASSUME BasicInv, NEW s \in Subs, RpcEndCheck(s)
  PROVE BasicInv'
<1>1. CbKinds'
  <2>1. rpc \in [Subs -> Connection]
    BY DEF BasicInv, CbKinds
  <2>2. PICK p \in Pcs : rpc' = [rpc EXCEPT ![s].pc = p]
    BY DEF RpcEndCheck, Pcs
  <2>3. rpc' \in [Subs -> Connection]
    BY <2>1, <2>2, RpcWith
  <2>4. QED
    BY <2>3 DEF RpcEndCheck, BasicInv, CbKinds, wire, plugVars
<1>2. CbLinks'
  BY CbWork, SetupFacts DEF BasicInv, RpcEndCheck, Attached, CbKinds, CbLinks, Connection, Node,
      Status, Live, wire, plugVars
<1>3. AliveInv'
  BY CbWork, SetupFacts DEF BasicInv, RpcEndCheck, Live, CbKinds, CbLinks, AliveInv, Connection,
      Node, Attached, Status, wire, plugVars
<1>4. KeptInv'
  BY CbWork DEF BasicInv, RpcEndCheck, Live, CbKinds, CbLinks, Connection, Node, Attached, wire,
      plugVars, KeptInv, GivenUp, freedVars, Uses, UsesOwn, UseOf, Listed
<1>5. QED
  BY <1>1, <1>2, <1>3, <1>4 DEF BasicInv

\* Giving the node up keeps BasicInv.
LEMMA RpcFlagKept == ASSUME BasicInv, NEW s \in Subs, RpcFlag(s)
  PROVE BasicInv'
<1>a. rpc[s].pc = "flag" /\ rpc[s].cbdev \in Nodes /\ rpc \in [Subs -> Connection]
  BY DEF RpcFlag, BasicInv, CbKinds, CbLinks
<1>b. UNCHANGED <<app, work_list, snd, rcv, toDev, fromDev, events, plug, cls_head, setup>>
  BY DEF RpcFlag, wire, plugVars
<1>c. /\ nod' \in [Nodes -> Node]
      /\ \A m \in Nodes :
           /\ nod'[m].status = nod[m].status /\ nod'[m].mem = nod[m].mem
           /\ nod'[m].exitflg = nod[m].exitflg /\ nod'[m].head = nod[m].head
           /\ nod'[m].freeflag <=> nod[m].freeflag \/ m = rpc[s].cbdev
  BY <1>a, FlagSet DEF RpcFlag, BasicInv, Attached
<1>d. rpc' \in [Subs -> Connection] /\ rpc' = [rpc EXCEPT ![s].pc = "notify"]
  <2>1. [rpc[s] EXCEPT !.pc = "notify"] \in Connection
    BY <1>a, RpcWith DEF Pcs
  <2>2. QED
    BY <1>a, <2>1 DEF RpcFlag
<1>e. plug \notin {"in", "out"}
  BY <1>a DEF BasicInv, CbLinks
<1>1. CbKinds'
  BY <1>b, <1>c, <1>d DEF BasicInv, CbKinds
<1>2. CbLinks'
  <2>1. \A t \in Subs : /\ rpc'[t].cbdev = rpc[t].cbdev /\ (rpc'[t].conn <=> rpc[t].conn)
                        /\ rpc'[t].pc = "none" <=> rpc[t].pc = "none"
                        /\ rpc'[t].pc \in Attached <=> rpc[t].pc \in Attached
    BY <1>a, <1>d DEF Attached, Connection
  <2>2. CbLinks
    BY DEF BasicInv
  <2>3. ASSUME NEW t \in Subs
        PROVE  /\ rpc'[t].pc # "none" => rpc'[t].cbdev \in Nodes
               /\ (rpc'[t].pc # "none" \/ rpc'[t].conn => t \in setup.subs)
               /\ \A m \in Nodes : t \in nod'[m].head => rpc'[t].pc \in Attached /\ rpc'[t].cbdev = m
               /\ rpc'[t].pc \in Attached => t \in nod'[rpc'[t].cbdev].head
    BY <1>c, <2>1, <2>2 DEF CbLinks, Attached
  <2>4. QED
    BY <1>b, <1>e, <2>2, <2>3 DEF CbLinks
<1>3. AliveInv'
  BY <1>b, <1>e DEF BasicInv, AliveInv
<1>4. KeptInv'
  BY <1>a, <1>b, <1>c, <1>d DEF BasicInv, CbKinds, CbLinks, Attached, Connection, KeptInv, GivenUp,
      Live, RpcFlag, Uses
<1>5. QED
  BY <1>1, <1>2, <1>3, <1>4 DEF BasicInv

\* Waking the send thread up keeps BasicInv.
LEMMA RpcNotifyKept == ASSUME BasicInv, NEW s \in Subs, RpcNotify(s)
  PROVE BasicInv'
<1>a. UNCHANGED <<app, nod, work_list, snd, rcv, toDev, fromDev, events, plug, cls_head, setup>>
  BY DEF RpcNotify, wire, plugVars
<1>b. /\ rpc \in [Subs -> Connection] /\ rpc' \in [Subs -> Connection]
      /\ rpc' = [rpc EXCEPT ![s].pc = "done"] /\ rpc[s].pc = "notify"
  <2>1. rpc \in [Subs -> Connection]
    BY DEF BasicInv, CbKinds
  <2>2. [rpc[s] EXCEPT !.pc = "done"] \in Connection
    BY <2>1, RpcWith DEF Pcs
  <2>3. QED
    BY <2>1, <2>2 DEF RpcNotify
<1>1. CbKinds'
  BY <1>a, <1>b DEF BasicInv, CbKinds
<1>2. CbLinks'
  BY <1>a, <1>b DEF BasicInv, CbKinds, CbLinks, Attached, Connection
<1>3. AliveInv'
  BY <1>a DEF BasicInv, AliveInv
<1>4. KeptInv'
  BY <1>a, <1>b DEF BasicInv, CbKinds, CbLinks, Attached, Connection, KeptInv, GivenUp, Live,
      RpcNotify, Uses
<1>5. QED
  BY <1>1, <1>2, <1>3, <1>4 DEF BasicInv

\* The scan of the send thread keeps BasicInv.
LEMMA ScanKept == ASSUME BasicInv, Scan
  PROVE BasicInv'
<1>1. CbKinds'
  BY CbWork, SetupFacts DEF BasicInv, Scan, ToWork, CbKinds, Connection, Node, Attached, Status,
      Live, wire, plugVars
<1>2. CbLinks'
  BY CbWork, SetupFacts DEF BasicInv, Scan, ToWork, Attached, CbKinds, CbLinks, Connection,
      Node, Status, Live, wire, plugVars
<1>3. AliveInv'
  BY CbWork, SetupFacts DEF BasicInv, Scan, ToWork, Live, CbKinds, CbLinks, AliveInv,
      Connection, Node, Attached, Status, wire, plugVars
<1>4. KeptInv'
  BY CbWork DEF BasicInv, Scan, ToWork, Live, CbKinds, CbLinks, Connection, Node, Attached,
      wire, plugVars, KeptInv, GivenUp, freedVars, Uses, UsesOwn, UseOf, Listed
<1>5. QED
  BY <1>1, <1>2, <1>3, <1>4 DEF BasicInv

\* The second look of the send thread keeps BasicInv.
LEMMA RecheckKept == ASSUME BasicInv, Recheck
  PROVE BasicInv'
<1>1. CbKinds'
  BY CbWork, SetupFacts DEF BasicInv, Recheck, CbKinds, Connection, Node, Attached, Status,
      Live, wire, plugVars
<1>2. CbLinks'
  BY CbWork, SetupFacts DEF BasicInv, Recheck, Attached, CbKinds, CbLinks, Connection, Node,
      Status, Live, wire, plugVars
<1>3. AliveInv'
  BY CbWork, SetupFacts DEF BasicInv, Recheck, Live, CbKinds, CbLinks, AliveInv, Connection,
      Node, Attached, Status, wire, plugVars
<1>4. KeptInv'
  BY CbWork DEF BasicInv, Recheck, Live, CbKinds, CbLinks, Connection, Node, Attached, wire,
      plugVars, KeptInv, GivenUp, freedVars, Uses, UsesOwn, UseOf, Listed
<1>5. QED
  BY <1>1, <1>2, <1>3, <1>4 DEF BasicInv

\* The command to the device keeps BasicInv.
LEMMA PackMakeKept == ASSUME BasicInv, PackMake
  PROVE BasicInv'
<1>a. snd.pc = "make" /\ ~ setup.offline /\ snd' = [pc |-> "scan", node |-> NoNode]
  BY DEF PackMake, SendDone
<1>b. UNCHANGED <<app, rpc, work_list, rcv, fromDev, events, plug, cls_head, setup>>
  BY DEF PackMake, wire, plugVars
<1>1. CbKinds'
  <2>1. toDev' \in Seq({"sub"})
    <3>1. toDev \in Seq({"sub"})
      BY DEF BasicInv, CbKinds
    <3>2. Append(toDev, "sub") \in Seq({"sub"})
      BY <3>1
    <3>3. toDev' = toDev \/ toDev' = Append(toDev, "sub")
      BY PackEffect DEF BasicInv
    <3>4. QED
      BY <3>1, <3>2, <3>3
  <2>2. nod' \in [Nodes -> Node]
    <3>1. nod' = nod \/ nod' \in [Nodes -> Node]
      BY PackEffect DEF BasicInv
    <3>2. QED
      BY <3>1 DEF BasicInv, CbKinds
  <2>3. QED
    BY <1>a, <1>b, <2>1, <2>2 DEF BasicInv, CbKinds
<1>2. CbLinks'
  BY CbWork, SetupFacts, PackEffect, <1>a, <1>b DEF BasicInv, Attached, CbKinds, CbLinks,
      Connection, Node, Status, Live, wire, plugVars, Same, SameConn, SameMark, SameNode
<1>3. AliveInv'
  BY CbWork, SetupFacts, PackEffect, <1>a, <1>b DEF BasicInv, Live, CbKinds, CbLinks, AliveInv,
      Connection, Node, Attached, Status, wire, plugVars, Same, SameConn, SameMark, SameNode
<1>4. KeptInv'
  <2>1. \A m \in Nodes : nod'[m].mem = nod[m].mem /\ (nod'[m].freeflag <=> nod[m].freeflag)
    BY PackEffect DEF BasicInv, SameNode
  <2>2. late' = late /\ snd'.pc = "scan"
    BY DEF PackMake, Uses, SendDone
  <2>3. QED
    BY <1>b, <2>1, <2>2, KeptFrame
<1>5. QED
  BY <1>1, <1>2, <1>3, <1>4 DEF BasicInv

\* Subscribing BB_EVENT_OFFLINE keeps BasicInv.
LEMMA PackMakeOfflineKept == ASSUME BasicInv, PackMakeOffline
  PROVE BasicInv'
<1>a. snd.node \in Nodes /\ snd.pc = "make" /\ setup.offline /\ snd' = [snd EXCEPT !.pc = "tell"]
  BY DEF PackMakeOffline, BasicInv, CbKinds
<1>b. nod' = [nod EXCEPT ![snd.node].status = "wait_usb_data"] /\ "wait_usb_data" \in Statuses
  BY DEF PackMakeOffline, Statuses
<1>c. /\ nod' \in [Nodes -> Node]
      /\ \A m \in Nodes : /\ SameNode(m)
                          /\ nod'[m].status = IF m = snd.node THEN "wait_usb_data" ELSE nod[m].status
  <2>1. CbKinds
    BY DEF BasicInv
  <2>2. QED
    BY <1>a, <1>b, <2>1, StatusSet DEF Statuses
<1>d. UNCHANGED <<app, rpc, work_list, rcv, toDev, fromDev, events, plug, cls_head, setup>>
  BY DEF PackMakeOffline, wire, plugVars
<1>1. CbKinds'
  BY CbWork, SetupFacts, <1>a, <1>c, <1>d DEF BasicInv, CbKinds, Connection, Node, Attached,
      Status, Live, wire, plugVars, Same, SameConn, SameMark, SameNode
<1>2. CbLinks'
  BY CbWork, SetupFacts, <1>a, <1>c, <1>d DEF BasicInv, Attached, CbKinds, CbLinks, Connection,
      Node, Status, Live, wire, plugVars, Same, SameConn, SameMark, SameNode
<1>3. AliveInv'
  BY CbWork, SetupFacts, <1>a, <1>c, <1>d DEF BasicInv, Live, CbKinds, CbLinks, AliveInv,
      Connection, Node, Attached, Status, wire, plugVars, Same, SameConn, SameMark, SameNode
<1>4. KeptInv'
  BY CbWork, <1>a, <1>c, <1>d DEF BasicInv, PackMakeOffline, Live, CbKinds, CbLinks, Connection,
      Node, Attached, wire, plugVars, Same, SameConn, SameMark, SameNode, KeptInv, GivenUp,
      freedVars, Uses, UsesOwn, UseOf, Listed
<1>5. QED
  BY <1>1, <1>2, <1>3, <1>4 DEF BasicInv

\* Telling the subscribers of BB_EVENT_OFFLINE keeps BasicInv.
LEMMA OfflineTellKept == ASSUME BasicInv, OfflineTell
  PROVE BasicInv'
<1>1. CbKinds'
  BY CbWork, SetupFacts DEF BasicInv, OfflineTell, Told, Hears, Unmarked, CbKinds, Connection,
      Node, Attached, Status, Live, wire, plugVars
<1>2. CbLinks'
  BY CbWork, SetupFacts DEF BasicInv, OfflineTell, Told, Hears, Unmarked, Attached, CbKinds,
      CbLinks, Connection, Node, Status, Live, wire, plugVars
<1>3. AliveInv'
  BY CbWork, SetupFacts DEF BasicInv, OfflineTell, Told, Hears, Unmarked, Live, CbKinds,
      CbLinks, AliveInv, Connection, Node, Attached, Status, wire, plugVars
<1>4. KeptInv'
  BY CbWork DEF BasicInv, OfflineTell, Told, Hears, Unmarked, Live, CbKinds, CbLinks,
      Connection, Node, Attached, wire, plugVars, KeptInv, GivenUp, freedVars, Uses, UsesOwn,
      UseOf, Listed
<1>5. QED
  BY <1>1, <1>2, <1>3, <1>4 DEF BasicInv

\* Marking the subscribers of BB_EVENT_OFFLINE keeps BasicInv.
LEMMA OfflineMarkKept == ASSUME BasicInv, OfflineMark
  PROVE BasicInv'
<1>a. MarkAll(snd.node) /\ snd.pc = "mark" /\ snd' = [pc |-> "scan", node |-> NoNode] /\ snd.node \in Nodes
  BY DEF OfflineMark, SendDone, BasicInv, CbKinds
<1>b. UNCHANGED <<app, nod, work_list, rcv, toDev, fromDev, events, plug, cls_head, setup>>
  BY DEF OfflineMark, wire, plugVars
<1>1. CbKinds'
  BY CbWork, SetupFacts, MarkEffect, <1>a, <1>b DEF BasicInv, CbKinds, Connection, Node,
      Attached, Status, Live, wire, plugVars, Same, SameConn, SameMark, SameNode
<1>2. CbLinks'
  BY CbWork, SetupFacts, MarkEffect, <1>a, <1>b DEF BasicInv, Attached, CbKinds, CbLinks,
      Connection, Node, Status, Live, wire, plugVars, Same, SameConn, SameMark, SameNode
<1>3. AliveInv'
  BY CbWork, SetupFacts, MarkEffect, <1>a, <1>b DEF BasicInv, Live, CbKinds, CbLinks, AliveInv,
      Connection, Node, Attached, Status, wire, plugVars, Same, SameConn, SameMark, SameNode
<1>4. KeptInv'
  BY CbWork, MarkEffect, <1>a, <1>b DEF BasicInv, OfflineMark, Live, CbKinds, CbLinks,
      Connection, Node, Attached, wire, plugVars, Same, SameConn, SameMark, SameNode, KeptInv,
      GivenUp, freedVars, Uses, UsesOwn, UseOf, Listed
<1>5. QED
  BY <1>1, <1>2, <1>3, <1>4 DEF BasicInv

\* Freeing a node keeps BasicInv.
LEMMA DeinitKept == ASSUME BasicInv, Deinit
  PROVE BasicInv'
<1>1. CbKinds'
  <2>1. nod \in [Nodes -> Node] /\ snd.node \in Nodes /\ cls_head \subseteq Nodes
    BY DEF BasicInv, CbKinds, Deinit
  <2>2. nod[snd.node] \in Node
    BY <2>1
  <2>3. [nod[snd.node] EXCEPT !.mem = "freed"] \in Node
    BY <2>2, NodWith
  <2>4. nod' \in [Nodes -> Node] /\ cls_head' \subseteq Nodes
    BY <2>1, <2>3 DEF Deinit
  <2>5. QED
    BY <2>4 DEF Deinit, SendDone, BasicInv, CbKinds, wire, plugVars
<1>2. CbLinks'
  BY CbWork, SetupFacts DEF BasicInv, Deinit, SendDone, Attached, CbKinds, CbLinks, Connection,
      Node, Status, Live, wire, plugVars
<1>3. AliveInv'
  BY CbWork, SetupFacts DEF BasicInv, Deinit, SendDone, Live, CbKinds, CbLinks, AliveInv,
      Connection, Node, Attached, Status, wire, plugVars
<1>4. KeptInv'
  BY CbWork DEF BasicInv, Deinit, SendDone, Live, CbKinds, CbLinks, Connection, Node, Attached,
      wire, plugVars, KeptInv, GivenUp, freedVars, Uses, UsesOwn, UseOf, Listed
<1>5. QED
  BY <1>1, <1>2, <1>3, <1>4 DEF BasicInv

\* Taking a frame of the device keeps BasicInv.
LEMMA RecvFindKept == ASSUME BasicInv, RecvFind
  PROVE BasicInv'
<1>1. CbKinds'
  BY CbWork, SetupFacts DEF BasicInv, RecvFind, CbKinds, Connection, Node, Attached, Status,
      Live, wire, plugVars
<1>2. CbLinks'
  BY CbWork, SetupFacts DEF BasicInv, RecvFind, Attached, CbKinds, CbLinks, Connection, Node,
      Status, Live, wire, plugVars
<1>3. AliveInv'
  BY CbWork, SetupFacts DEF BasicInv, RecvFind, Live, CbKinds, CbLinks, AliveInv, Connection,
      Node, Attached, Status, wire, plugVars
<1>4. KeptInv'
  BY CbWork DEF BasicInv, RecvFind, Live, CbKinds, CbLinks, Connection, Node, Attached, wire,
      plugVars, KeptInv, GivenUp, freedVars, Uses, UsesOwn, UseOf, Listed
<1>5. QED
  BY <1>1, <1>2, <1>3, <1>4 DEF BasicInv

\* Taking a reply keeps BasicInv.
LEMMA RecvReplyKept == ASSUME BasicInv, RecvReply
  PROVE BasicInv'
<1>a. rcv.node \in Nodes /\ rcv.pc = "proc" /\ nod[rcv.node].status = "wait_usb_cmd"
  BY DEF RecvReply, BasicInv, CbKinds
<1>b. PICK st \in Statuses :
        /\ nod' = [nod EXCEPT ![rcv.node].status = st]
        /\ \/ rcv.pack # "fail" /\ st = "wait_usb_data" /\ rcv' = [rcv EXCEPT !.pc = "ok"]
           \/ rcv.pack = "fail" /\ st = "not_init" /\ rcv' = [rcv EXCEPT !.pc = "fail"]
  BY DEF RecvReply, Statuses
<1>c. /\ nod' \in [Nodes -> Node]
      /\ \A m \in Nodes : SameNode(m) /\ nod'[m].status = IF m = rcv.node THEN st ELSE nod[m].status
  BY <1>a, <1>b, StatusSet DEF BasicInv
<1>d. UNCHANGED <<app, rpc, work_list, snd, toDev, fromDev, events, plug, cls_head, setup>>
  BY DEF RecvReply, wire, plugVars
<1>1. CbKinds'
  <2>1. rcv' \in [pc : {"idle", "proc", "ok", "mark", "fail", "flag", "notify"}, node : Nodes \cup {NoNode},
                  pack : {"none", "ok", "fail", "event"}]
    BY <1>a, <1>b DEF BasicInv, CbKinds
  <2>2. rcv'.node \in Nodes
    BY <1>a, <1>b DEF BasicInv, CbKinds
  <2>3. QED
    BY <1>c, <1>d, <2>1, <2>2 DEF BasicInv, CbKinds
<1>2. CbLinks'
  BY CbWork, SetupFacts, <1>a, <1>b, <1>c, <1>d DEF BasicInv, Attached, CbKinds, CbLinks,
      Connection, Node, Status, Live, wire, plugVars, Same, SameConn, SameMark, SameNode
<1>3. AliveInv'
  BY CbWork, SetupFacts, <1>a, <1>b, <1>c, <1>d DEF BasicInv, Live, CbKinds, CbLinks, AliveInv,
      Connection, Node, Attached, Status, wire, plugVars, Same, SameConn, SameMark, SameNode
<1>4. KeptInv'
  BY CbWork, <1>a, <1>b, <1>c, <1>d DEF BasicInv, RecvReply, Live, CbKinds, CbLinks, Connection,
      Node, Attached, wire, plugVars, Same, SameConn, SameMark, SameNode, KeptInv, GivenUp,
      freedVars, Uses, UsesOwn, UseOf, Listed
<1>5. QED
  BY <1>1, <1>2, <1>3, <1>4 DEF BasicInv

\* Telling the subscribers keeps BasicInv.
LEMMA RecvOkKept == ASSUME BasicInv, RecvOk
  PROVE BasicInv'
<1>1. CbKinds'
  BY CbWork, SetupFacts DEF BasicInv, RecvOk, Told, Hears, Unmarked, CbKinds, Connection, Node,
      Attached, Status, Live, wire, plugVars
<1>2. CbLinks'
  BY CbWork, SetupFacts DEF BasicInv, RecvOk, Told, Hears, Unmarked, Attached, CbKinds, CbLinks,
      Connection, Node, Status, Live, wire, plugVars
<1>3. AliveInv'
  BY CbWork, SetupFacts DEF BasicInv, RecvOk, Told, Hears, Unmarked, Live, CbKinds, CbLinks,
      AliveInv, Connection, Node, Attached, Status, wire, plugVars
<1>4. KeptInv'
  BY CbWork DEF BasicInv, RecvOk, Told, Hears, Unmarked, Live, CbKinds, CbLinks, Connection,
      Node, Attached, wire, plugVars, KeptInv, GivenUp, freedVars, Uses, UsesOwn, UseOf, Listed
<1>5. QED
  BY <1>1, <1>2, <1>3, <1>4 DEF BasicInv

\* Marking the subscribers keeps BasicInv.
LEMMA RecvMarkKept == ASSUME BasicInv, RecvMark
  PROVE BasicInv'
<1>a. MarkAll(rcv.node) /\ rcv.pc = "mark" /\ rcv' = [pc |-> "idle", node |-> NoNode, pack |-> "none"] /\ rcv.node \in Nodes
  BY DEF RecvMark, RecvDone, BasicInv, CbKinds
<1>b. UNCHANGED <<app, nod, work_list, snd, toDev, fromDev, events, plug, cls_head, setup>>
  BY DEF RecvMark, wire, plugVars
<1>1. CbKinds'
  BY CbWork, SetupFacts, MarkEffect, <1>a, <1>b DEF BasicInv, CbKinds, Connection, Node,
      Attached, Status, Live, wire, plugVars, Same, SameConn, SameMark, SameNode
<1>2. CbLinks'
  BY CbWork, SetupFacts, MarkEffect, <1>a, <1>b DEF BasicInv, Attached, CbKinds, CbLinks,
      Connection, Node, Status, Live, wire, plugVars, Same, SameConn, SameMark, SameNode
<1>3. AliveInv'
  BY CbWork, SetupFacts, MarkEffect, <1>a, <1>b DEF BasicInv, Live, CbKinds, CbLinks, AliveInv,
      Connection, Node, Attached, Status, wire, plugVars, Same, SameConn, SameMark, SameNode
<1>4. KeptInv'
  BY CbWork, MarkEffect, <1>a, <1>b DEF BasicInv, RecvMark, Live, CbKinds, CbLinks, Connection,
      Node, Attached, wire, plugVars, Same, SameConn, SameMark, SameNode, KeptInv, GivenUp,
      freedVars, Uses, UsesOwn, UseOf, Listed
<1>5. QED
  BY <1>1, <1>2, <1>3, <1>4 DEF BasicInv

\* Telling a refusal keeps BasicInv.
LEMMA RecvFailKept == ASSUME BasicInv, RecvFail
  PROVE BasicInv'
<1>a. rcv.pc = "fail"
  BY DEF RecvFail
<1>b. UNCHANGED <<rpc, nod, work_list, snd, toDev, fromDev, events, plug, cls_head, setup>>
  BY DEF RecvFail, wire, plugVars
<1>1. CbKinds'
  <2>1. app' \in [Subs -> {"idle", "waiting", "subscribed", "refused", "closed"}]
    <3>1. app \in [Subs -> {"idle", "waiting", "subscribed", "refused", "closed"}]
      BY DEF BasicInv, CbKinds
    <3>2. CASE app' = app
      BY <3>1, <3>2
    <3>3. CASE app' = [s \in Subs |-> IF s \in Unmarked(rcv.node) /\ rpc[s].conn
                                      THEN Hears(app[s], "REQ_FAL") ELSE app[s]]
      BY <3>1, <3>3 DEF Hears
    <3>4. QED
      BY <3>2, <3>3, FailEffect DEF BasicInv
  <2>2. QED
    BY <1>a, <1>b, <2>1, FailEffect DEF BasicInv, CbKinds
<1>2. CbLinks'
  BY CbWork, SetupFacts, FailEffect, <1>a, <1>b DEF BasicInv, Attached, CbKinds, CbLinks,
      Connection, Node, Status, Live, wire, plugVars, Same, SameConn, SameMark, SameNode
<1>3. AliveInv'
  BY CbWork, SetupFacts, FailEffect, <1>a, <1>b DEF BasicInv, Live, CbKinds, CbLinks, AliveInv,
      Connection, Node, Attached, Status, wire, plugVars, Same, SameConn, SameMark, SameNode
<1>4. KeptInv'
  BY CbWork, FailEffect, <1>a, <1>b DEF BasicInv, RecvFail, Live, CbKinds, CbLinks, Connection,
      Node, Attached, wire, plugVars, Same, SameConn, SameMark, SameNode, KeptInv, GivenUp,
      freedVars, Uses, UsesOwn, UseOf, Listed
<1>5. QED
  BY <1>1, <1>2, <1>3, <1>4 DEF BasicInv

\* Giving up the node that was refused keeps BasicInv.
LEMMA RecvFlagKept == ASSUME BasicInv, RecvFlag
  PROVE BasicInv'
<1>a. /\ rcv.pc = "flag" /\ rcv.node \in Nodes
      /\ rcv'.pc = "notify" /\ rcv'.node = rcv.node /\ rcv'.pack = rcv.pack
      /\ rcv' \in [pc : {"idle", "proc", "ok", "mark", "fail", "flag", "notify"}, node : Nodes \cup {NoNode},
                  pack : {"none", "ok", "fail", "event"}]
  BY DEF RecvFlag, BasicInv, CbKinds
<1>b. UNCHANGED <<app, rpc, work_list, snd, toDev, fromDev, events, plug, cls_head, setup>>
  BY DEF RecvFlag, wire, plugVars
<1>c. /\ nod' \in [Nodes -> Node]
      /\ \A m \in Nodes :
           /\ nod'[m].status = nod[m].status /\ nod'[m].mem = nod[m].mem
           /\ nod'[m].exitflg = nod[m].exitflg /\ nod'[m].head = nod[m].head
           /\ nod'[m].freeflag <=> nod[m].freeflag \/ m = rcv.node
  BY <1>a, FlagSet DEF RecvFlag, BasicInv, Attached
<1>1. CbKinds'
  BY <1>a, <1>b, <1>c DEF BasicInv, CbKinds
<1>2. CbLinks'
  BY <1>a, <1>b, <1>c DEF BasicInv, CbKinds, CbLinks, Attached
<1>3. AliveInv'
  BY <1>a, <1>b DEF BasicInv, AliveInv
<1>4. KeptInv'
  BY <1>a, <1>b, <1>c DEF BasicInv, CbKinds, CbLinks, Attached, KeptInv, GivenUp, Live, RecvFlag,
      Uses
<1>5. QED
  BY <1>1, <1>2, <1>3, <1>4 DEF BasicInv

\* Waking the send thread up for it keeps BasicInv.
LEMMA RecvNotifyKept == ASSUME BasicInv, RecvNotify
  PROVE BasicInv'
<1>a. /\ rcv.pc = "notify" /\ rcv' = [pc |-> "idle", node |-> NoNode, pack |-> "none"]
      /\ UNCHANGED <<app, rpc, nod, work_list, snd, toDev, fromDev, events, plug, cls_head, setup>>
  BY DEF RecvNotify, RecvDone, wire, plugVars
<1>1. CbKinds'
  BY <1>a DEF BasicInv, CbKinds
<1>2. CbLinks'
  BY <1>a DEF BasicInv, CbLinks
<1>3. AliveInv'
  BY <1>a DEF BasicInv, AliveInv
<1>4. KeptInv'
  BY <1>a DEF BasicInv, KeptInv, GivenUp, Live, RecvNotify, Uses
<1>5. QED
  BY <1>1, <1>2, <1>3, <1>4 DEF BasicInv

\* Handing an event on keeps BasicInv.
LEMMA RecvEventKept == ASSUME BasicInv, RecvEvent
  PROVE BasicInv'
<1>1. CbKinds'
  BY CbWork, SetupFacts DEF BasicInv, RecvEvent, Told, Hears, Marked, RecvDone, CbKinds,
      Connection, Node, Attached, Status, Live, wire, plugVars
<1>2. CbLinks'
  BY CbWork, SetupFacts DEF BasicInv, RecvEvent, Told, Hears, Marked, RecvDone, Attached,
      CbKinds, CbLinks, Connection, Node, Status, Live, wire, plugVars
<1>3. AliveInv'
  BY CbWork, SetupFacts DEF BasicInv, RecvEvent, Told, Hears, Marked, RecvDone, Live, CbKinds,
      CbLinks, AliveInv, Connection, Node, Attached, Status, wire, plugVars
<1>4. KeptInv'
  BY CbWork DEF BasicInv, RecvEvent, Told, Hears, Marked, RecvDone, Live, CbKinds, CbLinks,
      Connection, Node, Attached, wire, plugVars, KeptInv, GivenUp, freedVars, Uses, UsesOwn,
      UseOf, Listed
<1>5. QED
  BY <1>1, <1>2, <1>3, <1>4 DEF BasicInv

\* A reply of the device keeps BasicInv.
LEMMA DevReplyKept == ASSUME BasicInv, DevReply
  PROVE BasicInv'
<1>1. CbKinds'
  BY CbWork, SetupFacts DEF BasicInv, DevReply, CbKinds, Connection, Node, Attached, Status,
      Live, wire, plugVars
<1>2. CbLinks'
  BY CbWork, SetupFacts DEF BasicInv, DevReply, Attached, CbKinds, CbLinks, Connection, Node,
      Status, Live, wire, plugVars
<1>3. AliveInv'
  BY CbWork, SetupFacts DEF BasicInv, DevReply, Live, CbKinds, CbLinks, AliveInv, Connection,
      Node, Attached, Status, wire, plugVars
<1>4. KeptInv'
  BY CbWork DEF BasicInv, DevReply, Live, CbKinds, CbLinks, Connection, Node, Attached, wire,
      plugVars, KeptInv, GivenUp, freedVars, Uses, UsesOwn, UseOf, Listed
<1>5. QED
  BY <1>1, <1>2, <1>3, <1>4 DEF BasicInv

\* An event of the device keeps BasicInv.
LEMMA DevEventKept == ASSUME BasicInv, DevEvent
  PROVE BasicInv'
<1>1. CbKinds'
  <2>1. fromDev \in Seq({"ok", "fail", "event"}) /\ events \in 0 .. MaxEvents
    BY DEF BasicInv, CbKinds
  <2>2. fromDev' \in Seq({"ok", "fail", "event"})
    BY <2>1 DEF DevEvent
  <2>3. events' \in 0 .. MaxEvents
    BY <2>1, EventsAssumption DEF DevEvent
  <2>4. QED
    BY <2>2, <2>3 DEF DevEvent, BasicInv, CbKinds, plugVars
<1>2. CbLinks'
  BY CbWork, SetupFacts DEF BasicInv, DevEvent, Subscribed, Attached, CbKinds, CbLinks,
      Connection, Node, Status, Live, wire, plugVars
<1>3. AliveInv'
  BY CbWork, SetupFacts DEF BasicInv, DevEvent, Subscribed, Live, CbKinds, CbLinks, AliveInv,
      Connection, Node, Attached, Status, wire, plugVars
<1>4. KeptInv'
  BY CbWork DEF BasicInv, DevEvent, Subscribed, Live, CbKinds, CbLinks, Connection, Node,
      Attached, wire, plugVars, KeptInv, GivenUp, freedVars, Uses, UsesOwn, UseOf, Listed
<1>5. QED
  BY <1>1, <1>2, <1>3, <1>4 DEF BasicInv

\* Unplugging keeps BasicInv.
LEMMA UnplugKept == ASSUME BasicInv, Unplug
  PROVE BasicInv'
<1>1. CbKinds'
  BY CbWork, SetupFacts DEF BasicInv, Unplug, CbKinds, Connection, Node, Attached, Status, Live,
      wire, plugVars
<1>2. CbLinks'
  BY CbWork, SetupFacts DEF BasicInv, Unplug, Attached, CbKinds, CbLinks, Connection, Node,
      Status, Live, wire, plugVars
<1>3. AliveInv'
  BY CbWork, SetupFacts DEF BasicInv, Unplug, Live, CbKinds, CbLinks, AliveInv, Connection,
      Node, Attached, Status, wire, plugVars
<1>4. KeptInv'
  BY CbWork DEF BasicInv, Unplug, Live, CbKinds, CbLinks, Connection, Node, Attached, wire,
      plugVars, KeptInv, GivenUp, freedVars, Uses, UsesOwn, UseOf, Listed
<1>5. QED
  BY <1>1, <1>2, <1>3, <1>4 DEF BasicInv

\* The teardown keeps BasicInv.
LEMMA TearDownKept == ASSUME BasicInv, TearDown
  PROVE BasicInv'
<1>a. plug = "out" /\ plug' = "teardown"
  BY DEF TearDown
<1>b. UNCHANGED <<app, work_list, snd, rcv, toDev, fromDev, events, setup>>
  BY DEF TearDown, wire, plugVars
<1>1. CbKinds'
  BY CbWork, SetupFacts, TearDownEffect, <1>a, <1>b DEF BasicInv, CbKinds, Connection, Node,
      Attached, Status, Live, wire, plugVars, Same, SameConn, SameMark, SameNode
<1>2. CbLinks'
  BY CbWork, SetupFacts, TearDownEffect, <1>a, <1>b DEF BasicInv, Attached, CbKinds, CbLinks,
      Connection, Node, Status, Live, wire, plugVars, Same, SameConn, SameMark, SameNode
<1>3. AliveInv'
  BY CbWork, SetupFacts, TearDownEffect, <1>a, <1>b DEF BasicInv, Live, CbKinds, CbLinks,
      AliveInv, Connection, Node, Attached, Status, wire, plugVars, Same, SameConn, SameMark,
      SameNode
<1>4. KeptInv'
  <2>1. /\ \A t \in Subs : rpc'[t].pc = rpc[t].pc /\ rpc'[t].cbdev = rpc[t].cbdev
        /\ \A m \in Nodes : nod'[m].mem = nod[m].mem
    BY TearDownEffect DEF BasicInv, Same
  <2>2. ASSUME NEW m \in Nodes
        PROVE  /\ nod[m].freeflag => nod'[m].freeflag
               /\ nod'[m].freeflag => nod[m].freeflag \/ (work_list = <<m>> /\ nod[m].head = {})
    <3> DEFINE e == nod[m].exitflg \/ m \in ToSet(work_list)
               g == nod[m].freeflag \/ (m \in ToSet(work_list) /\ nod[m].head = {})
    <3>1. nod'[m] = [nod[m] EXCEPT !.exitflg = e, !.freeflag = g] /\ nod[m] \in Node
      BY DEF TearDown, BasicInv, CbKinds
    <3>2. nod'[m].freeflag = g
      <4> HIDE DEF e, g
      <4>1. QED
        BY <3>1 DEF Node
    <3>3. m \in ToSet(work_list) => work_list = <<m>>
      BY CbWork DEF BasicInv, CbKinds
    <3>4. QED
      BY <3>2, <3>3
  <2>3. late' = late /\ late \subseteq Subs
    BY DEF TearDown, Listed, BasicInv, KeptInv
  <2>4. KeptInv /\ CbLinks /\ CbKinds
    BY DEF BasicInv
  <2>5. \A t \in Subs : t \in Nodes /\ (rpc[t].pc # "none" => rpc[t].cbdev \in Nodes)
    BY <2>4 DEF CbLinks, Nodes
  <2>6. ASSUME NEW t \in Subs, rpc'[t].pc \in Attached, t \notin late
        PROVE  ~ GivenUp(rpc[t].cbdev)'
    <3>1. rpc[t].pc \in Attached /\ ~ GivenUp(rpc[t].cbdev)
      BY <2>1, <2>4, <2>6 DEF KeptInv
    <3>2. /\ rpc[t].cbdev \in Nodes /\ rpc'[t].cbdev = rpc[t].cbdev
          /\ nod[rpc[t].cbdev].head # {}
      BY <2>1, <2>4, <2>5, <3>1 DEF Attached, CbLinks
    <3>3. ~ nod'[rpc[t].cbdev].freeflag
      BY <2>2, <3>1, <3>2 DEF GivenUp
    <3>4. QED
      BY <1>b, <2>1, <3>1, <3>2, <3>3 DEF GivenUp
  <2>7. \A m \in Nodes : /\ nod'[m].mem = "freed" => nod'[m].freeflag
                         /\ nod'[m].mem = "none" => ~ nod'[m].freeflag
                         /\ work_list' = <<m>> => nod'[m].mem # "none"
    BY <1>b, <2>1, <2>2, <2>4 DEF KeptInv
  <2>8. \A t \in Subs : /\ rpc'[t].pc = "none" => nod'[t].mem = "none"
                        /\ rpc'[t].pc # "none" => nod'[rpc'[t].cbdev].mem # "none"
    BY <2>1, <2>4, <2>5 DEF KeptInv
  <2>9. /\ rcv'.pc # "idle" => nod'[rcv'.node].mem # "none"
        /\ snd'.pc = "free" => nod'[snd'.node].freeflag
        /\ snd'.pc \in {"picked", "make", "tell", "mark"} => nod'[snd'.node].mem = "live"
    BY <1>b, <2>1, <2>2, <2>4 DEF KeptInv, CbKinds, Live
  <2>10. QED
    BY <2>3, <2>6, <2>7, <2>8, <2>9 DEF KeptInv, Live
<1>5. QED
  BY <1>1, <1>2, <1>3, <1>4 DEF BasicInv

\* The end of the teardown keeps BasicInv.
LEMMA TearDownDoneKept == ASSUME BasicInv, TearDownDone
  PROVE BasicInv'
<1>1. CbKinds'
  BY CbWork, SetupFacts DEF BasicInv, TearDownDone, CbKinds, Connection, Node, Attached, Status,
      Live, wire, plugVars
<1>2. CbLinks'
  BY CbWork, SetupFacts DEF BasicInv, TearDownDone, Attached, CbKinds, CbLinks, Connection,
      Node, Status, Live, wire, plugVars
<1>3. AliveInv'
  BY CbWork, SetupFacts DEF BasicInv, TearDownDone, Live, CbKinds, CbLinks, AliveInv,
      Connection, Node, Attached, Status, wire, plugVars
<1>4. KeptInv'
  BY CbWork DEF BasicInv, TearDownDone, Live, CbKinds, CbLinks, Connection, Node, Attached,
      wire, plugVars, KeptInv, GivenUp, freedVars, Uses, UsesOwn, UseOf, Listed
<1>5. QED
  BY <1>1, <1>2, <1>3, <1>4 DEF BasicInv

\* Every step of module Callback keeps BasicInv.
LEMMA BasicNext == ASSUME BasicInv, [Next]_vars PROVE BasicInv'
<1>1. CASE UNCHANGED vars
  BY <1>1 DEF vars, wire, plugVars, freedVars, BasicInv, CbKinds, CbLinks, AliveInv, KeptInv,
      GivenUp, Live
<1>2. ASSUME NEW s \in Subs, Subscribe(s) \/ Leave(s)
      PROVE  BasicInv'
  BY <1>2, SubscribeKept, LeaveKept
<1>3. ASSUME NEW s \in Subs, Rpc(s)
      PROVE  BasicInv'
  BY <1>3, RpcFindKept, RpcAttachKept, RpcStatusKept, RpcReplyKept, RpcCheckKept, RpcStartKept,
     RpcEndKept, RpcEndCheckKept, RpcFlagKept, RpcNotifyKept DEF Rpc
<1>4. CASE SendThread
  BY <1>4, ScanKept, RecheckKept, PackMakeKept, PackMakeOfflineKept, OfflineTellKept,
     OfflineMarkKept, DeinitKept DEF SendThread
<1>5. CASE RecvThread
  BY <1>5, RecvFindKept, RecvReplyKept, RecvOkKept, RecvMarkKept, RecvFailKept, RecvFlagKept,
     RecvNotifyKept, RecvEventKept DEF RecvThread
<1>6. CASE DevReply \/ DevEvent \/ Unplug \/ Poll
  BY <1>6, DevReplyKept, DevEventKept, UnplugKept, TearDownKept, TearDownDoneKept DEF Poll
<1>7. QED
  BY <1>1, <1>2, <1>3, <1>4, <1>5, <1>6 DEF Next

\* The setup stays.
LEMMA SetupStays == [Next]_vars => setup' = setup
BY DEF Next, Rpc, SendThread, RecvThread, Poll, vars, plugVars, Subscribe, Leave, RpcFind,
    RpcAttach, RpcStatus, RpcReply, RpcCheck, RpcStart, RpcEnd, RpcEndCheck, RpcFlag, RpcNotify,
    Scan, Recheck, PackMake, PackMakeOffline, OfflineTell, OfflineMark, Deinit, RecvFind,
    RecvReply, RecvOk, RecvMark, RecvFail, RecvFlag, RecvNotify, RecvEvent, DevReply, DevEvent,
    Unplug, TearDown, TearDownDone

\* How a node that was freed may be used.
BadInv == bad \subseteq IF setup.fail \/ setup.unplug
                       THEN {"late", "left", "notify", "proc", "listed"} ELSE {}

\* Which nodes are not freed: the one a connection is attached to, unless it
\* came late, and the one the send thread works on; and all that are in use,
\* if the device stays and takes the subscription.
LEMMA NotFreed == ASSUME BasicInv
  PROVE  /\ \A s \in Subs : rpc[s].pc \in Attached /\ s \notin late => Live(rpc[s].cbdev)
         /\ snd.pc \in {"picked", "make", "tell", "mark"} => Live(snd.node)
         /\ ~ setup.fail /\ ~ setup.unplug =>
              /\ snd.pc # "free"
              /\ \A s \in Subs : rpc[s].pc # "none" => Live(rpc[s].cbdev)
              /\ rcv.pc # "idle" => Live(rcv.node)
              /\ \A n \in ToSet(work_list) : Live(n)
<1>1. \A n \in Nodes : nod[n].mem # "none" /\ ~ nod[n].freeflag => Live(n)
  BY DEF BasicInv, CbKinds, KeptInv, Node, Live
<1>2. \A s \in Subs : rpc[s].pc # "none" => rpc[s].cbdev \in Nodes /\ nod[rpc[s].cbdev].mem # "none"
  BY DEF BasicInv, CbLinks, KeptInv
<1>3. \A s \in Subs : rpc[s].pc \in Attached => rpc[s].pc # "none"
  BY DEF Attached
<1>4. \A s \in Subs : rpc[s].pc \in Attached /\ s \notin late => ~ nod[rpc[s].cbdev].freeflag
  BY DEF BasicInv, KeptInv, GivenUp
<1>5. ASSUME ~ setup.fail /\ ~ setup.unplug
      PROVE  snd.pc # "free" /\ \A n \in Nodes : ~ nod[n].freeflag
  BY <1>5 DEF BasicInv, AliveInv
<1>6. rcv.pc # "idle" => rcv.node \in Nodes /\ nod[rcv.node].mem # "none"
  BY DEF BasicInv, CbKinds, KeptInv
<1>7. \A n \in ToSet(work_list) : n \in Nodes /\ nod[n].mem # "none"
  <2>1. CASE work_list = <<>>
    BY <2>1, CbWork
  <2>2. CASE \E n \in Nodes : work_list = <<n>>
    BY <2>2, CbWork DEF BasicInv, KeptInv
  <2>3. QED
    BY <2>1, <2>2 DEF BasicInv, CbKinds
<1>8. snd.pc \in {"picked", "make", "tell", "mark"} => Live(snd.node)
  BY DEF BasicInv, KeptInv
<1>9. QED
  BY <1>1, <1>2, <1>3, <1>4, <1>5, <1>6, <1>7, <1>8

\* Every use of a node is one of a node that is there, or of a kind BadInv
\* has.
LEMMA BadNext == ASSUME BasicInv, BadInv, [Next]_vars PROVE BadInv'
<1> DEFINE Few == {"late", "left", "notify", "proc", "listed"}
           Stays == ~ setup.fail /\ ~ setup.unplug
<1>1. SUFFICES bad' \subseteq bad \cup Few /\ (Stays => bad' \subseteq bad) /\ setup' = setup
  BY DEF BadInv
<1>2. ASSUME NEW n, NEW k \in Few, UseOf(n, k), Stays => Live(n)
      PROVE  bad' \subseteq bad \cup Few /\ (Stays => bad' \subseteq bad)
  BY <1>2 DEF UseOf
<1>3. ASSUME NEW n, NEW k, UseOf(n, k), Live(n)
      PROVE  bad' \subseteq bad
  BY <1>3 DEF UseOf
<1>4. ASSUME Listed
      PROVE  bad' \subseteq bad \cup Few /\ (Stays => bad' \subseteq bad)
  BY <1>4, NotFreed DEF Listed
<1>5. ASSUME NEW s \in Subs, NEW k, UsesOwn(s, k), rpc[s].pc \in Attached
      PROVE  bad' \subseteq bad \cup Few /\ (Stays => bad' \subseteq bad)
  <2>1. CASE s \in late
    <3>1. UseOf(rpc[s].cbdev, "late")
      BY <1>5, <2>1 DEF UsesOwn, Uses
    <3>2. QED
      BY <1>2, <1>5, <3>1, NotFreed DEF Attached
  <2>2. CASE s \notin late
    BY <1>3, <1>5, <2>2, NotFreed DEF UsesOwn, Uses
  <2>3. QED
    BY <2>1, <2>2
<1>6. ASSUME UNCHANGED bad
      PROVE  bad' \subseteq bad
  BY <1>6
<1>7. setup' = setup
  BY SetupStays
<1> HIDE DEF Stays, Few
<1>8. ASSUME NEW s \in Subs, Subscribe(s) \/ Leave(s) \/ Rpc(s)
      PROVE  bad' \subseteq bad \cup Few /\ (Stays => bad' \subseteq bad)
  <2>1. CASE Subscribe(s) \/ Leave(s) \/ RpcReply(s)
    BY <2>1 DEF Subscribe, Leave, RpcReply, freedVars
  <2>2. CASE RpcFind(s)
    BY <1>4, <2>2 DEF RpcFind
  <2>3. CASE RpcAttach(s)
    <3>1. UseOf(rpc[s].cbdev, "late") /\ rpc[s].pc # "none" /\ "late" \in Few
      BY <2>3 DEF RpcAttach, Few
    <3>2. QED
      BY <1>2, <3>1, NotFreed DEF Stays
  <2>4. CASE RpcStatus(s) \/ RpcCheck(s) \/ RpcStart(s) \/ RpcEnd(s)
    BY <1>5, <2>4 DEF RpcStatus, RpcCheck, RpcStart, RpcEnd, Attached
  <2>5. CASE RpcEndCheck(s) \/ RpcFlag(s) \/ RpcNotify(s)
    <3>1. \E k \in {"left", "notify"} : UseOf(rpc[s].cbdev, k)
      BY <2>5 DEF RpcEndCheck, RpcFlag, RpcNotify, Uses
    <3>2. rpc[s].pc # "none" /\ {"left", "notify"} \subseteq Few
      BY <2>5 DEF RpcEndCheck, RpcFlag, RpcNotify, Few
    <3>3. QED
      BY <1>2, <3>1, <3>2, NotFreed DEF Stays
  <2>6. QED
    BY <1>8, <2>1, <2>2, <2>3, <2>4, <2>5 DEF Rpc
<1>9. CASE SendThread
  <2>1. CASE Scan
    BY <1>4, <1>7, <2>1 DEF Scan
  <2>2. CASE Recheck \/ PackMake \/ PackMakeOffline \/ OfflineTell \/ OfflineMark
    <3>1. UseOf(snd.node, "send") /\ snd.pc \in {"picked", "make", "tell", "mark"}
      BY <2>2 DEF Recheck, PackMake, PackMakeOffline, OfflineTell, OfflineMark, Uses
    <3>2. QED
      BY <1>3, <1>7, <3>1, NotFreed
  <2>3. CASE Deinit
    <3>1. UseOf(snd.node, "listed") /\ snd.pc = "free" /\ "listed" \in Few
      BY <2>3 DEF Deinit, Uses, Few
    <3>2. QED
      BY <1>2, <1>7, <3>1, NotFreed DEF Stays
  <2>4. QED
    BY <1>9, <2>1, <2>2, <2>3 DEF SendThread
<1>10. CASE RecvThread
  <2>1. CASE RecvFind
    BY <1>4, <1>7, <2>1 DEF RecvFind
  <2>2. CASE RecvReply \/ RecvOk \/ RecvMark \/ RecvFail \/ RecvFlag \/ RecvNotify \/ RecvEvent
    <3>1. \E k \in {"proc", "notify"} : UseOf(rcv.node, k)
      BY <2>2 DEF RecvReply, RecvOk, RecvMark, RecvFail, RecvFlag, RecvNotify, RecvEvent, Uses
    <3>2. rcv.pc # "idle" /\ {"proc", "notify"} \subseteq Few
      BY <2>2 DEF RecvReply, RecvOk, RecvMark, RecvFail, RecvFlag, RecvNotify, RecvEvent, Few
    <3>3. QED
      BY <1>2, <1>7, <3>1, <3>2, NotFreed DEF Stays
  <2>3. QED
    BY <1>10, <2>1, <2>2 DEF RecvThread
<1>11. CASE DevReply \/ DevEvent \/ Unplug \/ TearDownDone \/ UNCHANGED vars
  BY <1>7, <1>11 DEF DevReply, DevEvent, Unplug, TearDownDone, vars, freedVars
<1>12. CASE TearDown
  BY <1>4, <1>7, <1>12 DEF TearDown
<1>13. QED
  BY <1>7, <1>8, <1>9, <1>10, <1>11, <1>12 DEF Next, Poll

\* A subscription keeps CbInv.
LEMMA SubscribeKeeps == ASSUME OneAsks, CbInv, NEW s \in Subs, Subscribe(s)
  PROVE CbInv'
<1>1. BasicInv'
  BY SubscribeKept DEF CbInv
<1>2. CbKinds' /\ CbLinks'
  BY <1>1 DEF BasicInv
<1>4. AnnouncedInv'
  BY CbWork, SetupFacts DEF OneAsks, CbInv, BasicInv, Subscribe, Status, CbKinds, CbLinks,
      AnnouncedInv, WorkInv, RecvInv, Connection, Node, Attached, Live, wire, plugVars
<1>5. NewInv'
  BY CbWork, SetupFacts DEF OneAsks, CbInv, BasicInv, Subscribe, Early, Quiet, Status, CbKinds,
      CbLinks, NewInv, WorkInv, RecvInv, Connection, Node, Attached, Live, wire, plugVars
<1>6. WorkInv'
  BY CbWork, SetupFacts DEF OneAsks, CbInv, BasicInv, Subscribe, Status, CbKinds, CbLinks,
      AnnouncedInv, NewInv, WorkInv, RecvInv, Connection, Node, Attached, Live, wire, plugVars
<1>7. CountInv'
  BY CbWork, SetupFacts DEF OneAsks, CbInv, BasicInv, Subscribe, Status, AwaitsReply,
      RepliesOut, Replies, Subscribed, CbKinds, CbLinks, NewInv, WorkInv, RecvInv, CountInv,
      Connection, Node, Attached, Live, wire, plugVars
<1>8. RecvInv'
  BY CbWork, SetupFacts DEF OneAsks, CbInv, BasicInv, Subscribe, Status, CbKinds, CbLinks,
      NewInv, WorkInv, CountInv, RecvInv, Connection, Node, Attached, Live, wire, plugVars
<1>9. SubsInv'
  BY CbWork, SetupFacts DEF OneAsks, CbInv, BasicInv, Subscribe, Status, CbKinds, CbLinks,
      AnnouncedInv, NewInv, WorkInv, RecvInv, SubsInv, Connection, Node, Attached, Live, wire,
      plugVars
<1>10. QED
  BY <1>1, <1>4, <1>5, <1>6, <1>7, <1>8, <1>9 DEF CbInv

\* An application that closes keeps CbInv.
LEMMA LeaveKeeps == ASSUME OneAsks, CbInv, NEW s \in Subs, Leave(s)
  PROVE CbInv'
<1>1. BasicInv'
  BY LeaveKept DEF CbInv
<1>2. CbKinds' /\ CbLinks'
  BY <1>1 DEF BasicInv
<1>4. AnnouncedInv'
  BY CbWork, SetupFacts DEF OneAsks, CbInv, BasicInv, Leave, Status, CbKinds, CbLinks,
      AnnouncedInv, WorkInv, RecvInv, Connection, Node, Attached, Live, wire, plugVars
<1>5. NewInv'
  BY CbWork, SetupFacts DEF OneAsks, CbInv, BasicInv, Leave, Early, Quiet, Status, CbKinds,
      CbLinks, NewInv, WorkInv, RecvInv, Connection, Node, Attached, Live, wire, plugVars
<1>6. WorkInv'
  BY CbWork, SetupFacts DEF OneAsks, CbInv, BasicInv, Leave, Status, CbKinds, CbLinks,
      AnnouncedInv, NewInv, WorkInv, RecvInv, Connection, Node, Attached, Live, wire, plugVars
<1>7. CountInv'
  BY CbWork, SetupFacts DEF OneAsks, CbInv, BasicInv, Leave, Status, AwaitsReply, RepliesOut,
      Replies, Subscribed, CbKinds, CbLinks, NewInv, WorkInv, RecvInv, CountInv, Connection,
      Node, Attached, Live, wire, plugVars
<1>8. RecvInv'
  BY CbWork, SetupFacts DEF OneAsks, CbInv, BasicInv, Leave, Status, CbKinds, CbLinks, NewInv,
      WorkInv, CountInv, RecvInv, Connection, Node, Attached, Live, wire, plugVars
<1>9. SubsInv'
  BY CbWork, SetupFacts DEF OneAsks, CbInv, BasicInv, Leave, Status, CbKinds, CbLinks,
      AnnouncedInv, NewInv, WorkInv, RecvInv, SubsInv, Connection, Node, Attached, Live, wire,
      plugVars
<1>10. QED
  BY <1>1, <1>4, <1>5, <1>6, <1>7, <1>8, <1>9 DEF CbInv

\* Finding the node keeps CbInv.
LEMMA RpcFindKeeps == ASSUME OneAsks, CbInv, NEW s \in Subs, RpcFind(s)
  PROVE CbInv'
<1>a. PICK n \in Nodes : FoundNode(s, n)
  BY JoinEffect DEF CbInv, BasicInv
<1>b. UNCHANGED <<app, snd, rcv, toDev, fromDev, events, plug, cls_head, setup>>
  BY DEF RpcFind, wire, plugVars
<1>c. plug # "stopped"
  BY DEF RpcFind
<1>1. BasicInv'
  BY RpcFindKept DEF CbInv
<1>2. CbKinds' /\ CbLinks'
  BY <1>1 DEF BasicInv
<1>4. AnnouncedInv'
  <2>1. SUFFICES ASSUME plug = "in", setup.base
                 PROVE  AnnouncedInv'
    BY <1>b DEF AnnouncedInv
  <2>2. /\ work_list = <<BaseNode>> /\ Status(BaseNode) # "not_init"
        /\ \A m \in Nodes : ~ nod[m].freeflag
        /\ \A t \in Subs : rpc[t].pc # "start" /\ (rpc[t].pc # "none" => rpc[t].cbdev = BaseNode)
    BY <2>1 DEF CbInv, AnnouncedInv
  <2>3. n = BaseNode /\ work_list' = <<BaseNode>>
    BY <1>a, <2>2, CbWork DEF FoundNode
  <2>4. /\ rpc'[s].pc = "found" /\ rpc'[s].cbdev = BaseNode
        /\ \A t \in Subs : t # s => rpc'[t].pc = rpc[t].pc /\ rpc'[t].cbdev = rpc[t].cbdev
        /\ \A m \in Nodes : /\ nod'[m].status = nod[m].status
                            /\ nod'[m].freeflag <=> nod[m].freeflag
    BY <1>a, <2>3 DEF FoundNode, Same
  <2>5. QED
    BY <1>b, <2>2, <2>3, <2>4, CbWork DEF CbInv, AnnouncedInv, Status
<1>5. NewInv'
  <2>d. /\ FoundNode(s, n) /\ CbLinks /\ CbKinds /\ WorkInv /\ NewInv /\ SubsInv /\ AliveInv
    BY <1>a DEF CbInv, BasicInv
  <2>e. /\ rpc[s].pc = "none" /\ rpc'[s].pc = "found" /\ rpc'[s].cbdev = n /\ work_list' = <<n>>
        /\ \A t \in Subs : t # s => rpc'[t].pc = rpc[t].pc /\ rpc'[t].cbdev = rpc[t].cbdev
        /\ \A t \in Subs : (rpc'[t].conn <=> rpc[t].conn) /\ (rpc'[t].initflag <=> rpc[t].initflag)
        /\ rpc[s].conn
    BY <1>a DEF FoundNode, Same, SameConn, SameMark
  <2>m. \A m \in Nodes : /\ nod'[m].status = nod[m].status /\ nod'[m].head = nod[m].head
                         /\ (nod'[m].freeflag <=> nod[m].freeflag)
                         /\ (nod'[m].exitflg <=> nod[m].exitflg)
                         /\ (nod'[m].mem = nod[m].mem \/ (m = n /\ work_list = <<>> /\ nod'[m].mem = "live"))
    BY <1>a DEF FoundNode
  <2>w. work_list = <<n>> \/ (work_list = <<>> /\ n = s)
    BY <1>a DEF FoundNode
  <2>1. SUFFICES ASSUME plug = "in" /\ ~ setup.base
                 PROVE  NewInv'
    BY <1>b DEF NewInv
  <2>2. \A t \in Subs : t # s => rpc[t].pc = "none"
    BY <2>1, <2>d, <2>e DEF CbKinds, CbLinks, OneAsks
  <2>3. \A t \in Subs : rpc[t].pc = "none"
    BY <2>2, <2>e
  <2>4. work_list = <<>> /\ Quiet
    BY <2>1, <2>3, <2>d DEF NewInv, Quiet, Early
  <2>5. n = s
    BY <2>4, <2>w, CbWork
  <2>7. s \in setup.subs /\ \A m \in Nodes : work_list' = <<m>> => m = s
    BY <2>5, <2>d, <2>e, CbWork DEF CbLinks
  <2>6. QED
    BY <1>b, <2>7, <2>1, <2>2, <2>4, <2>5, <2>d, <2>e, <2>m DEF NewInv, Status
<1>6. WorkInv'
  BY CbWork, SetupFacts, <1>a, <1>b, <1>c DEF OneAsks, CbInv, BasicInv, Status, CbKinds,
      CbLinks, AnnouncedInv, NewInv, WorkInv, RecvInv, Connection, Node, Attached, Live, wire,
      plugVars, Same, SameConn, SameMark, SameNode, FoundNode
<1>7. CountInv'
  BY CbWork, SetupFacts, <1>a, <1>b, <1>c DEF OneAsks, CbInv, BasicInv, Status, AwaitsReply,
      RepliesOut, Replies, Subscribed, CbKinds, CbLinks, NewInv, WorkInv, RecvInv, CountInv,
      Connection, Node, Attached, Live, wire, plugVars, Same, SameConn, SameMark, SameNode,
      FoundNode
<1>8. RecvInv'
  BY CbWork, SetupFacts, <1>a, <1>b, <1>c DEF OneAsks, CbInv, BasicInv, Status, CbKinds,
      CbLinks, NewInv, WorkInv, CountInv, RecvInv, Connection, Node, Attached, Live, wire,
      plugVars, Same, SameConn, SameMark, SameNode, FoundNode
<1>9. SubsInv'
  <2>d. /\ FoundNode(s, n) /\ CbLinks /\ CbKinds /\ WorkInv /\ NewInv /\ SubsInv /\ AliveInv
    BY <1>a DEF CbInv, BasicInv
  <2>e. /\ rpc[s].pc = "none" /\ rpc'[s].pc = "found" /\ rpc'[s].cbdev = n /\ work_list' = <<n>>
        /\ \A t \in Subs : t # s => rpc'[t].pc = rpc[t].pc /\ rpc'[t].cbdev = rpc[t].cbdev
        /\ \A t \in Subs : (rpc'[t].conn <=> rpc[t].conn) /\ (rpc'[t].initflag <=> rpc[t].initflag)
        /\ rpc[s].conn
    BY <1>a DEF FoundNode, Same, SameConn, SameMark
  <2>m. \A m \in Nodes : /\ nod'[m].status = nod[m].status /\ nod'[m].head = nod[m].head
                         /\ (nod'[m].freeflag <=> nod[m].freeflag)
                         /\ (nod'[m].exitflg <=> nod[m].exitflg)
                         /\ (nod'[m].mem = nod[m].mem \/ (m = n /\ work_list = <<>> /\ nod'[m].mem = "live"))
    BY <1>a DEF FoundNode
  <2>w. work_list = <<n>> \/ (work_list = <<>> /\ n = s)
    BY <1>a DEF FoundNode
  <2>1. \A t \in Subs : rpc'[t].pc = "reply" => /\ rpc[t].pc = "reply" /\ rpc'[t].cbdev = rpc[t].cbdev
                                                /\ rpc[t].cbdev \in Nodes
    BY <2>d, <2>e DEF CbLinks
  <2>2. \A t \in Subs, m \in Nodes : t \in nod[m].head => t \in nod'[m].head
    BY <2>m
  <2>3. QED
    BY <1>b, <2>1, <2>2, <2>d, <2>e, <2>m DEF SubsInv, Status
<1>10. QED
  BY <1>1, <1>4, <1>5, <1>6, <1>7, <1>8, <1>9 DEF CbInv

\* Attaching to the node keeps CbInv.
LEMMA RpcAttachKeeps == ASSUME OneAsks, CbInv, NEW s \in Subs, RpcAttach(s)
  PROVE CbInv'
<1>1. BasicInv'
  BY RpcAttachKept DEF CbInv
<1>2. CbKinds' /\ CbLinks'
  BY <1>1 DEF BasicInv
<1>4. AnnouncedInv'
  BY CbWork, SetupFacts DEF OneAsks, CbInv, BasicInv, RpcAttach, Status, CbKinds, CbLinks,
      AnnouncedInv, WorkInv, RecvInv, Connection, Node, Attached, Live, wire, plugVars
<1>5. NewInv'
  BY CbWork, SetupFacts DEF OneAsks, CbInv, BasicInv, RpcAttach, Early, Quiet, Status, CbKinds,
      CbLinks, NewInv, WorkInv, RecvInv, Connection, Node, Attached, Live, wire, plugVars
<1>6. WorkInv'
  BY CbWork, SetupFacts DEF OneAsks, CbInv, BasicInv, RpcAttach, Status, CbKinds, CbLinks,
      AnnouncedInv, NewInv, WorkInv, RecvInv, Connection, Node, Attached, Live, wire, plugVars
<1>7. CountInv'
  BY CbWork, SetupFacts DEF OneAsks, CbInv, BasicInv, RpcAttach, Status, AwaitsReply,
      RepliesOut, Replies, Subscribed, CbKinds, CbLinks, NewInv, WorkInv, RecvInv, CountInv,
      Connection, Node, Attached, Live, wire, plugVars
<1>8. RecvInv'
  BY CbWork, SetupFacts DEF OneAsks, CbInv, BasicInv, RpcAttach, Status, CbKinds, CbLinks,
      NewInv, WorkInv, CountInv, RecvInv, Connection, Node, Attached, Live, wire, plugVars
<1>9. SubsInv'
  BY CbWork, SetupFacts DEF OneAsks, CbInv, BasicInv, RpcAttach, Status, CbKinds, CbLinks,
      AnnouncedInv, NewInv, WorkInv, RecvInv, SubsInv, Connection, Node, Attached, Live, wire,
      plugVars
<1>10. QED
  BY <1>1, <1>4, <1>5, <1>6, <1>7, <1>8, <1>9 DEF CbInv

\* Looking at the status of the node keeps CbInv.
LEMMA RpcStatusKeeps == ASSUME OneAsks, CbInv, NEW s \in Subs, RpcStatus(s)
  PROVE CbInv'
<1>b. UNCHANGED <<app, nod, work_list, snd, rcv, toDev, fromDev, events, plug, cls_head, setup>>
  BY DEF RpcStatus, wire, plugVars
<1>1. BasicInv'
  BY RpcStatusKept DEF CbInv
<1>2. CbKinds' /\ CbLinks'
  BY <1>1 DEF BasicInv
<1>4. AnnouncedInv'
  BY CbWork, SetupFacts, StatusEffect, <1>b DEF OneAsks, CbInv, BasicInv, Status, CbKinds,
      CbLinks, AnnouncedInv, WorkInv, RecvInv, Connection, Node, Attached, Live, wire, plugVars,
      Same, SameConn, SameMark, SameNode
<1>5. NewInv'
  <2>e. /\ rpc[s].pc = "attached" /\ rpc'[s].cbdev = rpc[s].cbdev
        /\ \A t \in Subs : t # s => Same(t) /\ SameMark(t)
        /\ \A t \in Subs : SameConn(t)
        /\ rpc[s].initflag => rpc'[s].initflag
        /\ rpc'[s].pc = "check" \/ (/\ rpc'[s].pc = "reply" /\ rpc'[s].initflag
                                  /\ Status(rpc[s].cbdev) = "wait_usb_data")
    BY StatusEffect DEF CbInv, BasicInv, Status
  <2>1. ASSUME NEW t \in Subs
        PROVE  /\ rpc'[t].cbdev = rpc[t].cbdev
               /\ (rpc'[t].pc = "none" <=> rpc[t].pc = "none")
               /\ (rpc'[t].pc \in Early => rpc[t].pc \in Early)
    <3>1. CASE t = s
      BY <2>e, <3>1 DEF Early
    <3>2. CASE t # s
      BY <2>e, <3>2 DEF Same
    <3>3. QED
      BY <3>1, <3>2
  <2>2. NewInv
    BY DEF CbInv, BasicInv
  <2>3. Quiet' => Quiet
    BY <2>1 DEF Quiet
  <2>4. QED
    BY <1>b, <2>1, <2>2, <2>3 DEF NewInv, Status
<1>6. WorkInv'
  BY CbWork, SetupFacts, StatusEffect, <1>b DEF OneAsks, CbInv, BasicInv, Status, CbKinds,
      CbLinks, AnnouncedInv, NewInv, WorkInv, RecvInv, Connection, Node, Attached, Live, wire,
      plugVars, Same, SameConn, SameMark, SameNode
<1>7. CountInv'
  BY CbWork, SetupFacts, StatusEffect, <1>b DEF OneAsks, CbInv, BasicInv, Status, AwaitsReply,
      RepliesOut, Replies, Subscribed, CbKinds, CbLinks, NewInv, WorkInv, RecvInv, CountInv,
      Connection, Node, Attached, Live, wire, plugVars, Same, SameConn, SameMark, SameNode
<1>8. RecvInv'
  BY CbWork, SetupFacts, StatusEffect, <1>b DEF OneAsks, CbInv, BasicInv, Status, CbKinds,
      CbLinks, NewInv, WorkInv, CountInv, RecvInv, Connection, Node, Attached, Live, wire,
      plugVars, Same, SameConn, SameMark, SameNode
<1>9. SubsInv'
  <2>e. /\ rpc[s].pc = "attached" /\ rpc'[s].cbdev = rpc[s].cbdev
        /\ \A t \in Subs : t # s => Same(t) /\ SameMark(t)
        /\ \A t \in Subs : SameConn(t)
        /\ rpc[s].initflag => rpc'[s].initflag
        /\ rpc'[s].pc = "check" \/ (/\ rpc'[s].pc = "reply" /\ rpc'[s].initflag
                                  /\ Status(rpc[s].cbdev) = "wait_usb_data")
    BY StatusEffect DEF CbInv, BasicInv, Status
  <2>1. SubsInv
    BY DEF CbInv, BasicInv
  <2>2. ASSUME NEW t \in Subs
        PROVE  /\ (rpc[t].conn => rpc'[t].conn)
               /\ (rpc[t].initflag => rpc'[t].initflag)
               /\ rpc'[t].cbdev = rpc[t].cbdev
               /\ (rpc'[t].pc = "reply" =>
                     \/ rpc[t].pc = "reply"
                     \/ rpc'[t].initflag /\ Status(rpc[t].cbdev) = "wait_usb_data")
    <3>1. CASE t = s
      BY <2>e, <3>1 DEF SameConn
    <3>2. CASE t # s
      BY <2>e, <3>2 DEF Same, SameConn, SameMark
    <3>3. QED
      BY <3>1, <3>2
  <2>3. QED
    BY <1>b, <2>1, <2>2 DEF SubsInv, Status
<1>10. QED
  BY <1>1, <1>4, <1>5, <1>6, <1>7, <1>8, <1>9 DEF CbInv

\* The answer to a connection that joined keeps CbInv.
LEMMA RpcReplyKeeps == ASSUME OneAsks, CbInv, NEW s \in Subs, RpcReply(s)
  PROVE CbInv'
<1>1. BasicInv'
  BY RpcReplyKept DEF CbInv
<1>2. CbKinds' /\ CbLinks'
  BY <1>1 DEF BasicInv
<1>4. AnnouncedInv'
  BY CbWork, SetupFacts DEF OneAsks, CbInv, BasicInv, RpcReply, Told, Hears, Status, CbKinds,
      CbLinks, AnnouncedInv, WorkInv, RecvInv, Connection, Node, Attached, Live, wire, plugVars
<1>5. NewInv'
  BY CbWork, SetupFacts DEF OneAsks, CbInv, BasicInv, RpcReply, Told, Hears, Early, Quiet,
      Status, CbKinds, CbLinks, NewInv, WorkInv, RecvInv, Connection, Node, Attached, Live,
      wire, plugVars
<1>6. WorkInv'
  BY CbWork, SetupFacts DEF OneAsks, CbInv, BasicInv, RpcReply, Told, Hears, Status, CbKinds,
      CbLinks, AnnouncedInv, NewInv, WorkInv, RecvInv, Connection, Node, Attached, Live, wire,
      plugVars
<1>7. CountInv'
  BY CbWork, SetupFacts DEF OneAsks, CbInv, BasicInv, RpcReply, Told, Hears, Status,
      AwaitsReply, RepliesOut, Replies, Subscribed, CbKinds, CbLinks, NewInv, WorkInv, RecvInv,
      CountInv, Connection, Node, Attached, Live, wire, plugVars
<1>8. RecvInv'
  BY CbWork, SetupFacts DEF OneAsks, CbInv, BasicInv, RpcReply, Told, Hears, Status, CbKinds,
      CbLinks, NewInv, WorkInv, CountInv, RecvInv, Connection, Node, Attached, Live, wire,
      plugVars
<1>9. SubsInv'
  BY CbWork, SetupFacts DEF OneAsks, CbInv, BasicInv, RpcReply, Told, Hears, Status, CbKinds,
      CbLinks, AnnouncedInv, NewInv, WorkInv, RecvInv, SubsInv, Connection, Node, Attached,
      Live, wire, plugVars
<1>10. QED
  BY <1>1, <1>4, <1>5, <1>6, <1>7, <1>8, <1>9 DEF CbInv

\* Looking whether the command is to be asked for keeps CbInv.
LEMMA RpcCheckKeeps == ASSUME OneAsks, CbInv, NEW s \in Subs, RpcCheck(s)
  PROVE CbInv'
<1>1. BasicInv'
  BY RpcCheckKept DEF CbInv
<1>2. CbKinds' /\ CbLinks'
  BY <1>1 DEF BasicInv
<1>4. AnnouncedInv'
  BY CbWork, SetupFacts DEF OneAsks, CbInv, BasicInv, RpcCheck, Status, CbKinds, CbLinks,
      AnnouncedInv, WorkInv, RecvInv, Connection, Node, Attached, Live, wire, plugVars
<1>5. NewInv'
  BY CbWork, SetupFacts DEF OneAsks, CbInv, BasicInv, RpcCheck, Early, Quiet, Status, CbKinds,
      CbLinks, NewInv, WorkInv, RecvInv, Connection, Node, Attached, Live, wire, plugVars
<1>6. WorkInv'
  BY CbWork, SetupFacts DEF OneAsks, CbInv, BasicInv, RpcCheck, Status, CbKinds, CbLinks,
      AnnouncedInv, NewInv, WorkInv, RecvInv, Connection, Node, Attached, Live, wire, plugVars
<1>7. CountInv'
  BY CbWork, SetupFacts DEF OneAsks, CbInv, BasicInv, RpcCheck, Status, AwaitsReply, RepliesOut,
      Replies, Subscribed, CbKinds, CbLinks, NewInv, WorkInv, RecvInv, CountInv, Connection,
      Node, Attached, Live, wire, plugVars
<1>8. RecvInv'
  BY CbWork, SetupFacts DEF OneAsks, CbInv, BasicInv, RpcCheck, Status, CbKinds, CbLinks,
      NewInv, WorkInv, CountInv, RecvInv, Connection, Node, Attached, Live, wire, plugVars
<1>9. SubsInv'
  BY CbWork, SetupFacts DEF OneAsks, CbInv, BasicInv, RpcCheck, Status, CbKinds, CbLinks,
      AnnouncedInv, NewInv, WorkInv, RecvInv, SubsInv, Connection, Node, Attached, Live, wire,
      plugVars
<1>10. QED
  BY <1>1, <1>4, <1>5, <1>6, <1>7, <1>8, <1>9 DEF CbInv

\* Asking for the command keeps CbInv.
LEMMA RpcStartKeeps == ASSUME OneAsks, CbInv, NEW s \in Subs, RpcStart(s)
  PROVE CbInv'
<1>a. rpc[s].cbdev \in Nodes /\ rpc[s].pc = "start" /\ rpc \in [Subs -> Connection]
  BY DEF RpcStart, CbInv, BasicInv, CbKinds, CbLinks
<1>b. nod' = [nod EXCEPT ![rpc[s].cbdev].status = "need_send_cmd"] /\ "need_send_cmd" \in Statuses
  BY DEF RpcStart, Statuses
<1>c. /\ nod' \in [Nodes -> Node]
      /\ \A m \in Nodes : /\ SameNode(m)
                          /\ nod'[m].status = IF m = rpc[s].cbdev THEN "need_send_cmd" ELSE nod[m].status
  <2>1. CbKinds
    BY DEF CbInv, BasicInv
  <2>2. QED
    BY <1>a, <1>b, <2>1, StatusSet
<1>d. rpc' \in [Subs -> Connection] /\ rpc' = [rpc EXCEPT ![s].pc = "read"]
  <2>1. [rpc[s] EXCEPT !.pc = "read"] \in Connection
    BY <1>a, RpcWith DEF Pcs
  <2>2. QED
    BY <1>a, <2>1 DEF RpcStart
<1>e. plug = "in" => /\ ~ setup.base /\ Quiet /\ work_list = <<s>> /\ rpc[s].cbdev = s
                     /\ toDev = <<>> /\ fromDev = <<>> /\ rcv.pc = "idle" /\ snd.pc = "scan"
                     /\ \A n \in Nodes : Status(n) = "not_init" /\ ~ nod[n].freeflag
  <2>1. SUFFICES ASSUME plug = "in"
                 PROVE  /\ ~ setup.base /\ Quiet /\ work_list = <<s>> /\ rpc[s].cbdev = s
                        /\ toDev = <<>> /\ fromDev = <<>> /\ rcv.pc = "idle" /\ snd.pc = "scan"
                        /\ \A n \in Nodes : Status(n) = "not_init" /\ ~ nod[n].freeflag
    OBVIOUS
  <2>2. ~ setup.base
    BY <1>a, <2>1 DEF CbInv, BasicInv, AnnouncedInv
  <2>3. \A t \in Subs : t # s => rpc[t].pc = "none"
    BY <1>a, <2>2 DEF CbInv, BasicInv, CbKinds, CbLinks, OneAsks
  <2>4. Quiet
    BY <1>a, <2>3 DEF Quiet, Early
  <2>5. QED
    BY <1>a, <2>1, <2>2, <2>4 DEF CbInv, BasicInv, NewInv, Early
<1>f. UNCHANGED <<app, work_list, snd, rcv, toDev, fromDev, events, plug, cls_head, setup>>
  BY DEF RpcStart, wire, plugVars
<1>1. BasicInv'
  BY RpcStartKept DEF CbInv
<1>2. CbKinds' /\ CbLinks'
  BY <1>1 DEF BasicInv
<1>4. AnnouncedInv'
  BY CbWork, SetupFacts, <1>a, <1>c, <1>d, <1>e, <1>f, CardEmpty DEF OneAsks, CbInv, BasicInv,
      Status, CbKinds, CbLinks, AnnouncedInv, WorkInv, RecvInv, Connection, Node, Attached,
      Live, wire, plugVars, Same, SameConn, SameMark, SameNode
<1>5. NewInv'
  BY CbWork, SetupFacts, <1>a, <1>c, <1>d, <1>e, <1>f, CardEmpty DEF OneAsks, CbInv, BasicInv,
      Early, Quiet, Status, CbKinds, CbLinks, NewInv, WorkInv, RecvInv, Connection, Node,
      Attached, Live, wire, plugVars, Same, SameConn, SameMark, SameNode
<1>6. WorkInv'
  BY CbWork, SetupFacts, <1>a, <1>c, <1>d, <1>e, <1>f, CardEmpty DEF OneAsks, CbInv, BasicInv,
      Status, CbKinds, CbLinks, AnnouncedInv, NewInv, WorkInv, RecvInv, Connection, Node,
      Attached, Live, wire, plugVars, Same, SameConn, SameMark, SameNode
<1>7. CountInv'
  <2>o. /\ RepliesOut = Len(toDev) + Cardinality(Replies(fromDev))
                        + (IF rcv.pc = "proc" /\ rcv.pack # "event" THEN 1 ELSE 0)
        /\ RepliesOut' = Len(toDev') + Cardinality(Replies(fromDev'))
                        + (IF rcv'.pc = "proc" /\ rcv'.pack # "event" THEN 1 ELSE 0)
    BY DEF RepliesOut, Replies
  <2>t. /\ toDev \in Seq({"sub"}) /\ fromDev \in Seq({"ok", "fail", "event"})
        /\ toDev' \in Seq({"sub"}) /\ fromDev' \in Seq({"ok", "fail", "event"})
        /\ Len(toDev) \in Nat /\ Len(toDev') \in Nat
    BY <1>2 DEF CbInv, BasicInv, CbKinds
  <2>r. /\ Cardinality(Replies(fromDev)) \in Nat /\ Cardinality(Replies(fromDev')) \in Nat
        /\ Cardinality(Replies(fromDev)) = 0 <=> \A k \in DOMAIN fromDev : fromDev[k] = "event"
    BY <2>t, RepliesFacts
  <2>s. SUFFICES ASSUME plug' = "in"
                 PROVE  /\ RepliesOut' = IF AwaitsReply' THEN 1 ELSE 0
                        /\ (\E k \in DOMAIN fromDev' : fromDev'[k] = "event") => Subscribed'
    BY DEF CountInv
  <2>1. /\ \A n \in Nodes : nod'[n].status \in {"not_init", "need_send_cmd"}
        /\ toDev' = <<>> /\ fromDev' = <<>> /\ rcv'.pc = "idle"
    BY <1>c, <1>e, <1>f, <2>s DEF Status
  <2>2. ~ AwaitsReply'
    BY <2>1 DEF AwaitsReply, Status
  <2>3. Cardinality(Replies(fromDev')) = 0 /\ Len(toDev') = 0 /\ DOMAIN fromDev' = {}
    BY <2>1, <2>t, RepliesFacts, CbWork
  <2>4. QED
    BY <2>1, <2>2, <2>3, <2>o
<1>8. RecvInv'
  BY CbWork, SetupFacts, <1>a, <1>c, <1>d, <1>e, <1>f, CardEmpty DEF OneAsks, CbInv, BasicInv,
      Status, CbKinds, CbLinks, NewInv, WorkInv, CountInv, RecvInv, Connection, Node, Attached,
      Live, wire, plugVars, Same, SameConn, SameMark, SameNode
<1>9. SubsInv'
  BY CbWork, SetupFacts, <1>a, <1>c, <1>d, <1>e, <1>f, CardEmpty DEF OneAsks, CbInv, BasicInv,
      Status, CbKinds, CbLinks, AnnouncedInv, NewInv, WorkInv, RecvInv, SubsInv, Connection,
      Node, Attached, Live, wire, plugVars, Same, SameConn, SameMark, SameNode
<1>10. QED
  BY <1>1, <1>4, <1>5, <1>6, <1>7, <1>8, <1>9 DEF CbInv

\* Detaching from the node keeps CbInv.
LEMMA RpcEndKeeps == ASSUME OneAsks, CbInv, NEW s \in Subs, RpcEnd(s)
  PROVE CbInv'
<1>1. BasicInv'
  BY RpcEndKept DEF CbInv
<1>2. CbKinds' /\ CbLinks'
  BY <1>1 DEF BasicInv
<1>4. AnnouncedInv'
  BY CbWork, SetupFacts DEF OneAsks, CbInv, BasicInv, RpcEnd, Status, CbKinds, CbLinks,
      AnnouncedInv, WorkInv, RecvInv, Connection, Node, Attached, Live, wire, plugVars
<1>5. NewInv'
  BY CbWork, SetupFacts DEF OneAsks, CbInv, BasicInv, RpcEnd, Early, Quiet, Status, CbKinds,
      CbLinks, NewInv, WorkInv, RecvInv, Connection, Node, Attached, Live, wire, plugVars
<1>6. WorkInv'
  BY CbWork, SetupFacts DEF OneAsks, CbInv, BasicInv, RpcEnd, Status, CbKinds, CbLinks,
      AnnouncedInv, NewInv, WorkInv, RecvInv, Connection, Node, Attached, Live, wire, plugVars
<1>7. CountInv'
  BY CbWork, SetupFacts DEF OneAsks, CbInv, BasicInv, RpcEnd, Status, AwaitsReply, RepliesOut,
      Replies, Subscribed, CbKinds, CbLinks, NewInv, WorkInv, RecvInv, CountInv, Connection,
      Node, Attached, Live, wire, plugVars
<1>8. RecvInv'
  BY CbWork, SetupFacts DEF OneAsks, CbInv, BasicInv, RpcEnd, Status, CbKinds, CbLinks, NewInv,
      WorkInv, CountInv, RecvInv, Connection, Node, Attached, Live, wire, plugVars
<1>9. SubsInv'
  BY CbWork, SetupFacts DEF OneAsks, CbInv, BasicInv, RpcEnd, Status, CbKinds, CbLinks,
      AnnouncedInv, NewInv, WorkInv, RecvInv, SubsInv, Connection, Node, Attached, Live, wire,
      plugVars
<1>10. QED
  BY <1>1, <1>4, <1>5, <1>6, <1>7, <1>8, <1>9 DEF CbInv

\* The last look at the node keeps CbInv.
LEMMA RpcEndCheckKeeps == ASSUME OneAsks, CbInv, NEW s \in Subs, RpcEndCheck(s)
  PROVE CbInv'
<1>1. BasicInv'
  BY RpcEndCheckKept DEF CbInv
<1>2. CbKinds' /\ CbLinks'
  BY <1>1 DEF BasicInv
<1>4. AnnouncedInv'
  BY CbWork, SetupFacts DEF OneAsks, CbInv, BasicInv, RpcEndCheck, Status, CbKinds, CbLinks,
      AnnouncedInv, WorkInv, RecvInv, Connection, Node, Attached, Live, wire, plugVars
<1>5. NewInv'
  BY CbWork, SetupFacts DEF OneAsks, CbInv, BasicInv, RpcEndCheck, Early, Quiet, Status,
      CbKinds, CbLinks, NewInv, WorkInv, RecvInv, Connection, Node, Attached, Live, wire,
      plugVars
<1>6. WorkInv'
  BY CbWork, SetupFacts DEF OneAsks, CbInv, BasicInv, RpcEndCheck, Status, CbKinds, CbLinks,
      AnnouncedInv, NewInv, WorkInv, RecvInv, Connection, Node, Attached, Live, wire, plugVars
<1>7. CountInv'
  BY CbWork, SetupFacts DEF OneAsks, CbInv, BasicInv, RpcEndCheck, Status, AwaitsReply,
      RepliesOut, Replies, Subscribed, CbKinds, CbLinks, NewInv, WorkInv, RecvInv, CountInv,
      Connection, Node, Attached, Live, wire, plugVars
<1>8. RecvInv'
  BY CbWork, SetupFacts DEF OneAsks, CbInv, BasicInv, RpcEndCheck, Status, CbKinds, CbLinks,
      NewInv, WorkInv, CountInv, RecvInv, Connection, Node, Attached, Live, wire, plugVars
<1>9. SubsInv'
  BY CbWork, SetupFacts DEF OneAsks, CbInv, BasicInv, RpcEndCheck, Status, CbKinds, CbLinks,
      AnnouncedInv, NewInv, WorkInv, RecvInv, SubsInv, Connection, Node, Attached, Live, wire,
      plugVars
<1>10. QED
  BY <1>1, <1>4, <1>5, <1>6, <1>7, <1>8, <1>9 DEF CbInv

\* Giving the node up keeps CbInv.
LEMMA RpcFlagKeeps == ASSUME OneAsks, CbInv, NEW s \in Subs, RpcFlag(s)
  PROVE CbInv'
<1>a. rpc[s].pc = "flag" /\ rpc[s].cbdev \in Nodes /\ rpc \in [Subs -> Connection]
  BY DEF RpcFlag, CbInv, BasicInv, CbKinds, CbLinks
<1>b. UNCHANGED <<app, work_list, snd, rcv, toDev, fromDev, events, plug, cls_head, setup>>
  BY DEF RpcFlag, wire, plugVars
<1>c. /\ nod' \in [Nodes -> Node]
      /\ \A m \in Nodes :
           /\ nod'[m].status = nod[m].status /\ nod'[m].mem = nod[m].mem
           /\ nod'[m].exitflg = nod[m].exitflg /\ nod'[m].head = nod[m].head
           /\ nod'[m].freeflag <=> nod[m].freeflag \/ m = rpc[s].cbdev
  BY <1>a, FlagSet DEF RpcFlag, CbInv, BasicInv, Attached
<1>d. rpc' \in [Subs -> Connection] /\ rpc' = [rpc EXCEPT ![s].pc = "notify"]
  <2>1. [rpc[s] EXCEPT !.pc = "notify"] \in Connection
    BY <1>a, RpcWith DEF Pcs
  <2>2. QED
    BY <1>a, <2>1 DEF RpcFlag
<1>e. plug \notin {"in", "out"}
  BY <1>a DEF CbInv, BasicInv, CbLinks
<1>1. BasicInv'
  BY RpcFlagKept DEF CbInv
<1>4. AnnouncedInv' /\ NewInv' /\ WorkInv' /\ CountInv' /\ SubsInv'
  BY <1>e, <1>b DEF AnnouncedInv, NewInv, WorkInv, CountInv, SubsInv
<1>5. RecvInv'
  BY <1>b, <1>c, <1>e DEF CbInv, BasicInv, CbKinds, RecvInv, Status
<1>6. QED
  BY <1>1, <1>4, <1>5 DEF CbInv

\* Waking the send thread up keeps CbInv.
LEMMA RpcNotifyKeeps == ASSUME OneAsks, CbInv, NEW s \in Subs, RpcNotify(s)
  PROVE CbInv'
<1>1. BasicInv'
  BY RpcNotifyKept DEF CbInv
<1>2. plug \notin {"in", "out"}
  BY DEF RpcNotify, CbInv, BasicInv, CbLinks
<1>3. UNCHANGED <<nod, rcv, plug>>
  BY DEF RpcNotify, plugVars
<1>4. AnnouncedInv' /\ NewInv' /\ WorkInv' /\ CountInv' /\ SubsInv'
  BY <1>2, <1>3 DEF AnnouncedInv, NewInv, WorkInv, CountInv, SubsInv
<1>5. RecvInv'
  BY <1>2, <1>3 DEF CbInv, RecvInv, Status
<1>6. QED
  BY <1>1, <1>4, <1>5 DEF CbInv

\* The scan of the send thread keeps CbInv.
LEMMA ScanKeeps == ASSUME OneAsks, CbInv, Scan
  PROVE CbInv'
<1>1. BasicInv'
  BY ScanKept DEF CbInv
<1>2. CbKinds' /\ CbLinks'
  BY <1>1 DEF BasicInv
<1>4. AnnouncedInv'
  BY CbWork, SetupFacts DEF OneAsks, CbInv, BasicInv, Scan, ToWork, Status, CbKinds, CbLinks,
      AnnouncedInv, WorkInv, RecvInv, Connection, Node, Attached, Live, wire, plugVars
<1>5. NewInv'
  <2>1. SUFFICES ASSUME plug = "in" /\ ~ setup.base
                 PROVE  NewInv'
    BY DEF NewInv, Scan, plugVars
  <2>2. NewInv /\ WorkInv /\ CbKinds
    BY DEF CbInv, BasicInv
  <2>3. PICK i \in DOMAIN work_list :
          /\ ToWork(work_list[i])
          /\ work_list' = IF nod[work_list[i]].freeflag THEN RemoveAt(work_list, i) ELSE work_list
    BY DEF Scan
  <2>4. PICK n \in Nodes : work_list = <<n>>
    BY <2>2, <2>3, CbWork DEF CbKinds
  <2>5. i = 1 /\ work_list[i] = n
    BY <2>3, <2>4, CbWork
  <2>6. nod[n].freeflag \/ Status(n) = "need_send_cmd"
    BY <2>3, <2>5 DEF ToWork, Status
  <2>7. ~ Quiet
    BY <2>1, <2>2, <2>6 DEF NewInv
  <2>8. \E s \in Subs : rpc[s].pc \notin Early
    BY <2>7 DEF Quiet
  <2>9. \A s \in Subs : rpc[s].pc \notin Early \ {"none"}
    BY <2>1, <2>2, <2>8 DEF CbKinds, CbLinks, CbInv, BasicInv, OneAsks, Early
  <2>11. work_list' = work_list \/ work_list' = <<>>
    BY <2>3, <2>4, <2>5, CbWork
  <2>10. QED
    BY <2>11, CbWork, <2>2, <2>7, <2>8, <2>9 DEF NewInv, Quiet, Early, Scan, plugVars, wire,
        Status
<1>6. WorkInv'
  BY CbWork, SetupFacts DEF OneAsks, CbInv, BasicInv, Scan, ToWork, Status, CbKinds, CbLinks,
      AnnouncedInv, NewInv, WorkInv, RecvInv, Connection, Node, Attached, Live, wire, plugVars
<1>7. CountInv'
  BY CbWork, SetupFacts DEF OneAsks, CbInv, BasicInv, Scan, ToWork, Status, AwaitsReply,
      RepliesOut, Replies, Subscribed, CbKinds, CbLinks, NewInv, WorkInv, RecvInv, CountInv,
      Connection, Node, Attached, Live, wire, plugVars
<1>8. RecvInv'
  BY CbWork, SetupFacts DEF OneAsks, CbInv, BasicInv, Scan, ToWork, Status, CbKinds, CbLinks,
      NewInv, WorkInv, CountInv, RecvInv, Connection, Node, Attached, Live, wire, plugVars
<1>9. SubsInv'
  BY CbWork, SetupFacts DEF OneAsks, CbInv, BasicInv, Scan, ToWork, Status, CbKinds, CbLinks,
      AnnouncedInv, NewInv, WorkInv, RecvInv, SubsInv, Connection, Node, Attached, Live, wire,
      plugVars
<1>10. QED
  BY <1>1, <1>4, <1>5, <1>6, <1>7, <1>8, <1>9 DEF CbInv

\* The second look of the send thread keeps CbInv.
LEMMA RecheckKeeps == ASSUME OneAsks, CbInv, Recheck
  PROVE CbInv'
<1>1. BasicInv'
  BY RecheckKept DEF CbInv
<1>2. CbKinds' /\ CbLinks'
  BY <1>1 DEF BasicInv
<1>4. AnnouncedInv'
  BY CbWork, SetupFacts DEF OneAsks, CbInv, BasicInv, Recheck, Status, CbKinds, CbLinks,
      AnnouncedInv, WorkInv, RecvInv, Connection, Node, Attached, Live, wire, plugVars
<1>5. NewInv'
  BY CbWork, SetupFacts DEF OneAsks, CbInv, BasicInv, Recheck, Early, Quiet, Status, CbKinds,
      CbLinks, NewInv, WorkInv, RecvInv, Connection, Node, Attached, Live, wire, plugVars
<1>6. WorkInv'
  BY CbWork, SetupFacts DEF OneAsks, CbInv, BasicInv, Recheck, Status, CbKinds, CbLinks,
      AnnouncedInv, NewInv, WorkInv, RecvInv, Connection, Node, Attached, Live, wire, plugVars
<1>7. CountInv'
  BY CbWork, SetupFacts DEF OneAsks, CbInv, BasicInv, Recheck, Status, AwaitsReply, RepliesOut,
      Replies, Subscribed, CbKinds, CbLinks, NewInv, WorkInv, RecvInv, CountInv, Connection,
      Node, Attached, Live, wire, plugVars
<1>8. RecvInv'
  BY CbWork, SetupFacts DEF OneAsks, CbInv, BasicInv, Recheck, Status, CbKinds, CbLinks, NewInv,
      WorkInv, CountInv, RecvInv, Connection, Node, Attached, Live, wire, plugVars
<1>9. SubsInv'
  BY CbWork, SetupFacts DEF OneAsks, CbInv, BasicInv, Recheck, Status, CbKinds, CbLinks,
      AnnouncedInv, NewInv, WorkInv, RecvInv, SubsInv, Connection, Node, Attached, Live, wire,
      plugVars
<1>10. QED
  BY <1>1, <1>4, <1>5, <1>6, <1>7, <1>8, <1>9 DEF CbInv

\* The command to the device keeps CbInv.
LEMMA PackMakeKeeps == ASSUME OneAsks, CbInv, PackMake
  PROVE CbInv'
<1>a. snd.pc = "make" /\ ~ setup.offline /\ snd' = [pc |-> "scan", node |-> NoNode]
  BY DEF PackMake, SendDone
<1>b. UNCHANGED <<app, rpc, work_list, rcv, fromDev, events, plug, cls_head, setup>>
  BY DEF PackMake, wire, plugVars
<1>1. BasicInv'
  BY PackMakeKept DEF CbInv
<1>2. CbKinds' /\ CbLinks'
  BY <1>1 DEF BasicInv
<1>4. AnnouncedInv'
  BY CbWork, SetupFacts, PackEffect, <1>a, <1>b DEF OneAsks, CbInv, BasicInv, Status, CbKinds,
      CbLinks, AnnouncedInv, WorkInv, RecvInv, Connection, Node, Attached, Live, wire, plugVars,
      Same, SameConn, SameMark, SameNode
<1>5. NewInv'
  BY CbWork, SetupFacts, PackEffect, <1>a, <1>b DEF OneAsks, CbInv, BasicInv, Early, Quiet,
      Status, CbKinds, CbLinks, NewInv, WorkInv, RecvInv, Connection, Node, Attached, Live,
      wire, plugVars, Same, SameConn, SameMark, SameNode
<1>6. WorkInv'
  <2>1. WorkInv /\ CbKinds /\ CbLinks
    BY DEF CbInv, BasicInv
  <2>2. CASE nod' = nod /\ toDev' = toDev
    BY <1>a, <1>b, <2>1, <2>2 DEF WorkInv, Status
  <2>3. CASE /\ nod[snd.node].status = "need_send_cmd"
             /\ snd.node \in Nodes
             /\ \A m \in Nodes : /\ SameNode(m)
                                 /\ nod'[m].status = IF m = snd.node THEN "wait_usb_cmd" ELSE nod[m].status
    <3>1. SUFFICES ASSUME plug = "in"
                   PROVE  WorkInv'
      BY <1>b DEF WorkInv
    <3>2. work_list = <<snd.node>> /\ \A m \in Nodes : m # snd.node => Status(m) = "not_init"
      BY <2>1, <2>3, <3>1, CbWork DEF WorkInv, Status
    <3>3. \A m \in Nodes : ~ nod[m].freeflag
      <4>1. ~ nod[snd.node].freeflag
        BY <2>1, <2>3, <3>1 DEF WorkInv, Status
      <4>2. QED
        BY <1>a, <2>3, <3>1, <3>2, <4>1, SetupFacts DEF CbInv, BasicInv, CbKinds, NewInv,
            AnnouncedInv, OneAsks
    <3>4. QED
      BY <1>a, <1>b, <2>1, <2>3, <3>1, <3>2, <3>3 DEF WorkInv, Status, SameNode
  <2>4. QED
    BY <2>2, <2>3, PackEffect DEF CbInv, BasicInv
<1>7. CountInv'
  <2>o. /\ RepliesOut = Len(toDev) + Cardinality(Replies(fromDev))
                        + (IF rcv.pc = "proc" /\ rcv.pack # "event" THEN 1 ELSE 0)
        /\ RepliesOut' = Len(toDev') + Cardinality(Replies(fromDev'))
                        + (IF rcv'.pc = "proc" /\ rcv'.pack # "event" THEN 1 ELSE 0)
    BY DEF RepliesOut, Replies
  <2>t. /\ toDev \in Seq({"sub"}) /\ fromDev \in Seq({"ok", "fail", "event"})
        /\ toDev' \in Seq({"sub"}) /\ fromDev' \in Seq({"ok", "fail", "event"})
        /\ Len(toDev) \in Nat /\ Len(toDev') \in Nat
    BY <1>2 DEF CbInv, BasicInv, CbKinds
  <2>r. /\ Cardinality(Replies(fromDev)) \in Nat /\ Cardinality(Replies(fromDev')) \in Nat
        /\ Cardinality(Replies(fromDev)) = 0 <=> \A k \in DOMAIN fromDev : fromDev[k] = "event"
    BY <2>t, RepliesFacts
  <2>s. SUFFICES ASSUME plug' = "in"
                 PROVE  /\ RepliesOut' = IF AwaitsReply' THEN 1 ELSE 0
                        /\ (\E k \in DOMAIN fromDev' : fromDev'[k] = "event") => Subscribed'
    BY DEF CountInv
  <2>1. plug = "in" /\ CountInv /\ \A m \in Nodes : Status(m) # "not_init" => work_list = <<m>>
    BY <1>a, <1>b, <2>s DEF CbInv, BasicInv, WorkInv
  <2>2. CASE nod' = nod /\ toDev' = toDev
    BY <1>a, <1>b, <2>1, <2>2, <2>o DEF CountInv, AwaitsReply, Status, Subscribed
  <2>3. CASE /\ nod[snd.node].status = "need_send_cmd"
             /\ toDev' = (IF plug = "in" THEN Append(toDev, "sub") ELSE toDev)
             /\ snd.node \in Nodes
             /\ \A m \in Nodes : nod'[m].status = IF m = snd.node THEN "wait_usb_cmd" ELSE nod[m].status
    <3>1. \A m \in Nodes : m # snd.node => Status(m) = "not_init"
      BY <2>1, <2>3, CbWork DEF Status
    <3>2. ~ AwaitsReply /\ ~ Subscribed
      BY <2>3, <3>1 DEF AwaitsReply, Subscribed, Status
    <3>3. AwaitsReply'
      BY <2>3 DEF AwaitsReply, Status
    <3>4. RepliesOut = 0 /\ ~ \E k \in DOMAIN fromDev : fromDev[k] = "event"
      BY <2>1, <3>2 DEF CountInv
    <3>5. Len(toDev') = Len(toDev) + 1
      BY <2>1, <2>3, <2>t
    <3>6. RepliesOut' = RepliesOut + 1
      BY <1>b, <2>o, <2>t, <2>r, <3>5
    <3>7. QED
      BY <1>b, <3>3, <3>4, <3>6
  <2>4. QED
    BY <2>2, <2>3, PackEffect DEF CbInv, BasicInv
<1>8. RecvInv'
  BY CbWork, SetupFacts, PackEffect, <1>a, <1>b DEF OneAsks, CbInv, BasicInv, Status, CbKinds,
      CbLinks, NewInv, WorkInv, CountInv, RecvInv, Connection, Node, Attached, Live, wire,
      plugVars, Same, SameConn, SameMark, SameNode
<1>9. SubsInv'
  <2>1. SubsInv /\ CbKinds /\ CbLinks
    BY DEF CbInv, BasicInv
  <2>2. \A m \in Nodes : /\ nod'[m].head = nod[m].head
                         /\ Status(m) = "wait_usb_data" => nod'[m].status = "wait_usb_data"
    BY <2>1, PackEffect DEF Status, SameNode
  <2>3. \A t \in Subs : rpc[t].pc = "reply" => rpc[t].cbdev \in Nodes
    BY <2>1 DEF CbLinks
  <2>4. snd.pc = "make"
    BY DEF PackMake
  <2>5. QED
    BY <1>b, <2>1, <2>2, <2>3, <2>4 DEF SubsInv, Status
<1>10. QED
  BY <1>1, <1>4, <1>5, <1>6, <1>7, <1>8, <1>9 DEF CbInv

\* Subscribing BB_EVENT_OFFLINE keeps CbInv.
LEMMA PackMakeOfflineKeeps == ASSUME OneAsks, CbInv, PackMakeOffline
  PROVE CbInv'
<1>a. snd.node \in Nodes /\ snd.pc = "make" /\ setup.offline /\ snd' = [snd EXCEPT !.pc = "tell"]
  BY DEF PackMakeOffline, CbInv, BasicInv, CbKinds
<1>b. nod' = [nod EXCEPT ![snd.node].status = "wait_usb_data"] /\ "wait_usb_data" \in Statuses
  BY DEF PackMakeOffline, Statuses
<1>c. /\ nod' \in [Nodes -> Node]
      /\ \A m \in Nodes : /\ SameNode(m)
                          /\ nod'[m].status = IF m = snd.node THEN "wait_usb_data" ELSE nod[m].status
  <2>1. CbKinds
    BY DEF CbInv, BasicInv
  <2>2. QED
    BY <1>a, <1>b, <2>1, StatusSet DEF Statuses
<1>d. UNCHANGED <<app, rpc, work_list, rcv, toDev, fromDev, events, plug, cls_head, setup>>
  BY DEF PackMakeOffline, wire, plugVars
<1>1. BasicInv'
  BY PackMakeOfflineKept DEF CbInv
<1>2. CbKinds' /\ CbLinks'
  BY <1>1 DEF BasicInv
<1>4. AnnouncedInv'
  BY CbWork, SetupFacts, <1>a, <1>c, <1>d DEF OneAsks, CbInv, BasicInv, Status, CbKinds,
      CbLinks, AnnouncedInv, WorkInv, RecvInv, Connection, Node, Attached, Live, wire, plugVars,
      Same, SameConn, SameMark, SameNode
<1>5. NewInv'
  BY CbWork, SetupFacts, <1>a, <1>c, <1>d DEF OneAsks, CbInv, BasicInv, Early, Quiet, Status,
      CbKinds, CbLinks, NewInv, WorkInv, RecvInv, Connection, Node, Attached, Live, wire,
      plugVars, Same, SameConn, SameMark, SameNode
<1>6. WorkInv'
  BY CbWork, SetupFacts, <1>a, <1>c, <1>d DEF OneAsks, CbInv, BasicInv, Status, CbKinds,
      CbLinks, AnnouncedInv, NewInv, WorkInv, RecvInv, Connection, Node, Attached, Live, wire,
      plugVars, Same, SameConn, SameMark, SameNode
<1>7. CountInv'
  <2>o. /\ RepliesOut = Len(toDev) + Cardinality(Replies(fromDev))
                        + (IF rcv.pc = "proc" /\ rcv.pack # "event" THEN 1 ELSE 0)
        /\ RepliesOut' = Len(toDev') + Cardinality(Replies(fromDev'))
                        + (IF rcv'.pc = "proc" /\ rcv'.pack # "event" THEN 1 ELSE 0)
    BY DEF RepliesOut, Replies
  <2>t. /\ toDev \in Seq({"sub"}) /\ fromDev \in Seq({"ok", "fail", "event"})
        /\ toDev' \in Seq({"sub"}) /\ fromDev' \in Seq({"ok", "fail", "event"})
        /\ Len(toDev) \in Nat /\ Len(toDev') \in Nat
    BY <1>2 DEF CbInv, BasicInv, CbKinds
  <2>r. /\ Cardinality(Replies(fromDev)) \in Nat /\ Cardinality(Replies(fromDev')) \in Nat
        /\ Cardinality(Replies(fromDev)) = 0 <=> \A k \in DOMAIN fromDev : fromDev[k] = "event"
    BY <2>t, RepliesFacts
  <2>s. SUFFICES ASSUME plug' = "in"
                 PROVE  /\ RepliesOut' = IF AwaitsReply' THEN 1 ELSE 0
                        /\ (\E k \in DOMAIN fromDev' : fromDev'[k] = "event") => Subscribed'
    BY DEF CountInv
  <2>1. plug = "in" /\ CountInv /\ \A m \in Nodes : Status(m) # "not_init" => work_list = <<m>>
    BY <1>d, <2>s DEF CbInv, BasicInv, WorkInv
  <2>2. toDev' = <<>> /\ fromDev' = <<>> /\ rcv'.pc = "idle" /\ work_list = <<snd.node>>
    BY <1>a, <1>d DEF CbInv, BasicInv, CbLinks
  <2>3. \A m \in Nodes : m # snd.node => Status(m) = "not_init"
    BY <2>1, <2>2, CbWork
  <2>4. ~ AwaitsReply'
    BY <1>a, <1>c, <2>3 DEF AwaitsReply, Status
  <2>5. Cardinality(Replies(fromDev')) = 0 /\ Len(toDev') = 0 /\ DOMAIN fromDev' = {}
    BY <2>2, <2>t, RepliesFacts, CbWork
  <2>6. QED
    BY <2>2, <2>4, <2>5, <2>o
<1>8. RecvInv'
  BY CbWork, SetupFacts, <1>a, <1>c, <1>d DEF OneAsks, CbInv, BasicInv, Status, CbKinds,
      CbLinks, NewInv, WorkInv, CountInv, RecvInv, Connection, Node, Attached, Live, wire,
      plugVars, Same, SameConn, SameMark, SameNode
<1>9. SubsInv'
  BY CbWork, SetupFacts, <1>a, <1>c, <1>d DEF OneAsks, CbInv, BasicInv, Status, CbKinds,
      CbLinks, AnnouncedInv, NewInv, WorkInv, RecvInv, SubsInv, Connection, Node, Attached,
      Live, wire, plugVars, Same, SameConn, SameMark, SameNode
<1>10. QED
  BY <1>1, <1>4, <1>5, <1>6, <1>7, <1>8, <1>9 DEF CbInv

\* Telling the subscribers of BB_EVENT_OFFLINE keeps CbInv.
LEMMA OfflineTellKeeps == ASSUME OneAsks, CbInv, OfflineTell
  PROVE CbInv'
<1>1. BasicInv'
  BY OfflineTellKept DEF CbInv
<1>2. CbKinds' /\ CbLinks'
  BY <1>1 DEF BasicInv
<1>4. AnnouncedInv'
  BY CbWork, SetupFacts DEF OneAsks, CbInv, BasicInv, OfflineTell, Told, Hears, Unmarked,
      Status, CbKinds, CbLinks, AnnouncedInv, WorkInv, RecvInv, Connection, Node, Attached,
      Live, wire, plugVars
<1>5. NewInv'
  BY CbWork, SetupFacts DEF OneAsks, CbInv, BasicInv, OfflineTell, Told, Hears, Unmarked, Early,
      Quiet, Status, CbKinds, CbLinks, NewInv, WorkInv, RecvInv, Connection, Node, Attached,
      Live, wire, plugVars
<1>6. WorkInv'
  BY CbWork, SetupFacts DEF OneAsks, CbInv, BasicInv, OfflineTell, Told, Hears, Unmarked,
      Status, CbKinds, CbLinks, AnnouncedInv, NewInv, WorkInv, RecvInv, Connection, Node,
      Attached, Live, wire, plugVars
<1>7. CountInv'
  BY CbWork, SetupFacts DEF OneAsks, CbInv, BasicInv, OfflineTell, Told, Hears, Unmarked,
      Status, AwaitsReply, RepliesOut, Replies, Subscribed, CbKinds, CbLinks, NewInv, WorkInv,
      RecvInv, CountInv, Connection, Node, Attached, Live, wire, plugVars
<1>8. RecvInv'
  BY CbWork, SetupFacts DEF OneAsks, CbInv, BasicInv, OfflineTell, Told, Hears, Unmarked,
      Status, CbKinds, CbLinks, NewInv, WorkInv, CountInv, RecvInv, Connection, Node, Attached,
      Live, wire, plugVars
<1>9. SubsInv'
  BY CbWork, SetupFacts DEF OneAsks, CbInv, BasicInv, OfflineTell, Told, Hears, Unmarked,
      Status, CbKinds, CbLinks, AnnouncedInv, NewInv, WorkInv, RecvInv, SubsInv, Connection,
      Node, Attached, Live, wire, plugVars
<1>10. QED
  BY <1>1, <1>4, <1>5, <1>6, <1>7, <1>8, <1>9 DEF CbInv

\* Marking the subscribers of BB_EVENT_OFFLINE keeps CbInv.
LEMMA OfflineMarkKeeps == ASSUME OneAsks, CbInv, OfflineMark
  PROVE CbInv'
<1>a. MarkAll(snd.node) /\ snd.pc = "mark" /\ snd' = [pc |-> "scan", node |-> NoNode] /\ snd.node \in Nodes
  BY DEF OfflineMark, SendDone, CbInv, BasicInv, CbKinds
<1>b. UNCHANGED <<app, nod, work_list, rcv, toDev, fromDev, events, plug, cls_head, setup>>
  BY DEF OfflineMark, wire, plugVars
<1>1. BasicInv'
  BY OfflineMarkKept DEF CbInv
<1>2. CbKinds' /\ CbLinks'
  BY <1>1 DEF BasicInv
<1>4. AnnouncedInv'
  BY CbWork, SetupFacts, MarkEffect, <1>a, <1>b DEF OneAsks, CbInv, BasicInv, Status, CbKinds,
      CbLinks, AnnouncedInv, WorkInv, RecvInv, Connection, Node, Attached, Live, wire, plugVars,
      Same, SameConn, SameMark, SameNode
<1>5. NewInv'
  BY CbWork, SetupFacts, MarkEffect, <1>a, <1>b DEF OneAsks, CbInv, BasicInv, Early, Quiet,
      Status, CbKinds, CbLinks, NewInv, WorkInv, RecvInv, Connection, Node, Attached, Live,
      wire, plugVars, Same, SameConn, SameMark, SameNode
<1>6. WorkInv'
  BY CbWork, SetupFacts, MarkEffect, <1>a, <1>b DEF OneAsks, CbInv, BasicInv, Status, CbKinds,
      CbLinks, AnnouncedInv, NewInv, WorkInv, RecvInv, Connection, Node, Attached, Live, wire,
      plugVars, Same, SameConn, SameMark, SameNode
<1>7. CountInv'
  BY CbWork, SetupFacts, MarkEffect, <1>a, <1>b DEF OneAsks, CbInv, BasicInv, Status,
      AwaitsReply, RepliesOut, Replies, Subscribed, CbKinds, CbLinks, NewInv, WorkInv, RecvInv,
      CountInv, Connection, Node, Attached, Live, wire, plugVars, Same, SameConn, SameMark,
      SameNode
<1>8. RecvInv'
  BY CbWork, SetupFacts, MarkEffect, <1>a, <1>b DEF OneAsks, CbInv, BasicInv, Status, CbKinds,
      CbLinks, NewInv, WorkInv, CountInv, RecvInv, Connection, Node, Attached, Live, wire,
      plugVars, Same, SameConn, SameMark, SameNode
<1>9. SubsInv'
  <2>1. SUFFICES ASSUME plug = "in"
                 PROVE  SubsInv'
    BY <1>b DEF SubsInv
  <2>2. SubsInv /\ WorkInv /\ CbLinks /\ work_list = <<snd.node>>
    BY <1>a DEF CbInv, BasicInv, CbLinks
  <2>3. \A m \in Nodes : Status(m) = "wait_usb_data" => m = snd.node
    BY <2>1, <2>2, CbWork DEF WorkInv
  <2>4. \A t \in Subs : /\ Same(t) /\ SameConn(t)
                        /\ rpc[t].initflag => rpc'[t].initflag
                        /\ t \in nod[snd.node].head => rpc'[t].initflag
    BY <1>a, MarkEffect DEF CbInv, BasicInv
  <2>6. ASSUME NEW t \in Subs, app[t] = "subscribed"
        PROVE  /\ rpc'[t].conn /\ rpc'[t].initflag
               /\ \E m \in Nodes : t \in nod[m].head /\ Status(m) = "wait_usb_data"
    <3>1. PICK m \in Nodes : t \in nod[m].head /\ Status(m) = "wait_usb_data"
      BY <2>1, <2>2, <2>6 DEF SubsInv
    <3>2. rpc[t].conn /\ rpc'[t].conn = rpc[t].conn
      BY <2>1, <2>2, <2>4, <2>6 DEF SubsInv, SameConn
    <3>3. m = snd.node
      BY <2>3, <3>1
    <3>4. rpc'[t].initflag
      BY <2>4, <3>1, <3>3
    <3>5. QED
      BY <3>1, <3>2, <3>4
  <2>7. ASSUME NEW t \in Subs, rpc'[t].pc = "reply"
        PROVE  rpc'[t].initflag /\ Status(rpc'[t].cbdev) = "wait_usb_data"
    <3>1. rpc[t].pc = "reply" /\ rpc'[t].cbdev = rpc[t].cbdev
      BY <2>4, <2>7 DEF Same
    <3>2. rpc[t].initflag /\ Status(rpc[t].cbdev) = "wait_usb_data"
      BY <2>1, <2>2, <3>1 DEF SubsInv
    <3>3. rpc'[t].initflag
      BY <2>4, <3>2
    <3>4. Status(rpc'[t].cbdev) = Status(rpc[t].cbdev)
      BY <3>1
    <3>5. QED
      BY <3>2, <3>3, <3>4
  <2>5. QED
    BY <1>b, <2>6, <2>7 DEF SubsInv, Status
<1>10. QED
  BY <1>1, <1>4, <1>5, <1>6, <1>7, <1>8, <1>9 DEF CbInv

\* Freeing a node keeps CbInv.
LEMMA DeinitKeeps == ASSUME OneAsks, CbInv, Deinit
  PROVE CbInv'
<1>1. BasicInv'
  BY DeinitKept DEF CbInv
<1>2. CbKinds' /\ CbLinks'
  BY <1>1 DEF BasicInv
<1>4. AnnouncedInv'
  BY CbWork, SetupFacts DEF OneAsks, CbInv, BasicInv, Deinit, SendDone, Status, CbKinds,
      CbLinks, AnnouncedInv, WorkInv, RecvInv, Connection, Node, Attached, Live, wire, plugVars
<1>5. NewInv'
  BY CbWork, SetupFacts DEF OneAsks, CbInv, BasicInv, Deinit, SendDone, Early, Quiet, Status,
      CbKinds, CbLinks, NewInv, WorkInv, RecvInv, Connection, Node, Attached, Live, wire,
      plugVars
<1>6. WorkInv'
  BY CbWork, SetupFacts DEF OneAsks, CbInv, BasicInv, Deinit, SendDone, Status, CbKinds,
      CbLinks, AnnouncedInv, NewInv, WorkInv, RecvInv, Connection, Node, Attached, Live, wire,
      plugVars
<1>7. CountInv'
  BY CbWork, SetupFacts DEF OneAsks, CbInv, BasicInv, Deinit, SendDone, Status, AwaitsReply,
      RepliesOut, Replies, Subscribed, CbKinds, CbLinks, NewInv, WorkInv, RecvInv, CountInv,
      Connection, Node, Attached, Live, wire, plugVars
<1>8. RecvInv'
  BY CbWork, SetupFacts DEF OneAsks, CbInv, BasicInv, Deinit, SendDone, Status, CbKinds,
      CbLinks, NewInv, WorkInv, CountInv, RecvInv, Connection, Node, Attached, Live, wire,
      plugVars
<1>9. SubsInv'
  BY CbWork, SetupFacts DEF OneAsks, CbInv, BasicInv, Deinit, SendDone, Status, CbKinds,
      CbLinks, AnnouncedInv, NewInv, WorkInv, RecvInv, SubsInv, Connection, Node, Attached,
      Live, wire, plugVars
<1>10. QED
  BY <1>1, <1>4, <1>5, <1>6, <1>7, <1>8, <1>9 DEF CbInv

\* Taking a frame of the device keeps CbInv.
LEMMA RecvFindKeeps == ASSUME OneAsks, CbInv, RecvFind
  PROVE CbInv'
<1>1. BasicInv'
  BY RecvFindKept DEF CbInv
<1>2. CbKinds' /\ CbLinks'
  BY <1>1 DEF BasicInv
<1>4. AnnouncedInv'
  BY CbWork, SetupFacts DEF OneAsks, CbInv, BasicInv, RecvFind, Status, CbKinds, CbLinks,
      AnnouncedInv, WorkInv, RecvInv, Connection, Node, Attached, Live, wire, plugVars
<1>5. NewInv'
  BY CbWork, SetupFacts DEF OneAsks, CbInv, BasicInv, RecvFind, Early, Quiet, Status, CbKinds,
      CbLinks, NewInv, WorkInv, RecvInv, Connection, Node, Attached, Live, wire, plugVars
<1>6. WorkInv'
  BY CbWork, SetupFacts DEF OneAsks, CbInv, BasicInv, RecvFind, Status, CbKinds, CbLinks,
      AnnouncedInv, NewInv, WorkInv, RecvInv, Connection, Node, Attached, Live, wire, plugVars
<1>7. CountInv'
  <2>o. /\ RepliesOut = Len(toDev) + Cardinality(Replies(fromDev))
                        + (IF rcv.pc = "proc" /\ rcv.pack # "event" THEN 1 ELSE 0)
        /\ RepliesOut' = Len(toDev') + Cardinality(Replies(fromDev'))
                        + (IF rcv'.pc = "proc" /\ rcv'.pack # "event" THEN 1 ELSE 0)
    BY DEF RepliesOut, Replies
  <2>t. /\ toDev \in Seq({"sub"}) /\ fromDev \in Seq({"ok", "fail", "event"})
        /\ toDev' \in Seq({"sub"}) /\ fromDev' \in Seq({"ok", "fail", "event"})
        /\ Len(toDev) \in Nat /\ Len(toDev') \in Nat
    BY <1>2 DEF CbInv, BasicInv, CbKinds
  <2>r. /\ Cardinality(Replies(fromDev)) \in Nat /\ Cardinality(Replies(fromDev')) \in Nat
        /\ Cardinality(Replies(fromDev)) = 0 <=> \A k \in DOMAIN fromDev : fromDev[k] = "event"
    BY <2>t, RepliesFacts
  <2>s. SUFFICES ASSUME plug' = "in"
                 PROVE  /\ RepliesOut' = IF AwaitsReply' THEN 1 ELSE 0
                        /\ (\E k \in DOMAIN fromDev' : fromDev'[k] = "event") => Subscribed'
    BY DEF CountInv
  <2>1. /\ plug = "in" /\ CountInv /\ \A m \in Nodes : Status(m) # "not_init" => work_list = <<m>>
        /\ rcv.pc = "idle" /\ fromDev # <<>> /\ fromDev' = Tail(fromDev)
        /\ UNCHANGED <<nod, toDev>>
    BY <2>s DEF RecvFind, CbInv, BasicInv, WorkInv, plugVars
  <2>2. AwaitsReply' = AwaitsReply /\ Subscribed' = Subscribed
    BY <2>1 DEF AwaitsReply, Subscribed, Status
  <2>3. 1 \in DOMAIN fromDev /\ fromDev[1] = Head(fromDev)
    BY <2>1, <2>t
  <2>4. work_list # <<>>
    <3>1. CASE Head(fromDev) = "event"
      BY <2>1, <2>3, <3>1, CbWork DEF CountInv, Subscribed, Status
    <3>2. CASE Head(fromDev) # "event"
      <4>1. Cardinality(Replies(fromDev)) # 0
        BY <2>3, <2>r, <3>2
      <4>2. RepliesOut # 0
        BY <2>o, <2>r, <2>t, <4>1
      <4>3. AwaitsReply
        BY <2>1, <4>2 DEF CountInv
      <4>4. QED
        BY <2>1, <4>3, CbWork DEF AwaitsReply
    <3>3. QED
      BY <3>1, <3>2
  <2>5. rcv'.pc = "proc" /\ rcv'.pack = Head(fromDev)
    BY <2>4 DEF RecvFind
  <2>6. Cardinality(Replies(fromDev)) = Cardinality(Replies(fromDev')) + (IF Head(fromDev) = "event" THEN 0 ELSE 1)
    BY <2>1, <2>t, RepliesTail
  <2>7. RepliesOut' = RepliesOut
    BY <2>1, <2>5, <2>6, <2>o, <2>r, <2>t
  <2>8. ASSUME NEW k \in DOMAIN fromDev', fromDev'[k] = "event"
        PROVE  Subscribed
    <3>1. k + 1 \in DOMAIN fromDev /\ fromDev[k + 1] = "event"
      BY <2>1, <2>8, <2>t
    <3>2. QED
      BY <2>1, <3>1 DEF CountInv
  <2>9. QED
    BY <2>1, <2>2, <2>7, <2>8 DEF CountInv
<1>8. RecvInv'
  <2>1. fromDev # <<>> /\ fromDev' = Tail(fromDev) /\ rcv.pc = "idle" /\ plug = "in"
    BY DEF RecvFind, CbInv, BasicInv, CbLinks, CbKinds
  <2>2. CASE rcv' = rcv
    BY <2>1, <2>2 DEF RecvFind, RecvInv, Status, plugVars
  <2>3. CASE work_list # <<>> /\ rcv' = [pc |-> "proc", node |-> Head(work_list), pack |-> Head(fromDev)]
    <3>1. PICK n \in Nodes : work_list = <<n>> /\ Head(work_list) = n
      BY <2>3, CbWork DEF CbInv, BasicInv, CbKinds
    <3>2. \A m \in Nodes : Status(m) # "not_init" => m = n
      BY <2>1, <3>1, CbWork DEF CbInv, BasicInv, WorkInv
    <3>3. fromDev \in Seq({"ok", "fail", "event"}) /\ toDev \in Seq({"sub"})
      BY DEF CbInv, BasicInv, CbKinds
    <3>4. 1 \in DOMAIN fromDev /\ fromDev[1] = Head(fromDev)
      BY <2>1, <3>3
    <3>5. CASE Head(fromDev) = "event"
      <4>1. Subscribed
        BY <2>1, <3>4, <3>5 DEF CbInv, BasicInv, CountInv
      <4>2. Status(n) = "wait_usb_data"
        BY <3>2, <4>1 DEF Subscribed, Status
      <4>3. QED
        BY <2>3, <3>1, <3>5, <4>2 DEF RecvFind, RecvInv, Status, plugVars
    <3>6. CASE Head(fromDev) # "event"
      <4>1. /\ Cardinality(Replies(fromDev)) \in Nat
            /\ Cardinality(Replies(fromDev)) = 0 <=> \A k \in DOMAIN fromDev : fromDev[k] = "event"
        BY <3>3, RepliesFacts
      <4>2. RepliesOut = Len(toDev) + Cardinality(Replies(fromDev))
        BY <2>1, <3>3, <4>1 DEF RepliesOut, Replies
      <4>3. RepliesOut # 0
        BY <3>3, <3>4, <3>6, <4>1, <4>2
      <4>4. AwaitsReply
        BY <2>1, <4>3 DEF CbInv, BasicInv, CountInv
      <4>5. Status(n) = "wait_usb_cmd"
        BY <3>2, <4>4 DEF AwaitsReply
      <4>6. QED
        BY <2>3, <3>1, <3>6, <4>5 DEF RecvFind, RecvInv, Status, plugVars
    <3>7. QED
      BY <3>5, <3>6
  <2>4. QED
    BY <2>2, <2>3 DEF RecvFind
<1>9. SubsInv'
  BY CbWork, SetupFacts DEF OneAsks, CbInv, BasicInv, RecvFind, Status, CbKinds, CbLinks,
      AnnouncedInv, NewInv, WorkInv, RecvInv, SubsInv, Connection, Node, Attached, Live, wire,
      plugVars
<1>10. QED
  BY <1>1, <1>4, <1>5, <1>6, <1>7, <1>8, <1>9 DEF CbInv

\* Taking a reply keeps CbInv.
LEMMA RecvReplyKeeps == ASSUME OneAsks, CbInv, RecvReply
  PROVE CbInv'
<1>a. rcv.node \in Nodes /\ rcv.pc = "proc" /\ nod[rcv.node].status = "wait_usb_cmd"
  BY DEF RecvReply, CbInv, BasicInv, CbKinds
<1>b. PICK st \in Statuses :
        /\ nod' = [nod EXCEPT ![rcv.node].status = st]
        /\ \/ rcv.pack # "fail" /\ st = "wait_usb_data" /\ rcv' = [rcv EXCEPT !.pc = "ok"]
           \/ rcv.pack = "fail" /\ st = "not_init" /\ rcv' = [rcv EXCEPT !.pc = "fail"]
  BY DEF RecvReply, Statuses
<1>c. /\ nod' \in [Nodes -> Node]
      /\ \A m \in Nodes : SameNode(m) /\ nod'[m].status = IF m = rcv.node THEN st ELSE nod[m].status
  BY <1>a, <1>b, StatusSet DEF CbInv, BasicInv
<1>d. UNCHANGED <<app, rpc, work_list, snd, toDev, fromDev, events, plug, cls_head, setup>>
  BY DEF RecvReply, wire, plugVars
<1>1. BasicInv'
  BY RecvReplyKept DEF CbInv
<1>2. CbKinds' /\ CbLinks'
  BY <1>1 DEF BasicInv
<1>4. AnnouncedInv'
  BY CbWork, SetupFacts, <1>a, <1>b, <1>c, <1>d DEF OneAsks, CbInv, BasicInv, Status, CbKinds,
      CbLinks, AnnouncedInv, WorkInv, RecvInv, Connection, Node, Attached, Live, wire, plugVars,
      Same, SameConn, SameMark, SameNode
<1>5. NewInv'
  BY CbWork, SetupFacts, <1>a, <1>b, <1>c, <1>d DEF OneAsks, CbInv, BasicInv, Early, Quiet,
      Status, CbKinds, CbLinks, NewInv, WorkInv, RecvInv, Connection, Node, Attached, Live,
      wire, plugVars, Same, SameConn, SameMark, SameNode
<1>6. WorkInv'
  BY CbWork, SetupFacts, <1>a, <1>b, <1>c, <1>d DEF OneAsks, CbInv, BasicInv, Status, CbKinds,
      CbLinks, AnnouncedInv, NewInv, WorkInv, RecvInv, Connection, Node, Attached, Live, wire,
      plugVars, Same, SameConn, SameMark, SameNode
<1>7. CountInv'
  <2>o. /\ RepliesOut = Len(toDev) + Cardinality(Replies(fromDev))
                        + (IF rcv.pc = "proc" /\ rcv.pack # "event" THEN 1 ELSE 0)
        /\ RepliesOut' = Len(toDev') + Cardinality(Replies(fromDev'))
                        + (IF rcv'.pc = "proc" /\ rcv'.pack # "event" THEN 1 ELSE 0)
    BY DEF RepliesOut, Replies
  <2>t. /\ toDev \in Seq({"sub"}) /\ fromDev \in Seq({"ok", "fail", "event"})
        /\ toDev' \in Seq({"sub"}) /\ fromDev' \in Seq({"ok", "fail", "event"})
        /\ Len(toDev) \in Nat /\ Len(toDev') \in Nat
    BY <1>2 DEF CbInv, BasicInv, CbKinds
  <2>r. /\ Cardinality(Replies(fromDev)) \in Nat /\ Cardinality(Replies(fromDev')) \in Nat
        /\ Cardinality(Replies(fromDev)) = 0 <=> \A k \in DOMAIN fromDev : fromDev[k] = "event"
    BY <2>t, RepliesFacts
  <2>s. SUFFICES ASSUME plug' = "in"
                 PROVE  /\ RepliesOut' = IF AwaitsReply' THEN 1 ELSE 0
                        /\ (\E k \in DOMAIN fromDev' : fromDev'[k] = "event") => Subscribed'
    BY DEF CountInv
  <2>1. plug = "in" /\ CountInv /\ \A m \in Nodes : Status(m) # "not_init" => work_list = <<m>>
    BY <1>d, <2>s DEF CbInv, BasicInv, WorkInv
  <2>2. work_list = <<rcv.node>> /\ rcv.pack # "event"
    BY <1>a, <2>1 DEF CbInv, BasicInv, RecvInv, Status
  <2>3. \A m \in Nodes : m # rcv.node => Status(m) = "not_init"
    BY <2>1, <2>2, CbWork
  <2>4. AwaitsReply /\ ~ Subscribed
    BY <1>a, <2>3 DEF AwaitsReply, Subscribed, Status
  <2>5. ~ AwaitsReply'
    BY <1>a, <1>b, <1>c, <2>3 DEF AwaitsReply, Status
  <2>6. RepliesOut = 1 /\ ~ \E k \in DOMAIN fromDev : fromDev[k] = "event"
    BY <2>1, <2>4 DEF CountInv
  <2>7. rcv'.pc # "proc"
    BY <1>b DEF CbInv, BasicInv, CbKinds
  <2>8. RepliesOut' = 0
    BY <1>a, <1>d, <2>2, <2>6, <2>7, <2>o, <2>r, <2>t
  <2>9. QED
    BY <1>d, <2>5, <2>6, <2>8
<1>8. RecvInv'
  BY CbWork, SetupFacts, <1>a, <1>b, <1>c, <1>d DEF OneAsks, CbInv, BasicInv, Status, CbKinds,
      CbLinks, NewInv, WorkInv, CountInv, RecvInv, Connection, Node, Attached, Live, wire,
      plugVars, Same, SameConn, SameMark, SameNode
<1>9. SubsInv'
  BY CbWork, SetupFacts, <1>a, <1>b, <1>c, <1>d DEF OneAsks, CbInv, BasicInv, Status, CbKinds,
      CbLinks, AnnouncedInv, NewInv, WorkInv, RecvInv, SubsInv, Connection, Node, Attached,
      Live, wire, plugVars, Same, SameConn, SameMark, SameNode
<1>10. QED
  BY <1>1, <1>4, <1>5, <1>6, <1>7, <1>8, <1>9 DEF CbInv

\* Telling the subscribers keeps CbInv.
LEMMA RecvOkKeeps == ASSUME OneAsks, CbInv, RecvOk
  PROVE CbInv'
<1>1. BasicInv'
  BY RecvOkKept DEF CbInv
<1>2. CbKinds' /\ CbLinks'
  BY <1>1 DEF BasicInv
<1>4. AnnouncedInv'
  BY CbWork, SetupFacts DEF OneAsks, CbInv, BasicInv, RecvOk, Told, Hears, Unmarked, Status,
      CbKinds, CbLinks, AnnouncedInv, WorkInv, RecvInv, Connection, Node, Attached, Live, wire,
      plugVars
<1>5. NewInv'
  BY CbWork, SetupFacts DEF OneAsks, CbInv, BasicInv, RecvOk, Told, Hears, Unmarked, Early,
      Quiet, Status, CbKinds, CbLinks, NewInv, WorkInv, RecvInv, Connection, Node, Attached,
      Live, wire, plugVars
<1>6. WorkInv'
  BY CbWork, SetupFacts DEF OneAsks, CbInv, BasicInv, RecvOk, Told, Hears, Unmarked, Status,
      CbKinds, CbLinks, AnnouncedInv, NewInv, WorkInv, RecvInv, Connection, Node, Attached,
      Live, wire, plugVars
<1>7. CountInv'
  BY CbWork, SetupFacts DEF OneAsks, CbInv, BasicInv, RecvOk, Told, Hears, Unmarked, Status,
      AwaitsReply, RepliesOut, Replies, Subscribed, CbKinds, CbLinks, NewInv, WorkInv, RecvInv,
      CountInv, Connection, Node, Attached, Live, wire, plugVars
<1>8. RecvInv'
  BY CbWork, SetupFacts DEF OneAsks, CbInv, BasicInv, RecvOk, Told, Hears, Unmarked, Status,
      CbKinds, CbLinks, NewInv, WorkInv, CountInv, RecvInv, Connection, Node, Attached, Live,
      wire, plugVars
<1>9. SubsInv'
  BY CbWork, SetupFacts DEF OneAsks, CbInv, BasicInv, RecvOk, Told, Hears, Unmarked, Status,
      CbKinds, CbLinks, AnnouncedInv, NewInv, WorkInv, RecvInv, SubsInv, Connection, Node,
      Attached, Live, wire, plugVars
<1>10. QED
  BY <1>1, <1>4, <1>5, <1>6, <1>7, <1>8, <1>9 DEF CbInv

\* Marking the subscribers keeps CbInv.
LEMMA RecvMarkKeeps == ASSUME OneAsks, CbInv, RecvMark
  PROVE CbInv'
<1>a. MarkAll(rcv.node) /\ rcv.pc = "mark" /\ rcv' = [pc |-> "idle", node |-> NoNode, pack |-> "none"] /\ rcv.node \in Nodes
  BY DEF RecvMark, RecvDone, CbInv, BasicInv, CbKinds
<1>b. UNCHANGED <<app, nod, work_list, snd, toDev, fromDev, events, plug, cls_head, setup>>
  BY DEF RecvMark, wire, plugVars
<1>1. BasicInv'
  BY RecvMarkKept DEF CbInv
<1>2. CbKinds' /\ CbLinks'
  BY <1>1 DEF BasicInv
<1>4. AnnouncedInv'
  BY CbWork, SetupFacts, MarkEffect, <1>a, <1>b DEF OneAsks, CbInv, BasicInv, Status, CbKinds,
      CbLinks, AnnouncedInv, WorkInv, RecvInv, Connection, Node, Attached, Live, wire, plugVars,
      Same, SameConn, SameMark, SameNode
<1>5. NewInv'
  BY CbWork, SetupFacts, MarkEffect, <1>a, <1>b DEF OneAsks, CbInv, BasicInv, Early, Quiet,
      Status, CbKinds, CbLinks, NewInv, WorkInv, RecvInv, Connection, Node, Attached, Live,
      wire, plugVars, Same, SameConn, SameMark, SameNode
<1>6. WorkInv'
  BY CbWork, SetupFacts, MarkEffect, <1>a, <1>b DEF OneAsks, CbInv, BasicInv, Status, CbKinds,
      CbLinks, AnnouncedInv, NewInv, WorkInv, RecvInv, Connection, Node, Attached, Live, wire,
      plugVars, Same, SameConn, SameMark, SameNode
<1>7. CountInv'
  BY CbWork, SetupFacts, MarkEffect, <1>a, <1>b DEF OneAsks, CbInv, BasicInv, Status,
      AwaitsReply, RepliesOut, Replies, Subscribed, CbKinds, CbLinks, NewInv, WorkInv, RecvInv,
      CountInv, Connection, Node, Attached, Live, wire, plugVars, Same, SameConn, SameMark,
      SameNode
<1>8. RecvInv'
  BY CbWork, SetupFacts, MarkEffect, <1>a, <1>b DEF OneAsks, CbInv, BasicInv, Status, CbKinds,
      CbLinks, NewInv, WorkInv, CountInv, RecvInv, Connection, Node, Attached, Live, wire,
      plugVars, Same, SameConn, SameMark, SameNode
<1>9. SubsInv'
  BY CbWork, SetupFacts, MarkEffect, <1>a, <1>b DEF OneAsks, CbInv, BasicInv, Status, CbKinds,
      CbLinks, AnnouncedInv, NewInv, WorkInv, RecvInv, SubsInv, Connection, Node, Attached,
      Live, wire, plugVars, Same, SameConn, SameMark, SameNode
<1>10. QED
  BY <1>1, <1>4, <1>5, <1>6, <1>7, <1>8, <1>9 DEF CbInv

\* Telling a refusal keeps CbInv.
LEMMA RecvFailKeeps == ASSUME OneAsks, CbInv, RecvFail
  PROVE CbInv'
<1>a. rcv.pc = "fail"
  BY DEF RecvFail
<1>b. UNCHANGED <<rpc, nod, work_list, snd, toDev, fromDev, events, plug, cls_head, setup>>
  BY DEF RecvFail, wire, plugVars
<1>1. BasicInv'
  BY RecvFailKept DEF CbInv
<1>2. CbKinds' /\ CbLinks'
  BY <1>1 DEF BasicInv
<1>4. AnnouncedInv'
  BY CbWork, SetupFacts, FailEffect, <1>a, <1>b DEF OneAsks, CbInv, BasicInv, Status, CbKinds,
      CbLinks, AnnouncedInv, WorkInv, RecvInv, Connection, Node, Attached, Live, wire, plugVars,
      Same, SameConn, SameMark, SameNode
<1>5. NewInv'
  BY CbWork, SetupFacts, FailEffect, <1>a, <1>b DEF OneAsks, CbInv, BasicInv, Early, Quiet,
      Status, CbKinds, CbLinks, NewInv, WorkInv, RecvInv, Connection, Node, Attached, Live,
      wire, plugVars, Same, SameConn, SameMark, SameNode
<1>6. WorkInv'
  BY FailEffect, <1>a, <1>b DEF CbInv, BasicInv, WorkInv, Status
<1>7. CountInv'
  <2>1. rcv'.pc # "proc"
    BY FailEffect DEF CbInv, BasicInv
  <2>2. RepliesOut' = RepliesOut
    BY <1>a, <1>b, <2>1 DEF RepliesOut
  <2>3. QED
    BY <1>b, <2>2 DEF CbInv, CountInv, AwaitsReply, Subscribed, Status
<1>8. RecvInv'
  BY CbWork, SetupFacts, FailEffect, <1>a, <1>b DEF OneAsks, CbInv, BasicInv, Status, CbKinds,
      CbLinks, NewInv, WorkInv, CountInv, RecvInv, Connection, Node, Attached, Live, wire,
      plugVars, Same, SameConn, SameMark, SameNode
<1>9. SubsInv'
  <2>1. SubsInv
    BY DEF CbInv, BasicInv
  <2>2. \A t \in Subs : app'[t] = "subscribed" => app[t] = "subscribed"
    <3>1. CASE app' = app
      BY <3>1
    <3>2. CASE app' = [t \in Subs |-> IF t \in Unmarked(rcv.node) /\ rpc[t].conn
                                      THEN Hears(app[t], "REQ_FAL") ELSE app[t]]
      BY <3>2 DEF Hears
    <3>3. QED
      BY <3>1, <3>2, FailEffect DEF CbInv, BasicInv
  <2>3. QED
    BY <1>a, <1>b, <2>1, <2>2 DEF SubsInv, Status
<1>10. QED
  BY <1>1, <1>4, <1>5, <1>6, <1>7, <1>8, <1>9 DEF CbInv

\* Giving up the node that was refused keeps CbInv: nothing is on its way
\* then.
LEMMA RecvFlagKeeps == ASSUME OneAsks, CbInv, RecvFlag
  PROVE CbInv'
<1>a. /\ rcv.pc = "flag" /\ rcv.node \in Nodes
      /\ rcv'.pc = "notify" /\ rcv'.node = rcv.node /\ rcv'.pack = rcv.pack
      /\ rcv' \in [pc : {"idle", "proc", "ok", "mark", "fail", "flag", "notify"}, node : Nodes \cup {NoNode},
                  pack : {"none", "ok", "fail", "event"}]
  BY DEF RecvFlag, CbInv, BasicInv, CbKinds
<1>b. UNCHANGED <<app, rpc, work_list, snd, toDev, fromDev, events, plug, cls_head, setup>>
  BY DEF RecvFlag, wire, plugVars
<1>c. /\ nod' \in [Nodes -> Node]
      /\ \A m \in Nodes :
           /\ nod'[m].status = nod[m].status /\ nod'[m].mem = nod[m].mem
           /\ nod'[m].exitflg = nod[m].exitflg /\ nod'[m].head = nod[m].head
           /\ nod'[m].freeflag <=> nod[m].freeflag \/ m = rcv.node
  BY <1>a, FlagSet DEF RecvFlag, CbInv, BasicInv, Attached
<1>1. BasicInv'
  BY RecvFlagKept DEF CbInv
<1>2. ASSUME plug = "in"
      PROVE  /\ work_list = <<rcv.node>> /\ \A m \in Nodes : Status(m) = "not_init"
             /\ ~ setup.base /\ ~ setup.offline /\ snd.pc \notin {"tell", "mark"}
             /\ toDev = <<>> /\ fromDev = <<>>
  <2>1. work_list = <<rcv.node>> /\ Status(rcv.node) = "not_init"
    BY <1>2, <1>a DEF CbInv, RecvInv
  <2>2. \A m \in Nodes : Status(m) = "not_init"
    BY <1>2, <2>1, CbWork DEF CbInv, WorkInv
  <2>3. RepliesOut = 0 /\ ~ \E k \in DOMAIN fromDev : fromDev[k] = "event"
    BY <1>2, <2>2 DEF CbInv, CountInv, AwaitsReply, Subscribed, Status
  <2>4. toDev \in Seq({"sub"}) /\ fromDev \in Seq({"ok", "fail", "event"})
    BY DEF CbInv, BasicInv, CbKinds
  <2>5. /\ Cardinality(Replies(fromDev)) \in Nat
        /\ Cardinality(Replies(fromDev)) = 0 <=> \A k \in DOMAIN fromDev : fromDev[k] = "event"
    BY <2>4, RepliesFacts
  <2>6. RepliesOut = Len(toDev) + Cardinality(Replies(fromDev))
    BY <1>a, <2>4, <2>5 DEF RepliesOut, Replies
  <2>7. Len(toDev) = 0 /\ \A k \in DOMAIN fromDev : fromDev[k] = "event"
    BY <2>3, <2>4, <2>5, <2>6
  <2>8. toDev = <<>> /\ fromDev = <<>>
    BY <2>3, <2>4, <2>7
  <2>9. ~ setup.base /\ ~ setup.offline
    BY <1>2, <1>a DEF CbInv, BasicInv, AnnouncedInv, CbLinks
  <2>10. QED
    BY <2>1, <2>2, <2>8, <2>9 DEF CbInv, BasicInv, CbLinks
<1>4. AnnouncedInv'
  BY <1>2, <1>b DEF AnnouncedInv
<1>5. NewInv'
  <2>1. plug = "in" /\ ~ setup.base => ~ Quiet /\ NewInv
    BY <1>a DEF CbInv, NewInv
  <2>2. QED
    BY <1>2, <1>a, <1>b, <1>c, <2>1, CbWork DEF NewInv, Quiet
<1>6. WorkInv'
  BY <1>2, <1>a, <1>b, <1>c DEF WorkInv, Status
<1>7. CountInv'
  <2>1. RepliesOut' = RepliesOut
    BY <1>a, <1>b DEF RepliesOut
  <2>2. AwaitsReply' = AwaitsReply /\ Subscribed' = Subscribed
    BY <1>c DEF AwaitsReply, Subscribed, Status
  <2>3. QED
    BY <1>b, <2>1, <2>2 DEF CbInv, CountInv
<1>8. RecvInv'
  BY <1>2, <1>a, <1>b, <1>c DEF RecvInv, Status
<1>9. SubsInv'
  <2>1. SubsInv /\ CbLinks
    BY DEF CbInv, BasicInv
  <2>2. \A t \in Subs : rpc[t].pc = "reply" => rpc[t].cbdev \in Nodes
    BY <2>1 DEF CbLinks
  <2>3. rcv.pc # "mark"
    BY <1>a
  <2>4. QED
    BY <1>b, <1>c, <2>1, <2>2, <2>3 DEF SubsInv, Status
<1>10. QED
  BY <1>1, <1>4, <1>5, <1>6, <1>7, <1>8, <1>9 DEF CbInv

\* Waking the send thread up for it keeps CbInv.
LEMMA RecvNotifyKeeps == ASSUME OneAsks, CbInv, RecvNotify
  PROVE CbInv'
<1>a. /\ rcv.pc = "notify" /\ rcv' = [pc |-> "idle", node |-> NoNode, pack |-> "none"]
      /\ UNCHANGED <<app, rpc, nod, work_list, snd, toDev, fromDev, events, plug, cls_head, setup>>
  BY DEF RecvNotify, RecvDone, wire, plugVars
<1>1. BasicInv'
  BY RecvNotifyKept DEF CbInv
<1>2. AnnouncedInv' /\ NewInv' /\ WorkInv' /\ RecvInv' /\ SubsInv'
  BY <1>a DEF CbInv, AnnouncedInv, NewInv, WorkInv, RecvInv, SubsInv, Status, Quiet
<1>3. CountInv'
  <2>1. RepliesOut' = RepliesOut
    BY <1>a DEF RepliesOut
  <2>2. QED
    BY <1>a, <2>1 DEF CbInv, CountInv, AwaitsReply, Subscribed, Status
<1>4. QED
  BY <1>1, <1>2, <1>3 DEF CbInv

\* Handing an event on keeps CbInv.
LEMMA RecvEventKeeps == ASSUME OneAsks, CbInv, RecvEvent
  PROVE CbInv'
<1>1. BasicInv'
  BY RecvEventKept DEF CbInv
<1>2. CbKinds' /\ CbLinks'
  BY <1>1 DEF BasicInv
<1>4. AnnouncedInv'
  BY CbWork, SetupFacts DEF OneAsks, CbInv, BasicInv, RecvEvent, Told, Hears, Marked, RecvDone,
      Status, CbKinds, CbLinks, AnnouncedInv, WorkInv, RecvInv, Connection, Node, Attached,
      Live, wire, plugVars
<1>5. NewInv'
  BY CbWork, SetupFacts DEF OneAsks, CbInv, BasicInv, RecvEvent, Told, Hears, Marked, RecvDone,
      Early, Quiet, Status, CbKinds, CbLinks, NewInv, WorkInv, RecvInv, Connection, Node,
      Attached, Live, wire, plugVars
<1>6. WorkInv'
  BY CbWork, SetupFacts DEF OneAsks, CbInv, BasicInv, RecvEvent, Told, Hears, Marked, RecvDone,
      Status, CbKinds, CbLinks, AnnouncedInv, NewInv, WorkInv, RecvInv, Connection, Node,
      Attached, Live, wire, plugVars
<1>7. CountInv'
  BY CbWork, SetupFacts DEF OneAsks, CbInv, BasicInv, RecvEvent, Told, Hears, Marked, RecvDone,
      Status, AwaitsReply, RepliesOut, Replies, Subscribed, CbKinds, CbLinks, NewInv, WorkInv,
      RecvInv, CountInv, Connection, Node, Attached, Live, wire, plugVars
<1>8. RecvInv'
  BY CbWork, SetupFacts DEF OneAsks, CbInv, BasicInv, RecvEvent, Told, Hears, Marked, RecvDone,
      Status, CbKinds, CbLinks, NewInv, WorkInv, CountInv, RecvInv, Connection, Node, Attached,
      Live, wire, plugVars
<1>9. SubsInv'
  BY CbWork, SetupFacts DEF OneAsks, CbInv, BasicInv, RecvEvent, Told, Hears, Marked, RecvDone,
      Status, CbKinds, CbLinks, AnnouncedInv, NewInv, WorkInv, RecvInv, SubsInv, Connection,
      Node, Attached, Live, wire, plugVars
<1>10. QED
  BY <1>1, <1>4, <1>5, <1>6, <1>7, <1>8, <1>9 DEF CbInv

\* A reply of the device keeps CbInv.
LEMMA DevReplyKeeps == ASSUME OneAsks, CbInv, DevReply
  PROVE CbInv'
<1>1. BasicInv'
  BY DevReplyKept DEF CbInv
<1>2. CbKinds' /\ CbLinks'
  BY <1>1 DEF BasicInv
<1>4. AnnouncedInv'
  BY CbWork, SetupFacts DEF OneAsks, CbInv, BasicInv, DevReply, Status, CbKinds, CbLinks,
      AnnouncedInv, WorkInv, RecvInv, Connection, Node, Attached, Live, wire, plugVars
<1>5. NewInv'
  BY CbWork, SetupFacts DEF OneAsks, CbInv, BasicInv, DevReply, Early, Quiet, Status, CbKinds,
      CbLinks, NewInv, WorkInv, RecvInv, Connection, Node, Attached, Live, wire, plugVars
<1>6. WorkInv'
  BY CbWork, SetupFacts DEF OneAsks, CbInv, BasicInv, DevReply, Status, CbKinds, CbLinks,
      AnnouncedInv, NewInv, WorkInv, RecvInv, Connection, Node, Attached, Live, wire, plugVars
<1>7. CountInv'
  <2>o. /\ RepliesOut = Len(toDev) + Cardinality(Replies(fromDev))
                        + (IF rcv.pc = "proc" /\ rcv.pack # "event" THEN 1 ELSE 0)
        /\ RepliesOut' = Len(toDev') + Cardinality(Replies(fromDev'))
                        + (IF rcv'.pc = "proc" /\ rcv'.pack # "event" THEN 1 ELSE 0)
    BY DEF RepliesOut, Replies
  <2>t. /\ toDev \in Seq({"sub"}) /\ fromDev \in Seq({"ok", "fail", "event"})
        /\ toDev' \in Seq({"sub"}) /\ fromDev' \in Seq({"ok", "fail", "event"})
        /\ Len(toDev) \in Nat /\ Len(toDev') \in Nat
    BY <1>2 DEF CbInv, BasicInv, CbKinds
  <2>r. /\ Cardinality(Replies(fromDev)) \in Nat /\ Cardinality(Replies(fromDev')) \in Nat
        /\ Cardinality(Replies(fromDev)) = 0 <=> \A k \in DOMAIN fromDev : fromDev[k] = "event"
    BY <2>t, RepliesFacts
  <2>s. SUFFICES ASSUME plug' = "in"
                 PROVE  /\ RepliesOut' = IF AwaitsReply' THEN 1 ELSE 0
                        /\ (\E k \in DOMAIN fromDev' : fromDev'[k] = "event") => Subscribed'
    BY DEF CountInv
  <2>1. /\ plug = "in" /\ CountInv /\ UNCHANGED <<nod, rcv>>
        /\ toDev # <<>> /\ toDev' = Tail(toDev)
    BY <2>s DEF DevReply, CbInv, BasicInv, plugVars
  <2>2. PICK r \in {"ok", "fail"} : fromDev' = Append(fromDev, r)
    BY DEF DevReply
  <2>3. AwaitsReply' = AwaitsReply /\ Subscribed' = Subscribed
    BY <2>1 DEF AwaitsReply, Subscribed, Status
  <2>4. Len(toDev') = Len(toDev) - 1
    BY <2>1, <2>t
  <2>5. r # "event" /\ r \in {"ok", "fail", "event"}
    BY <2>2
  <2>6. Cardinality(Replies(fromDev')) = Cardinality(Replies(fromDev)) + 1
    BY <2>2, <2>5, <2>t, RepliesAppend
  <2>7. RepliesOut' = RepliesOut
    BY <2>1, <2>4, <2>6, <2>o, <2>r, <2>t
  <2>8. ASSUME NEW k \in DOMAIN fromDev', fromDev'[k] = "event"
        PROVE  k \in DOMAIN fromDev /\ fromDev[k] = "event"
    BY <2>2, <2>5, <2>8, <2>t
  <2>9. QED
    BY <2>1, <2>3, <2>7, <2>8 DEF CountInv
<1>8. RecvInv'
  BY CbWork, SetupFacts DEF OneAsks, CbInv, BasicInv, DevReply, Status, CbKinds, CbLinks,
      NewInv, WorkInv, CountInv, RecvInv, Connection, Node, Attached, Live, wire, plugVars
<1>9. SubsInv'
  BY CbWork, SetupFacts DEF OneAsks, CbInv, BasicInv, DevReply, Status, CbKinds, CbLinks,
      AnnouncedInv, NewInv, WorkInv, RecvInv, SubsInv, Connection, Node, Attached, Live, wire,
      plugVars
<1>10. QED
  BY <1>1, <1>4, <1>5, <1>6, <1>7, <1>8, <1>9 DEF CbInv

\* An event of the device keeps CbInv.
LEMMA DevEventKeeps == ASSUME OneAsks, CbInv, DevEvent
  PROVE CbInv'
<1>1. BasicInv'
  BY DevEventKept DEF CbInv
<1>2. CbKinds' /\ CbLinks'
  BY <1>1 DEF BasicInv
<1>4. AnnouncedInv'
  BY CbWork, SetupFacts DEF OneAsks, CbInv, BasicInv, DevEvent, Subscribed, Status, CbKinds,
      CbLinks, AnnouncedInv, WorkInv, RecvInv, Connection, Node, Attached, Live, wire, plugVars
<1>5. NewInv'
  BY CbWork, SetupFacts DEF OneAsks, CbInv, BasicInv, DevEvent, Subscribed, Early, Quiet,
      Status, CbKinds, CbLinks, NewInv, WorkInv, RecvInv, Connection, Node, Attached, Live,
      wire, plugVars
<1>6. WorkInv'
  <2>1. WorkInv /\ plug = "in" /\ ~ setup.offline
    BY DEF CbInv, BasicInv, DevEvent
  <2>2. PICK m \in Nodes : Status(m) = "wait_usb_data" /\ work_list = <<m>>
    BY <2>1 DEF DevEvent, Subscribed, WorkInv, Status
  <2>3. \A n \in Nodes : ~ nod[n].freeflag
    <3>1. CASE setup.base
      BY <2>1, <3>1 DEF CbInv, BasicInv, AnnouncedInv
    <3>2. CASE ~ setup.base
      <4>1. m \in setup.subs /\ \A n \in Nodes : nod[n].freeflag => n \in setup.subs
        BY <2>1, <2>2, <3>2 DEF CbInv, BasicInv, NewInv
      <4>2. \A n \in Nodes : nod[n].freeflag => n = m
        BY <3>2, <4>1 DEF CbInv, BasicInv, CbKinds, OneAsks
      <4>3. ~ nod[m].freeflag
        BY <2>1, <2>2 DEF WorkInv
      <4>4. QED
        BY <4>2, <4>3
    <3>3. QED
      BY <3>1, <3>2
  <2>4. QED
    BY <2>1, <2>3 DEF DevEvent, WorkInv, Status, plugVars
<1>7. CountInv'
  <2>o. /\ RepliesOut = Len(toDev) + Cardinality(Replies(fromDev))
                        + (IF rcv.pc = "proc" /\ rcv.pack # "event" THEN 1 ELSE 0)
        /\ RepliesOut' = Len(toDev') + Cardinality(Replies(fromDev'))
                        + (IF rcv'.pc = "proc" /\ rcv'.pack # "event" THEN 1 ELSE 0)
    BY DEF RepliesOut, Replies
  <2>t. /\ toDev \in Seq({"sub"}) /\ fromDev \in Seq({"ok", "fail", "event"})
        /\ toDev' \in Seq({"sub"}) /\ fromDev' \in Seq({"ok", "fail", "event"})
        /\ Len(toDev) \in Nat /\ Len(toDev') \in Nat
    BY <1>2 DEF CbInv, BasicInv, CbKinds
  <2>r. /\ Cardinality(Replies(fromDev)) \in Nat /\ Cardinality(Replies(fromDev')) \in Nat
        /\ Cardinality(Replies(fromDev)) = 0 <=> \A k \in DOMAIN fromDev : fromDev[k] = "event"
    BY <2>t, RepliesFacts
  <2>s. SUFFICES ASSUME plug' = "in"
                 PROVE  /\ RepliesOut' = IF AwaitsReply' THEN 1 ELSE 0
                        /\ (\E k \in DOMAIN fromDev' : fromDev'[k] = "event") => Subscribed'
    BY DEF CountInv
  <2>1. /\ plug = "in" /\ CountInv /\ UNCHANGED <<nod, rcv, toDev>> /\ Subscribed
        /\ fromDev' = Append(fromDev, "event")
    BY <2>s DEF DevEvent, CbInv, BasicInv, plugVars
  <2>2. AwaitsReply' = AwaitsReply /\ Subscribed' = Subscribed
    BY <2>1 DEF AwaitsReply, Subscribed, Status
  <2>3. Cardinality(Replies(fromDev')) = Cardinality(Replies(fromDev))
    BY <2>1, <2>r, <2>t, RepliesAppend
  <2>4. RepliesOut' = RepliesOut
    BY <2>1, <2>3, <2>o
  <2>5. QED
    BY <2>1, <2>2, <2>4 DEF CountInv
<1>8. RecvInv'
  BY CbWork, SetupFacts DEF OneAsks, CbInv, BasicInv, DevEvent, Subscribed, Status, CbKinds,
      CbLinks, NewInv, WorkInv, CountInv, RecvInv, Connection, Node, Attached, Live, wire,
      plugVars
<1>9. SubsInv'
  BY CbWork, SetupFacts DEF OneAsks, CbInv, BasicInv, DevEvent, Subscribed, Status, CbKinds,
      CbLinks, AnnouncedInv, NewInv, WorkInv, RecvInv, SubsInv, Connection, Node, Attached,
      Live, wire, plugVars
<1>10. QED
  BY <1>1, <1>4, <1>5, <1>6, <1>7, <1>8, <1>9 DEF CbInv

\* Unplugging keeps CbInv.
LEMMA UnplugKeeps == ASSUME OneAsks, CbInv, Unplug
  PROVE CbInv'
<1>1. BasicInv'
  BY UnplugKept DEF CbInv
<1>2. CbKinds' /\ CbLinks'
  BY <1>1 DEF BasicInv
<1>4. AnnouncedInv'
  BY CbWork, SetupFacts DEF OneAsks, CbInv, BasicInv, Unplug, Status, CbKinds, CbLinks,
      AnnouncedInv, WorkInv, RecvInv, Connection, Node, Attached, Live, wire, plugVars
<1>5. NewInv'
  BY CbWork, SetupFacts DEF OneAsks, CbInv, BasicInv, Unplug, Early, Quiet, Status, CbKinds,
      CbLinks, NewInv, WorkInv, RecvInv, Connection, Node, Attached, Live, wire, plugVars
<1>6. WorkInv'
  BY CbWork, SetupFacts DEF OneAsks, CbInv, BasicInv, Unplug, Status, CbKinds, CbLinks,
      AnnouncedInv, NewInv, WorkInv, RecvInv, Connection, Node, Attached, Live, wire, plugVars
<1>7. CountInv'
  BY CbWork, SetupFacts DEF OneAsks, CbInv, BasicInv, Unplug, Status, AwaitsReply, RepliesOut,
      Replies, Subscribed, CbKinds, CbLinks, NewInv, WorkInv, RecvInv, CountInv, Connection,
      Node, Attached, Live, wire, plugVars
<1>8. RecvInv'
  BY CbWork, SetupFacts DEF OneAsks, CbInv, BasicInv, Unplug, Status, CbKinds, CbLinks, NewInv,
      WorkInv, CountInv, RecvInv, Connection, Node, Attached, Live, wire, plugVars
<1>9. SubsInv'
  BY CbWork, SetupFacts DEF OneAsks, CbInv, BasicInv, Unplug, Status, CbKinds, CbLinks,
      AnnouncedInv, NewInv, WorkInv, RecvInv, SubsInv, Connection, Node, Attached, Live, wire,
      plugVars
<1>10. QED
  BY <1>1, <1>4, <1>5, <1>6, <1>7, <1>8, <1>9 DEF CbInv

\* The teardown keeps CbInv.
LEMMA TearDownKeeps == ASSUME OneAsks, CbInv, TearDown
  PROVE CbInv'
<1>a. plug = "out" /\ plug' = "teardown"
  BY DEF TearDown
<1>b. UNCHANGED <<app, work_list, snd, rcv, toDev, fromDev, events, setup>>
  BY DEF TearDown, wire, plugVars
<1>1. BasicInv'
  BY TearDownKept DEF CbInv
<1>2. CbKinds' /\ CbLinks'
  BY <1>1 DEF BasicInv
<1>4. AnnouncedInv'
  BY CbWork, SetupFacts, TearDownEffect, <1>a, <1>b DEF OneAsks, CbInv, BasicInv, Status,
      CbKinds, CbLinks, AnnouncedInv, WorkInv, RecvInv, Connection, Node, Attached, Live, wire,
      plugVars, Same, SameConn, SameMark, SameNode
<1>5. NewInv'
  BY CbWork, SetupFacts, TearDownEffect, <1>a, <1>b DEF OneAsks, CbInv, BasicInv, Early, Quiet,
      Status, CbKinds, CbLinks, NewInv, WorkInv, RecvInv, Connection, Node, Attached, Live,
      wire, plugVars, Same, SameConn, SameMark, SameNode
<1>6. WorkInv'
  BY CbWork, SetupFacts, TearDownEffect, <1>a, <1>b DEF OneAsks, CbInv, BasicInv, Status,
      CbKinds, CbLinks, AnnouncedInv, NewInv, WorkInv, RecvInv, Connection, Node, Attached,
      Live, wire, plugVars, Same, SameConn, SameMark, SameNode
<1>7. CountInv'
  BY CbWork, SetupFacts, TearDownEffect, <1>a, <1>b DEF OneAsks, CbInv, BasicInv, Status,
      AwaitsReply, RepliesOut, Replies, Subscribed, CbKinds, CbLinks, NewInv, WorkInv, RecvInv,
      CountInv, Connection, Node, Attached, Live, wire, plugVars, Same, SameConn, SameMark,
      SameNode
<1>8. RecvInv'
  BY CbWork, SetupFacts, TearDownEffect, <1>a, <1>b DEF OneAsks, CbInv, BasicInv, Status,
      CbKinds, CbLinks, NewInv, WorkInv, CountInv, RecvInv, Connection, Node, Attached, Live,
      wire, plugVars, Same, SameConn, SameMark, SameNode
<1>9. SubsInv'
  BY CbWork, SetupFacts, TearDownEffect, <1>a, <1>b DEF OneAsks, CbInv, BasicInv, Status,
      CbKinds, CbLinks, AnnouncedInv, NewInv, WorkInv, RecvInv, SubsInv, Connection, Node,
      Attached, Live, wire, plugVars, Same, SameConn, SameMark, SameNode
<1>10. QED
  BY <1>1, <1>4, <1>5, <1>6, <1>7, <1>8, <1>9 DEF CbInv

\* The end of the teardown keeps CbInv.
LEMMA TearDownDoneKeeps == ASSUME OneAsks, CbInv, TearDownDone
  PROVE CbInv'
<1>1. BasicInv'
  BY TearDownDoneKept DEF CbInv
<1>2. CbKinds' /\ CbLinks'
  BY <1>1 DEF BasicInv
<1>4. AnnouncedInv'
  BY CbWork, SetupFacts DEF OneAsks, CbInv, BasicInv, TearDownDone, Status, CbKinds, CbLinks,
      AnnouncedInv, WorkInv, RecvInv, Connection, Node, Attached, Live, wire, plugVars
<1>5. NewInv'
  BY CbWork, SetupFacts DEF OneAsks, CbInv, BasicInv, TearDownDone, Early, Quiet, Status,
      CbKinds, CbLinks, NewInv, WorkInv, RecvInv, Connection, Node, Attached, Live, wire,
      plugVars
<1>6. WorkInv'
  BY CbWork, SetupFacts DEF OneAsks, CbInv, BasicInv, TearDownDone, Status, CbKinds, CbLinks,
      AnnouncedInv, NewInv, WorkInv, RecvInv, Connection, Node, Attached, Live, wire, plugVars
<1>7. CountInv'
  BY CbWork, SetupFacts DEF OneAsks, CbInv, BasicInv, TearDownDone, Status, AwaitsReply,
      RepliesOut, Replies, Subscribed, CbKinds, CbLinks, NewInv, WorkInv, RecvInv, CountInv,
      Connection, Node, Attached, Live, wire, plugVars
<1>8. RecvInv'
  BY CbWork, SetupFacts DEF OneAsks, CbInv, BasicInv, TearDownDone, Status, CbKinds, CbLinks,
      NewInv, WorkInv, CountInv, RecvInv, Connection, Node, Attached, Live, wire, plugVars
<1>9. SubsInv'
  BY CbWork, SetupFacts DEF OneAsks, CbInv, BasicInv, TearDownDone, Status, CbKinds, CbLinks,
      AnnouncedInv, NewInv, WorkInv, RecvInv, SubsInv, Connection, Node, Attached, Live, wire,
      plugVars
<1>10. QED
  BY <1>1, <1>4, <1>5, <1>6, <1>7, <1>8, <1>9 DEF CbInv

\* The invariants hold at first.
LEMMA CbInit == ASSUME Init PROVE CbInv /\ BadInv
<1>1. /\ NoNode \notin Nodes /\ BaseNode \in Nodes /\ setup \in Setup
      /\ \A m, n : <<m>> # <<>> /\ (<<m>> = <<n>> => m = n)
  BY CbWork, SetupsAssumption DEF Init
<1>2. CbKinds
  <2>1. rpc \in [Subs -> Connection] /\ nod \in [Nodes -> Node]
    BY DEF Init, Connection, Node
  <2>2. toDev \in Seq({"sub"}) /\ fromDev \in Seq({"ok", "fail", "event"}) /\ events \in 0 .. MaxEvents
    BY EventsAssumption DEF Init
  <2>3. work_list = <<>> \/ \E n \in Nodes : work_list = <<n>>
    BY <1>1 DEF Init
  <2>4. QED
    BY <2>1, <2>2, <2>3 DEF Init, CbKinds
<1>3. /\ toDev = <<>> /\ fromDev = <<>> /\ DOMAIN fromDev = {} /\ rcv.pc = "idle" /\ rcv.node = NoNode
      /\ rcv.pack = "none" /\ snd.pc = "scan" /\ snd.node = NoNode
      /\ \A s \in Subs : rpc[s].pc = "none" /\ ~ rpc[s].conn /\ app[s] = "idle"
      /\ \A n \in Nodes : ~ nod[n].freeflag /\ ~ nod[n].exitflg /\ nod[n].head = {}
      /\ \A n \in Nodes : setup.base /\ n = BaseNode => nod[n].mem = "live" /\ nod[n].status = "need_send_cmd"
      /\ \A n \in Nodes : ~ (setup.base /\ n = BaseNode) => nod[n].status = "not_init"
      /\ work_list = (IF setup.base THEN <<BaseNode>> ELSE <<>>)
      /\ plug = "in"
  BY CbWork DEF Init
<1>4. CbLinks
  BY <1>3 DEF CbLinks, Attached
<1>5. AliveInv
  BY <1>1, <1>3 DEF AliveInv
<1>12. KeptInv
  <2>1. /\ bad = {} /\ late = {}
        /\ \A n \in Nodes : nod[n].mem = (IF setup.base /\ n = BaseNode THEN "live" ELSE "none")
    BY DEF Init
  <2>2. \A s \in Subs : s # BaseNode /\ s \in Nodes
    BY CbWork DEF Nodes
  <2>3. QED
    BY <1>1, <1>3, <2>1, <2>2 DEF KeptInv, Attached
<1>6. AnnouncedInv
  BY <1>1, <1>3 DEF AnnouncedInv, Status
<1>7. NewInv
  BY <1>1, <1>3 DEF NewInv, Status, Early
<1>8. WorkInv
  BY <1>1, <1>3 DEF WorkInv, Status
<1>9. CountInv
  <2>1. RepliesOut = 0
    BY <1>3, CardEmpty DEF RepliesOut
  <2>2. ~ AwaitsReply
    BY <1>3 DEF AwaitsReply, Status
  <2>3. QED
    BY <1>3, <2>1, <2>2 DEF CountInv
<1>10. RecvInv /\ SubsInv
  BY <1>3 DEF RecvInv, SubsInv
<1>11. QED
  BY <1>2, <1>4, <1>5, <1>6, <1>7, <1>8, <1>9, <1>10, <1>12 DEF CbInv, BasicInv, BadInv, Init

\* CbInv speaks of the variables of module Callback only.
LEMMA CbStutter == ASSUME CbInv, UNCHANGED vars PROVE CbInv'
<1>1. UNCHANGED <<app, rpc, nod, work_list, snd, rcv, toDev, fromDev, events, plug, cls_head, setup>>
  BY DEF vars, wire, plugVars
<1>2. BasicInv'
  BY BasicNext DEF CbInv
<1>3. AnnouncedInv' /\ NewInv' /\ WorkInv'
  BY <1>1 DEF CbInv, AnnouncedInv, NewInv, WorkInv, Status, Quiet
<1>4. CountInv' /\ RecvInv' /\ SubsInv'
  BY <1>1 DEF CbInv, CountInv, RecvInv, SubsInv, Status, AwaitsReply, Subscribed, RepliesOut
<1>5. QED
  BY <1>2, <1>3, <1>4 DEF CbInv

\* Every step of module Callback keeps CbInv.
LEMMA CbNext == ASSUME OneAsks, CbInv, [Next]_vars PROVE CbInv'
<1>1. CASE UNCHANGED vars
  BY <1>1, CbStutter
<1>2. ASSUME NEW s \in Subs, Subscribe(s) \/ Leave(s)
      PROVE  CbInv'
  BY <1>2, SubscribeKeeps, LeaveKeeps
<1>3. ASSUME NEW s \in Subs, Rpc(s)
      PROVE  CbInv'
  BY <1>3, RpcFindKeeps, RpcAttachKeeps, RpcStatusKeeps, RpcReplyKeeps, RpcCheckKeeps,
     RpcStartKeeps, RpcEndKeeps, RpcEndCheckKeeps, RpcFlagKeeps, RpcNotifyKeeps DEF Rpc
<1>4. CASE SendThread
  BY <1>4, ScanKeeps, RecheckKeeps, PackMakeKeeps, PackMakeOfflineKeeps, OfflineTellKeeps,
     OfflineMarkKeeps, DeinitKeeps DEF SendThread
<1>5. CASE RecvThread
  BY <1>5, RecvFindKeeps, RecvReplyKeeps, RecvOkKeeps, RecvMarkKeeps, RecvFailKeeps,
     RecvFlagKeeps, RecvNotifyKeeps, RecvEventKeeps DEF RecvThread
<1>6. CASE DevReply \/ DevEvent \/ Unplug \/ Poll
  BY <1>6, DevReplyKeeps, DevEventKeeps, UnplugKeeps, TearDownKeeps, TearDownDoneKeeps DEF Poll
<1>7. QED
  BY <1>1, <1>2, <1>3, <1>4, <1>5, <1>6 DEF Next

\* The types of module Callback follow from BasicInv.
LEMMA CbTypes == ASSUME BasicInv PROVE TypeOK
<1>1. CbKinds /\ late \subseteq Subs
  BY DEF BasicInv, KeptInv
<1>2. ToSet(work_list) \subseteq Nodes /\ IsInjective(work_list)
  <2>1. CASE work_list = <<>>
    BY <2>1, CbWork DEF IsInjective
  <2>2. CASE \E n \in Nodes : work_list = <<n>>
    BY <2>2, CbWork DEF IsInjective
  <2>3. QED
    BY <1>1, <2>1, <2>2 DEF CbKinds
<1>3. ToSet(toDev) \subseteq {"sub"} /\ ToSet(fromDev) \subseteq {"ok", "fail", "event"}
  <2>1. toDev \in Seq({"sub"}) /\ fromDev \in Seq({"ok", "fail", "event"})
    BY <1>1 DEF CbKinds
  <2>2. QED
    BY <2>1 DEF ToSet
<1>4. QED
  BY <1>1, <1>2, <1>3 DEF CbKinds, TypeOK

\* Where the command is sent once, a reply and an event are told apart: CountInv and RecvInv.
LEMMA CbReplies == ASSUME CbInv PROVE OneReplyAwaited
<1>1. BasicInv /\ CbKinds /\ WorkInv /\ CountInv /\ RecvInv
  BY DEF CbInv, BasicInv
<1>2. ASSUME plug = "in"
      PROVE  (\E n \in ToSet(work_list) : nod[n].status = "wait_usb_cmd") <=> AwaitsReply
  <2>1. ToSet(work_list) \subseteq Nodes
    BY <1>1, CbTypes DEF TypeOK
  <2>2. \A n \in Nodes : Status(n) = "wait_usb_cmd" => n \in ToSet(work_list)
    BY <1>1, <1>2, CbWork DEF WorkInv
  <2>3. QED
    BY <2>1, <2>2 DEF AwaitsReply, Status
<1>3. ASSUME plug = "in"
      PROVE  RepliesOut =
               IF \E n \in ToSet(work_list) : nod[n].status = "wait_usb_cmd" THEN 1 ELSE 0
  <2>1. RepliesOut = IF AwaitsReply THEN 1 ELSE 0
    BY <1>1, <1>3 DEF CountInv
  <2>2. CASE AwaitsReply
    BY <1>2, <1>3, <2>1, <2>2
  <2>3. CASE ~ AwaitsReply
    BY <1>2, <1>3, <2>1, <2>3
  <2>4. QED
    BY <2>2, <2>3
<1>4. rcv.pc = "proc" /\ nod[rcv.node].status = "wait_usb_data" => rcv.pack = "event"
  BY <1>1 DEF RecvInv, Status
<1>5. QED
  BY <1>3, <1>4 DEF OneReplyAwaited

\* There no event is missed: SubsInv and WorkInv.
LEMMA CbEvents == ASSUME CbInv PROVE SubscribersGetEvents
<1>1. SUFFICES ASSUME plug = "in", rcv.pc \in {"idle", "proc"}, snd.pc # "mark",
                      NEW s \in Subs, app[s] = "subscribed"
               PROVE  /\ work_list # <<>> /\ s \in nod[Head(work_list)].head
                      /\ rpc[s].initflag /\ nod[Head(work_list)].status = "wait_usb_data"
  BY DEF SubscribersGetEvents
<1>2. SubsInv /\ WorkInv
  BY DEF CbInv
<1>3. PICK n \in Nodes : s \in nod[n].head /\ Status(n) = "wait_usb_data"
  BY <1>1, <1>2 DEF SubsInv
<1>4. work_list = <<n>>
  BY <1>1, <1>2, <1>3 DEF WorkInv
<1>5. rpc[s].initflag
  BY <1>1, <1>2 DEF SubsInv
<1>6. QED
  BY <1>3, <1>4, <1>5, CbWork DEF Status

\* The invariant of the event callbacks.
CallbackInv == BasicInv /\ BadInv /\ (OneAsks => CbInv)

\* A step of the part "ioctl" leaves the callback variables alone.
LEMMA CbStep == CallbackInv /\ [PartsNext]_allVars => CallbackInv'
<1>1. [PartsNext]_allVars => [Next]_vars
  BY DEF PartsNext, allVars, callbackVars
<1>2. ASSUME BasicInv, [Next]_vars
      PROVE  setup' = setup
  BY <1>2, SetupStays
<1>3. QED
  BY <1>1, <1>2, BasicNext, BadNext, CbNext DEF CallbackInv, OneAsks

\* The inductive invariant of the event callbacks.
LEMMA CbAlways == PartsSpec => []CallbackInv
<1>1. PartsInit => CallbackInv
  BY CbInit DEF PartsInit, CallbackInv, CbInv
<1>2. CallbackInv /\ [PartsNext]_allVars => CallbackInv'
  BY CbStep
<1>3. QED
  BY <1>1, <1>2, PTL DEF PartsSpec

\* A connection keeps the node it attached to, unless it came late; a node that was
\* freed is used in the ways NodesKept names only, and only where the device refuses
\* the event or is unplugged; and where the command is sent once, a reply and an event
\* of the device are not taken for each other (cb_dev_pack_proc tells them apart by the
\* status of the node).
THEOREM CallbacksSafeHolds == PartsSpec => []CallbacksSafe
<1>1. ASSUME CallbackInv
      PROVE  CallbacksSafe
  <2>1. TypeOK
    BY <1>1, CbTypes DEF CallbackInv
  <2>2. NodesKept
    BY <1>1, NotFreed DEF CallbackInv, BadInv, NodesKept
  <2>3. OneReplyAwaited
    <3>1. CASE OneAsks
      BY <1>1, <3>1, CbReplies DEF CallbackInv
    <3>2. CASE ~ OneAsks
      BY <3>2 DEF OneReplyAwaited
    <3>3. QED
      BY <3>1, <3>2
  <2>4. QED
    BY <2>1, <2>2, <2>3 DEF CallbacksSafe
<1>2. QED
  BY <1>1, CbAlways, PTL

\* An application that was told it is subscribed is attached, marked, and gets the next
\* event, where the command is sent once.
THEOREM SubscribersGetEventsHold == PartsSpec => []SubscribersGetEvents
<1>1. ASSUME CallbackInv
      PROVE  SubscribersGetEvents
  <2>1. CASE OneAsks
    BY <1>1, <2>1, CbEvents DEF CallbackInv
  <2>2. CASE ~ OneAsks
    BY <2>2 DEF SubscribersGetEvents
  <2>3. QED
    BY <2>1, <2>2
<1>2. QED
  BY <1>1, CbAlways, PTL
=============================================================================
