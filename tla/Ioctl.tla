------------------------------- MODULE Ioctl --------------------------------
(***************************************************************************)
(* One bb_ioctl after the other, from the application to the device and    *)
(* back: the client's ioctl session (app/ar8030/session_ioctl.c,           *)
(* session.c), the daemon's normal node (daemon/normal_node.c) and the     *)
(* send and receive threads of the device.                                 *)
(*                                                                         *)
(* A request is named by its id and by the call it was made for, which     *)
(* stands for its data; a reply carries the id and the data the device     *)
(* acted on.  The client's lock ioctl_lk makes the calls of one            *)
(* application sequential.  The device is external.  Left out: the end of  *)
(* a connection, and the end of a node.                                    *)
(***************************************************************************)
EXTENDS Integers, SequencesExt

CONSTANTS
  Apps,                \* applications, each with one device handle
  Reqs,                \* request ids
  MaxCalls,            \* bound: calls of one application
  Setups               \* how many calls, timed ones or not: see Setup

(* calls: bound, the calls of each application; timed: who calls           *)
(* bb_ioctl_ex, with a timeout, too; unset: what cur_msgid of a new node,  *)
(* which nothing writes, may read as.                                      *)
Setup == [calls : [Apps -> 0 .. MaxCalls], timed : SUBSET Apps, unset : SUBSET Nat]

VARIABLES
  log,                 \* per application, its calls: the request and what came of it
  ses,                 \* the client's sessions
  rpcTx, rpcRx,        \* the connections, to the daemon and from it
  nod,                 \* the daemon's nodes
  msgid,               \* the last message id given (msgid_tmp)
  snd, rcv,            \* the send and the receive thread
  toDev, fromDev,      \* frames on the way
  exec,                \* what the device was asked to do, in order
  setup                \* the setup of this behaviour

client == <<log, ses>>
daemon == <<nod, msgid, snd, rcv>>
device == <<toDev, fromDev, exec, setup>>
vars == <<client, rpcTx, rpcRx, daemon, device>>

Calls == [app : Apps, no : 1 .. MaxCalls]
NoCall == [app |-> "none", no |-> 0]
Request == [req : Reqs, call : Calls]
Outcome(o) == [req |-> o, call |-> NoCall]    \* "pending", "timeout": no answer
NoPack == Outcome("none")
Frame(p, id) == [pack |-> p, msgid |-> id]
Waiting(a) == log[a] /= <<>> /\ Last(log[a]).got = Outcome("pending")

Init ==
  /\ setup \in Setups
  /\ log = [a \in Apps |-> <<>>]
  /\ ses = [a \in Apps |-> [timed |-> FALSE, wakeup_set |-> FALSE, sta |-> NoPack, rx |-> "read"]]
  /\ rpcTx = [a \in Apps |-> <<>>] /\ rpcRx = [a \in Apps |-> <<>>]
  /\ nod \in [Apps -> [reqid : {"none"}, cmd : {NoCall}, need_write : {FALSE},
                       init_flg : {FALSE}, cur_msgid : setup.unset]]
  /\ msgid = 0
  /\ snd = [pc |-> "scan", node |-> "none", reqid |-> "none"]
  /\ rcv = [pc |-> "idle", node |-> "none", pack |-> NoPack]
  /\ toDev = <<>> /\ fromDev = <<>> /\ exec = <<>>

-----------------------------------------------------------------------------
(* The client: ioctl_bb_ioctl and bs_send_usbpack_and_wait, for bb_ioctl   *)
(* and, timed, for bb_ioctl_ex.                                            *)
Call(a) ==
  /\ ~ Waiting(a) /\ Len(log[a]) < setup.calls[a]
  /\ \E r \in Reqs, timed \in {FALSE, (a \in setup.timed)} :
       /\ log' = [log EXCEPT ![a] = Append(@, [req |-> r, got |-> Outcome("pending")])]
       /\ ses' = [ses EXCEPT ![a].timed = timed, ![a].wakeup_set = FALSE]
       /\ rpcTx' = [rpcTx EXCEPT ![a] =
                      Append(@, [req |-> r, call |-> [app |-> a, no |-> Len(log[a]) + 1]])]
  /\ UNCHANGED <<rpcRx, daemon, device>>

Return(a, result) == log' = [log EXCEPT ![a][Len(log[a])].got = result]

\* Woken up, it returns whatever the session holds; timed out, an error.
Wake(a) ==
  /\ Waiting(a) /\ ses[a].wakeup_set
  /\ Return(a, ses[a].sta)
  /\ ses' = [ses EXCEPT ![a].wakeup_set = FALSE]
  /\ UNCHANGED <<rpcTx, rpcRx, daemon, device>>

Timeout(a) ==
  /\ Waiting(a) /\ ses[a].timed
  /\ Return(a, Outcome("timeout"))
  /\ ses' = [ses EXCEPT ![a].wakeup_set = FALSE]
  /\ UNCHANGED <<rpcTx, rpcRx, daemon, device>>

\* The client's read thread: io_rpc_cb, then bs_weakup under the lock.
ClientRecv(a) ==
  /\ ses[a].rx = "read" /\ rpcRx[a] /= <<>>
  /\ ses' = [ses EXCEPT ![a].rx = "wake", ![a].sta = Head(rpcRx[a])]
  /\ rpcRx' = [rpcRx EXCEPT ![a] = Tail(@)]
  /\ UNCHANGED <<log, rpcTx, daemon, device>>

ClientWake(a) ==
  /\ ses[a].rx = "wake"
  /\ ses' = [ses EXCEPT ![a].rx = "read", ![a].wakeup_set = TRUE]
  /\ UNCHANGED <<log, rpcTx, rpcRx, daemon, device>>

-----------------------------------------------------------------------------
(* The rpc thread of a connection: rpc_normal_read.                        *)

(* While a request waits to be sent its id stays: the same id once more is *)
(* dropped, and of another one only the data is taken.                     *)
RpcRead(a) ==
  LET p == Head(rpcTx[a]) IN
  /\ rpcTx[a] /= <<>>
  /\ rpcTx' = [rpcTx EXCEPT ![a] = Tail(@)]
  /\ \/ /\ nod[a].init_flg /\ nod[a].reqid = p.req
        /\ UNCHANGED nod
     \/ /\ ~ nod[a].init_flg
        /\ nod' = [nod EXCEPT ![a].reqid = p.req, ![a].init_flg = TRUE,
                              ![a].cmd = p.call, ![a].need_write = TRUE]
     \/ /\ nod[a].init_flg /\ nod[a].reqid /= p.req
        /\ nod' = [nod EXCEPT ![a].cmd = p.call, ![a].need_write = TRUE]
  /\ UNCHANGED <<client, rpcRx, msgid, snd, rcv, device>>

-----------------------------------------------------------------------------
(* The send thread.  Which of several nodes comes first is left open.      *)
Scan ==
  /\ snd.pc = "scan"
  /\ \E a \in Apps : nod[a].need_write /\ snd' = [snd EXCEPT !.pc = "make", !.node = a]
  /\ UNCHANGED <<client, rpcTx, rpcRx, nod, msgid, rcv, device>>

\* normal_dev_pack_make up to the header: a new message id.
PackMake ==
  LET a == snd.node IN
  /\ snd.pc = "make"
  /\ \/ /\ nod[a].need_write
        /\ snd' = [snd EXCEPT !.pc = "clear", !.reqid = nod[a].reqid]
        /\ msgid' = msgid + 1
        /\ nod' = [nod EXCEPT ![a].cur_msgid = msgid + 1]
     \/ /\ ~ nod[a].need_write
        /\ snd' = [snd EXCEPT !.pc = "scan"]
        /\ UNCHANGED <<nod, msgid>>
  /\ UNCHANGED <<client, rpcTx, rpcRx, rcv, device>>

\* Slip: the request is sent, and still marked to be sent.
PackSentKeep ==
  LET a == snd.node IN
  /\ snd.pc = "clear"
  /\ snd' = [snd EXCEPT !.pc = "make"]
  /\ toDev' = Append(toDev, Frame([req |-> snd.reqid, call |-> nod[a].cmd], nod[a].cur_msgid))
  /\ UNCHANGED <<client, rpcTx, rpcRx, nod, msgid, rcv, fromDev, exec, setup>>

\* Its rest: the data is copied only now, after need_write was reset.
PackSent ==
  LET a == snd.node IN
  /\ snd.pc = "clear"
  /\ snd' = [snd EXCEPT !.pc = "make"]
  /\ nod' = [nod EXCEPT ![a].need_write = FALSE, ![a].init_flg = FALSE]
  /\ toDev' = Append(toDev, Frame([req |-> snd.reqid, call |-> nod[a].cmd], nod[a].cur_msgid))
  /\ UNCHANGED <<client, rpcTx, rpcRx, msgid, rcv, fromDev, exec, setup>>

-----------------------------------------------------------------------------
(* The receive thread.                                                     *)

\* Slip: the message id is not compared.
TakesAny(a, f) == nod[a].reqid = f.pack.req

\* normal_dev_pack_chk
Takes(a, f) == nod[a].reqid = f.pack.req /\ nod[a].cur_msgid = f.msgid

RecvFind ==
  /\ rcv.pc = "idle" /\ fromDev /= <<>>
  /\ fromDev' = Tail(fromDev)
  /\ IF \E a \in Apps : Takes(a, Head(fromDev))
       THEN \E a \in Apps :
              /\ Takes(a, Head(fromDev))
              /\ rcv' = [pc |-> "proc", node |-> a, pack |-> Head(fromDev).pack]
       ELSE UNCHANGED rcv
  /\ UNCHANGED <<client, rpcTx, rpcRx, nod, msgid, snd, toDev, exec, setup>>

RecvDone == rcv' = [pc |-> "idle", node |-> "none", pack |-> NoPack]

\* Slip: the reply is not passed on.
RecvProcSilent ==
  /\ rcv.pc = "proc"
  /\ nod' = [nod EXCEPT ![rcv.node].need_write = FALSE]
  /\ RecvDone
  /\ UNCHANGED <<client, rpcTx, rpcRx, msgid, snd, device>>

\* normal_dev_pack_proc: whatever was to be sent is not any more.
RecvProc ==
  /\ rcv.pc = "proc"
  /\ nod' = [nod EXCEPT ![rcv.node].need_write = FALSE, ![rcv.node].init_flg = FALSE]
  /\ rpcRx' = [rpcRx EXCEPT ![rcv.node] = Append(@, rcv.pack)]
  /\ RecvDone
  /\ UNCHANGED <<client, rpcTx, msgid, snd, device>>

-----------------------------------------------------------------------------
\* The device (external) does what it is asked and answers.
DevReply ==
  /\ toDev /= <<>>
  /\ exec' = Append(exec, Head(toDev).pack)
  /\ fromDev' = Append(fromDev, Head(toDev))
  /\ toDev' = Tail(toDev)
  /\ UNCHANGED <<client, rpcTx, rpcRx, daemon, setup>>

-----------------------------------------------------------------------------
SendThread == Scan \/ PackMake \/ PackSent
RecvThread == RecvFind \/ RecvProc
ReadThread(a) == ClientRecv(a) \/ ClientWake(a)

Next ==
  \/ \E a \in Apps :
       Call(a) \/ Wake(a) \/ Timeout(a) \/ ReadThread(a) \/ RpcRead(a)
  \/ SendThread \/ RecvThread \/ DevReply

Spec == Init /\ [][Next]_vars

\* Every thread goes on and the device answers; nothing makes a call time out.
Fairness ==
  /\ \A a \in Apps : WF_vars(Wake(a)) /\ WF_vars(ReadThread(a)) /\ WF_vars(RpcRead(a))
  /\ WF_vars(SendThread) /\ WF_vars(RecvThread) /\ WF_vars(DevReply)

FairSpec == Spec /\ Fairness

-----------------------------------------------------------------------------
(* Every variable holds a value of its type, and the ids of the nodes are  *)
(* ids that were given, or what a new node happened to read as.            *)
TypeOK ==
  /\ \A a \in Apps : log[a] \in Seq([req : Reqs, got : {Outcome("pending"), Outcome("timeout")} \cup Request])
  /\ ses \in [Apps -> [timed : BOOLEAN, wakeup_set : BOOLEAN,
                       sta : Request \cup {NoPack}, rx : {"read", "wake"}]]
  /\ \A a \in Apps : rpcTx[a] \in Seq(Request) /\ rpcRx[a] \in Seq(Request)
  /\ msgid \in Nat
  /\ nod \in [Apps -> [reqid : Reqs \cup {"none"}, cmd : Calls \cup {NoCall},
                       need_write : BOOLEAN, init_flg : BOOLEAN,
                       cur_msgid : setup.unset \cup 1 .. msgid]]
  /\ setup \in Setups
  /\ snd \in [pc : {"scan", "make", "clear"}, node : Apps \cup {"none"}, reqid : Reqs \cup {"none"}]
  /\ rcv \in [pc : {"idle", "proc"}, node : Apps \cup {"none"}, pack : Request \cup {NoPack}]
  /\ \A f \in ToSet(toDev) \cup ToSet(fromDev) : f.pack \in Request /\ f.msgid \in 1 .. msgid
  /\ exec \in Seq(Request)

(* No call of the application before its i-th timed out, and no new node   *)
(* read as one that waits for an answer.                                   *)
InStep(a, i) ==
  /\ setup.unset = {0}
  /\ \A j \in 1 .. i - 1 : log[a][j].got /= Outcome("timeout")

(***************************************************************************)
(* A call that succeeds returns the answer to its own request: none of     *)
(* another application and, unless an earlier call timed out, none of an   *)
(* earlier call.                                                           *)
(***************************************************************************)
Answered(a) ==
  {i \in DOMAIN log[a] : log[a][i].got \notin {Outcome("pending"), Outcome("timeout")}}

OwnAnswer ==
  \A a \in Apps : \A i \in Answered(a) :
    /\ setup.unset = {0} => log[a][i].got.call.app = a
    /\ InStep(a, i) =>
         log[a][i].got = [req |-> log[a][i].req, call |-> [app |-> a, no |-> i]]

(***************************************************************************)
(* The device acts on the data of a call only under the id of that call,   *)
(* unless an earlier call timed out.                                       *)
(***************************************************************************)
RunsWhatWasAsked ==
  \A e \in ToSet(exec) :
    InStep(e.call.app, e.call.no) => e.req = log[e.call.app][e.call.no].req

(***************************************************************************)
(* The device is asked at most once for every call: nothing on the way is  *)
(* sent again, whatever timed out.                                         *)
(***************************************************************************)
AtMostOnce == \A i, j \in DOMAIN exec : exec[i].call = exec[j].call => i = j

(***************************************************************************)
(* A call returns, with or without a timeout of its own, unless an earlier *)
(* call timed out.                                                         *)
(***************************************************************************)
CallReturns ==
  \A a \in Apps : Waiting(a) /\ InStep(a, Len(log[a])) ~> ~ Waiting(a)

\* A call returns its own answer; the types.
OwnAnswers == TypeOK /\ OwnAnswer

\* The device does what was asked, and does it once.
AskedOnce == RunsWhatWasAsked /\ AtMostOnce
=============================================================================
