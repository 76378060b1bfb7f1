------------------------------ MODULE MCNodes -------------------------------
(***************************************************************************)
(* The two other kinds of nodes of a work list, for TLC.  Part "callback": *)
(* module Callback with one application, or two that subscribe the same    *)
(* event, which the device may refuse, and may be unplugged.  Part         *)
(* "ioctl": module Ioctl with one or two applications that make one to     *)
(* three calls with the same or different ids.  The part that is not run   *)
(* keeps a first state.                                                    *)
(***************************************************************************)
EXTENDS Callback, TLC

CONSTANTS Apps, Reqs, MaxCalls, Calling

VARIABLES part, log, ses, rpcTx, rpcRx, nodes, msgid, send, recv, down, up, exec, calling
callbackVars == vars
ioctlVars == <<log, ses, rpcTx, rpcRx, nodes, msgid, send, recv, down, up, exec, calling>>
allVars == <<part, callbackVars, ioctlVars>>

K == INSTANCE Ioctl WITH Setups <- Calling, nod <- nodes, snd <- send, rcv <- recv,
                         toDev <- down, fromDev <- up, setup <- calling

ASSUME AppsAssumption == "none" \notin Apps
ASSUME CallsAssumption == MaxCalls \in Nat /\ Calling \subseteq K!Setup

TwoSubs == {"s1", "s2"}
Kind(subs, base, offline, fail, unplug) ==
  [subs |-> subs, base |-> base, offline |-> offline, fail |-> fail, unplug |-> unplug]

\* Two of an announced event.
Announced == Kind(TwoSubs, TRUE, FALSE, FALSE, FALSE)
\* Two of BB_EVENT_OFFLINE, whose device is unplugged.
OfflineEvent == Kind(TwoSubs, TRUE, TRUE, FALSE, TRUE)
\* One of an event without a node, that the device may refuse.
NewEvent == Kind({"s1"}, FALSE, FALSE, TRUE, FALSE)
\* One of an announced event, that the device may refuse, or is unplugged.
Refused == Kind({"s1"}, TRUE, FALSE, TRUE, TRUE)
AllEvents == {Announced, OfflineEvent, NewEvent, Refused}

TwoApps == {"a1", "a2"}
TwoReqs == {"A", "B"}
Calls(n1, n2, timed, unset) ==
  [calls |-> "a1" :> n1 @@ "a2" :> n2, timed |-> timed, unset |-> unset]

\* Two without a timeout; one that may time out, alone and beside another;
\* two whose nodes start with any message id.
AllCalls == {Calls(2, 2, {}, {0}), Calls(3, 0, {"a1"}, {0}),
             Calls(2, 1, {"a1"}, {0}), Calls(1, 1, {}, {0, 1, 2})}

PartsInit ==
  /\ Init /\ K!Init /\ part \in {"callback", "ioctl"}
  /\ part = "callback" => calling = Calls(2, 2, {}, {0})
  /\ part = "ioctl" => setup = Announced

OfCallback(A) == part = "callback" /\ A /\ UNCHANGED <<part, ioctlVars>>
OfIoctl(A) == part = "ioctl" /\ A /\ UNCHANGED <<part, callbackVars>>

PartsNext ==
  \/ part = "callback" /\ Next /\ UNCHANGED <<part, ioctlVars>>
  \/ part = "ioctl" /\ K!Next /\ UNCHANGED <<part, callbackVars>>

(* The fairness of the two modules.                                        *)
PartsSpec ==
  /\ PartsInit /\ [][PartsNext]_allVars
  /\ \A s \in Subs :
       /\ WF_allVars(OfCallback(Rpc(s)))
       /\ WF_allVars(OfCallback(Leave(s) /\ (app[s] = "refused" \/ ~ rpc[s].conn)))
  /\ WF_allVars(OfCallback(SendThread)) /\ WF_allVars(OfCallback(RecvThread))
  /\ WF_allVars(OfCallback(DevReply)) /\ WF_allVars(OfCallback(Poll))
  /\ \A a \in Apps : /\ WF_allVars(OfIoctl(K!Wake(a))) /\ WF_allVars(OfIoctl(K!ReadThread(a)))
                     /\ WF_allVars(OfIoctl(K!RpcRead(a)))
  /\ WF_allVars(OfIoctl(K!SendThread)) /\ WF_allVars(OfIoctl(K!RecvThread))
  /\ WF_allVars(OfIoctl(K!DevReply))

(* OwnAnswers of module Ioctl.                                             *)
OwnAnswers == K!OwnAnswers
(* AskedOnce of module Ioctl.                                              *)
AskedOnce == K!AskedOnce
(* CallReturns of module Ioctl.                                            *)
CallReturns == K!CallReturns
=============================================================================
