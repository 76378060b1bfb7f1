------------------------------ MODULE MCSession ------------------------------
(***************************************************************************)
(* Part "session": the sessions of a client (module Session).  Part        *)
(* "ioctl": the ioctls of an open socket, with its node in the daemon      *)
(* (module SockIoctl).  The part that is not run keeps its first state.    *)
(***************************************************************************)
EXTENDS Session, TLC

CONSTANTS s1, s2, Callers, QueryOpts, UserOpts, MaxCalls
Pair(a, b) == s1 :> a @@ s2 :> b
MCKinds == {Pair("cb", "ioctl"), Pair("offline", "unused"), Pair("dbg", "unused"),
            Pair("plat", "unused"), Pair("hotplug", "unused")}

VARIABLES part, caller, calls, exit_flg, toRpc, toApp, toDevice, fromDevice, sock_ioctl_list,
          ioctl_act_flg, recv, send_cmd_list_head, workflg, wr_thread, rpc_thread, missed
K == INSTANCE SockIoctl

ioctlVars == <<caller, calls, exit_flg, toRpc, toApp, toDevice, fromDevice, sock_ioctl_list,
               ioctl_act_flg, recv, send_cmd_list_head, workflg, wr_thread, rpc_thread, missed>>
allVars == <<part, vars, ioctlVars>>

PartsInit ==
  /\ Init /\ K!IoctlInit /\ part \in {"session", "ioctl"}
  /\ part = "ioctl" => kind = Pair("dbg", "unused")

OfSession(A) == part = "session" /\ A /\ UNCHANGED <<part, ioctlVars>>
OfIoctl(A) == part = "ioctl" /\ A /\ UNCHANGED <<part, vars>>

PartsNext ==
  \/ part = "session" /\ Next /\ UNCHANGED <<part, ioctlVars>>
  \/ part = "ioctl" /\ K!IoctlNext /\ UNCHANGED <<part, vars>>

\* A behaviour is of one part, so a condition holds one action of each.
Both(A, B) == OfSession(A) \/ OfIoctl(B)
PartsSpec ==
  /\ PartsInit /\ [][PartsNext]_allVars
  /\ WF_allVars(Both(Closing, K!RpcThread)) /\ WF_allVars(OfIoctl(K!AppRead))
  /\ WF_allVars(Both(Caller(s1), K!WriterThread)) /\ WF_allVars(Both(Caller(s2), K!RecvThread))
  /\ WF_allVars(Both(Reader(s1), K!PackMake)) /\ WF_allVars(Both(Reader(s2), K!Device))
  /\ WF_allVars(OfSession(Answer(s1))) /\ WF_allVars(OfSession(Answer(s2)))
  /\ \A c \in Callers : WF_allVars(OfIoctl(K!Return(c)))

(* Every ioctl of an open socket returns with the answer to its own        *)
(* request, whatever the order of requests and answers, and a connection   *)
(* that was closed frees its rpc node (OwnIoctlAnswers and IoctlsReturn of *)
(* module SockIoctl).                                                      *)
SocketIoctls == []K!OwnIoctlAnswers /\ K!IoctlsReturn
=============================================================================
