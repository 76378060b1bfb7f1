----------------------------- MODULE SockIoctl -----------------------------
(***************************************************************************)
(* bb_socket_ioctl on one open socket, from the threads of the application *)
(* to the daemon or the device and back: session_socket.c of the client,   *)
(* sock_node_rpc.c and sock_node.c of the daemon with the writer thread of *)
(* the connection, and how the connection ends.  A request has no number:  *)
(* answers find the request in the daemon, and the callers in the client,  *)
(* by their opt alone.                                                     *)
(*                                                                         *)
(* The application calls for one opt at a time (or two callers get one     *)
(* answer), hangs up when nothing is on the way in the daemon (or the      *)
(* answer of the device goes to a node that is gone), and sets no tx limit *)
(* (the request carries none, and the daemon reads it from a null          *)
(* pointer).  The device is external and stays.  Left out: refusals, which *)
(* this client's requests do not meet.                                     *)
(***************************************************************************)
EXTENDS Integers, SequencesExt

CONSTANTS
  Callers,            \* threads that call bb_socket_ioctl
  QueryOpts, UserOpts, \* opts that the daemon answers, or the device
  MaxCalls            \* bound: calls

VARIABLES
  caller,             \* bb_socket_com_opt: place, opt, own request, answer
  calls,              \* bound: calls made
  exit_flg,           \* the session is closed
  toRpc, toApp,       \* the connection
  toDevice, fromDevice,
  sock_ioctl_list, ioctl_act_flg, \* of the socket node
  recv,               \* the receive thread of the device
  send_cmd_list_head, workflg, wr_thread, \* of the rpc node
  rpc_thread, missed  \* sock_rpc_node_end; history: the broadcast woke nobody

appVars == <<caller, calls, exit_flg>>
linkVars == <<toDevice, fromDevice>>
nodeVars == <<sock_ioctl_list, ioctl_act_flg>>
writerVars == <<send_cmd_list_head, workflg, wr_thread>>
endVars == <<rpc_thread, missed>>
ioctlVars == <<appVars, toRpc, toApp, linkVars, nodeVars, recv, writerVars, endVars>>

Idle == [pc |-> "idle", opt |-> "none", n |-> 0, got |-> 0]
Nobody == [opt |-> "none", n |-> 0]

IoctlInit ==
  /\ caller = [c \in Callers |-> Idle] /\ calls = 0 /\ exit_flg = FALSE
  /\ toRpc = << >> /\ toApp = << >> /\ toDevice = << >> /\ fromDevice = << >>
  /\ sock_ioctl_list = << >> /\ ioctl_act_flg = FALSE
  /\ recv = [pc |-> "idle", pack |-> Nobody, rpc |-> FALSE]
  /\ send_cmd_list_head = << >> /\ workflg = TRUE /\ wr_thread = "test"
  /\ rpc_thread = "run" /\ missed = FALSE

-----------------------------------------------------------------------------
(* The client.                                                             *)
\* bb_socket_ioctl and bb_socket_com_opt
Call(c) ==
  /\ caller[c].pc = "idle" /\ ~ exit_flg /\ calls < MaxCalls /\ calls' = calls + 1
  /\ \E opt \in QueryOpts \cup UserOpts :
       /\ \A d \in Callers : caller[d].pc = "wait" => caller[d].opt # opt
       /\ caller' = [caller EXCEPT ![c] = [pc |-> "wait", opt |-> opt, n |-> calls', got |-> 0]]
       /\ toRpc' = Append(toRpc, [opt |-> opt, n |-> calls'])
  /\ UNCHANGED <<exit_flg, toApp, linkVars, nodeVars, recv, writerVars, endVars>>

\* wk_with_sp_fix_rxlen
ForMe(c, pack) == caller[c].pc = "wait" /\ caller[c].opt = pack.opt

\* so_rpc_cb shows a pack to all who wait.
AppRead ==
  /\ toApp # << >> /\ ~ exit_flg /\ toApp' = Tail(toApp)
  /\ caller' = [c \in Callers |->
                  IF ForMe(c, Head(toApp)) THEN [caller[c] EXCEPT !.got = Head(toApp).n] ELSE caller[c]]
  /\ UNCHANGED <<calls, exit_flg, toRpc, linkVars, nodeVars, recv, writerVars, endVars>>

Return(c) ==
  /\ caller[c].pc = "wait" /\ (caller[c].got # 0 \/ exit_flg)
  /\ caller' = [caller EXCEPT ![c] = Idle]
  /\ UNCHANGED <<calls, exit_flg, toRpc, toApp, linkVars, nodeVars, recv, writerVars, endVars>>

HangUp ==
  /\ ~ exit_flg /\ exit_flg' = TRUE
  /\ toRpc = << >> /\ sock_ioctl_list = << >> /\ recv.pc = "idle"
  /\ UNCHANGED <<caller, calls, toRpc, toApp, linkVars, nodeVars, recv, writerVars, endVars>>

-----------------------------------------------------------------------------
(* The writer thread of the connection.  From its look at workflg to its   *)
(* sleep it has mtx, which workflg does not need.                          *)
MtxFree == wr_thread # "wait"
Woken == IF wr_thread = "asleep" THEN "test" ELSE wr_thread

\* Slip: nobody is woken.
SendMsgQuietly(pack) ==
  MtxFree /\ send_cmd_list_head' = Append(send_cmd_list_head, pack) /\ UNCHANGED <<workflg, wr_thread>>

\* sock_rpc_send_msg
SendMsg(pack) ==
  /\ MtxFree /\ send_cmd_list_head' = Append(send_cmd_list_head, pack)
  /\ wr_thread' = Woken /\ UNCHANGED workflg

WTest ==
  /\ wr_thread = "test"
  /\ wr_thread' = IF ~ workflg THEN "end" ELSE IF send_cmd_list_head = << >> THEN "wait" ELSE "test"
  /\ IF workflg /\ send_cmd_list_head # << >>
     THEN /\ toApp' = Append(toApp, Head(send_cmd_list_head))
          /\ send_cmd_list_head' = Tail(send_cmd_list_head)
     ELSE UNCHANGED <<toApp, send_cmd_list_head>>
  /\ UNCHANGED <<appVars, toRpc, linkVars, nodeVars, recv, workflg, endVars>>

WWait ==
  /\ wr_thread = "wait" /\ wr_thread' = "asleep"
  /\ UNCHANGED <<appVars, toRpc, toApp, linkVars, nodeVars, recv, send_cmd_list_head, workflg, endVars>>

-----------------------------------------------------------------------------
(* The rpc thread: sp_opt_proc, and sock_rpc_node_end.                     *)
Reading == rpc_thread = "run" /\ toRpc # << >> /\ toRpc' = Tail(toRpc)

\* so_query_len, so_get_tx_limit: answered at once.
SpQuery ==
  /\ Reading /\ Head(toRpc).opt \in QueryOpts /\ SendMsg(Head(toRpc))
  /\ UNCHANGED <<appVars, toApp, linkVars, nodeVars, recv, endVars>>

\* so_user_base: for the device.
SpUser ==
  /\ Reading /\ Head(toRpc).opt \in UserOpts
  /\ sock_ioctl_list' = Append(sock_ioctl_list, [pack |-> Head(toRpc), txflg |-> FALSE])
  /\ ioctl_act_flg' = TRUE
  /\ UNCHANGED <<appVars, toApp, linkVars, recv, writerVars, endVars>>

EndFlush ==
  /\ rpc_thread = "run" /\ exit_flg /\ toRpc = << >> /\ MtxFree
  /\ rpc_thread' = "stop" /\ send_cmd_list_head' = << >>
  /\ UNCHANGED <<appVars, toRpc, toApp, linkVars, nodeVars, recv, workflg, wr_thread, missed>>

\* workflg and the broadcast, without mtx.
EndStop ==
  /\ rpc_thread = "stop" /\ rpc_thread' = "wake" /\ workflg' = FALSE
  /\ UNCHANGED <<appVars, toRpc, toApp, linkVars, nodeVars, recv, send_cmd_list_head, wr_thread, missed>>

EndWake ==
  /\ rpc_thread = "wake" /\ rpc_thread' = "join"
  /\ wr_thread' = Woken /\ missed' = (wr_thread = "wait")
  /\ UNCHANGED <<appVars, toRpc, toApp, linkVars, nodeVars, recv, send_cmd_list_head, workflg>>

EndJoin ==
  /\ rpc_thread = "join" /\ wr_thread = "end" /\ rpc_thread' = "freed"
  /\ UNCHANGED <<appVars, toRpc, toApp, linkVars, nodeVars, recv, writerVars, missed>>

-----------------------------------------------------------------------------
(* The threads of the device.                                              *)
\* _sock_dev_pack_make: the first request that was not sent.
PackMake ==
  LET new == {i \in DOMAIN sock_ioctl_list : ~ sock_ioctl_list[i].txflg}
      i == CHOOSE k \in new : \A j \in new : k <= j
  IN
  /\ ioctl_act_flg
  /\ IF new = {} THEN ioctl_act_flg' = FALSE /\ UNCHANGED <<sock_ioctl_list, toDevice>>
     ELSE /\ sock_ioctl_list' = [sock_ioctl_list EXCEPT ![i].txflg = TRUE]
          /\ toDevice' = Append(toDevice, sock_ioctl_list[i].pack) /\ UNCHANGED ioctl_act_flg
  /\ UNCHANGED <<appVars, toRpc, toApp, fromDevice, recv, writerVars, endVars>>

\* The device answers one of the requests it has.
Device ==
  /\ \E i \in DOMAIN toDevice :
       fromDevice' = Append(fromDevice, toDevice[i]) /\ toDevice' = RemoveAt(toDevice, i)
  /\ UNCHANGED <<appVars, toRpc, toApp, nodeVars, recv, writerVars, endVars>>

\* sock_dev_pack_proc: sockrpc is read before the request is looked for.
RecvPack ==
  /\ recv.pc = "idle" /\ fromDevice # << >> /\ fromDevice' = Tail(fromDevice)
  /\ recv' = [pc |-> "find", pack |-> Head(fromDevice), rpc |-> rpc_thread = "run"]
  /\ UNCHANGED <<appVars, toRpc, toApp, toDevice, nodeVars, writerVars, endVars>>

\* sock_dev_bb_ioctl: the first request with the opt.
RecvFind ==
  LET same == {i \in DOMAIN sock_ioctl_list : sock_ioctl_list[i].pack.opt = recv.pack.opt}
      i == CHOOSE k \in same : \A j \in same : k <= j
  IN
  /\ recv.pc = "find"
  /\ sock_ioctl_list' = IF same = {} THEN sock_ioctl_list ELSE RemoveAt(sock_ioctl_list, i)
  /\ recv' = [recv EXCEPT !.pc = IF same = {} THEN "idle" ELSE "send"]
  /\ UNCHANGED <<appVars, toRpc, toApp, linkVars, ioctl_act_flg, writerVars, endVars>>

RecvSend ==
  /\ recv.pc = "send" /\ SendMsg(recv.pack)
  /\ recv' = [recv EXCEPT !.pc = "idle", !.pack = Nobody]
  /\ UNCHANGED <<appVars, toRpc, toApp, linkVars, nodeVars, endVars>>

-----------------------------------------------------------------------------
RpcThread == SpQuery \/ SpUser \/ EndFlush \/ EndStop \/ EndWake \/ EndJoin
WriterThread == WTest \/ WWait
RecvThread == RecvPack \/ RecvFind \/ RecvSend
IoctlNext ==
  \/ AppRead \/ RpcThread \/ WriterThread \/ RecvThread \/ PackMake \/ Device \/ HangUp
  \/ \E c \in Callers : Call(c) \/ Return(c)

\* Threads run, and the device answers.
IoctlFair ==
  /\ WF_ioctlVars(AppRead) /\ \A c \in Callers : WF_ioctlVars(Return(c))
  /\ WF_ioctlVars(RpcThread) /\ WF_ioctlVars(WriterThread) /\ WF_ioctlVars(RecvThread)
  /\ WF_ioctlVars(PackMake) /\ WF_ioctlVars(Device)

-----------------------------------------------------------------------------
(* A caller gets the answer to its own request, and an answer of the       *)
(* device goes to a node that is there.                                    *)
OwnIoctlAnswers ==
  /\ \A c \in Callers : caller[c].got \in {0, caller[c].n}
  /\ recv.pc = "send" => recv.rpc /\ rpc_thread # "freed"

(* Every call returns, and the rpc node of a connection that was closed is *)
(* freed: unless the broadcast that ends the writer thread comes between   *)
(* its look at workflg and its sleep.                                      *)
IoctlsReturn ==
  /\ \A c \in Callers : caller[c].pc = "wait" ~> caller[c].pc = "idle"
  /\ exit_flg ~> (rpc_thread = "freed" \/ missed)
=============================================================================
