------------------------------ MODULE SockNode ------------------------------
(***************************************************************************)
(* The life of baseband sockets in the daemon: how a connection's rpc node *)
(* and its node in the device's work list come and go around the so_open   *)
(* and so_close exchanges with the device (daemon/sock_node.c,             *)
(* daemon/sock_node_rpc.c, daemon/usb_event_list.c, daemon/base_node.c).   *)
(*                                                                         *)
(* The sessions are connections that open the same slot and port, the only *)
(* ones whose nodes can take each other's replies.  Threads: one rpc       *)
(* thread per connection, the send and the receive thread of the device,   *)
(* and the poll thread that tears the device down.  The application and    *)
(* the device are external, seen from what the daemon exchanges with them. *)
(*                                                                         *)
(* Left out: the data of an open socket (module SockStream) and the        *)
(* requests of so_user_base.  A node that was freed keeps what it held;    *)
(* HeldNodesAlive says when no step reads or writes one.                   *)
(***************************************************************************)
EXTENDS Integers, SequencesExt

CONSTANTS
  Sessions,            \* connections that open the slot and port
  Setups               \* what may happen to them: see Setup

NoSession == "none"
ASSUME SessionsAssumption == NoSession \notin Sessions

(* used: the sessions there are; overlap: when one may start (Connect);    *)
(* exit: an application may go away while its open is out; unplug: the     *)
(* device may be unplugged.                                                *)
Setup == [used : SUBSET Sessions, overlap : {"never", "closing", "any"},
          exit : BOOLEAN, unplug : BOOLEAN]
ASSUME SetupsAssumption == Setups \subseteq Setup

VARIABLES
  app,                 \* what each application did or was told
  rpc,                 \* the connections: thread position, pointer to the node
  nod,                 \* the socket nodes
  work_list,           \* the work list of the device, head first
  snd, rcv,            \* the send and the receive thread
  toDev, fromDev,      \* frames on the way
  devOpen,             \* the device has the socket open
  plug,                \* "in", "out", "teardown" (del_worknod waits), "stopped"
  cls_head,            \* the nodes del_worknod waits for
  setup                \* the setup of this behaviour

nodeVars == <<nod, work_list>>
devVars == <<toDev, fromDev, devOpen>>
plugVars == <<plug, cls_head, setup>>
vars == <<app, rpc, nodeVars, snd, rcv, devVars, plugVars>>

Open(sta) == [opt |-> "open", sta |-> sta]
Closed == [opt |-> "close", sta |-> 0]
HasOpened == 257       \* 0x101: the device has the socket open already
Failed == -1           \* any other failure of the device

Connection == [pc : {"none", "start", "ready", "end", "done"},
               conn : BOOLEAN, sockdev : BOOLEAN]
Node == [mem : {"none", "live", "freed"}, bound : BOOLEAN, has_opened : BOOLEAN,
         freeflag : BOOLEAN, sockrpc : BOOLEAN,
         sta : {"not_init", "need_send_cmd", "wait_usb_cmd", "can_send_data",
                "need_send_close", "wait_usb_close"}]

Init ==
  /\ app = [s \in Sessions |-> "idle"]
  /\ rpc = [s \in Sessions |-> [pc |-> "none", conn |-> FALSE, sockdev |-> FALSE]]
  /\ nod = [s \in Sessions |->
              [mem |-> "none", bound |-> FALSE, has_opened |-> FALSE,
               freeflag |-> FALSE, sockrpc |-> FALSE, sta |-> "not_init"]]
  /\ work_list = <<>>
  /\ snd = [pc |-> "scan", node |-> NoSession, rpc |-> FALSE]
  /\ rcv = [pc |-> "idle", node |-> NoSession, pack |-> Closed]
  /\ toDev = <<>> /\ fromDev = <<>> /\ devOpen = FALSE
  /\ plug = "in" /\ cls_head = {} /\ setup \in Setups

Gone(s) ==
  \/ app[s] = "idle"
  \/ rpc[s].pc = "done" /\ nod[s].mem = "freed"

-----------------------------------------------------------------------------
(* The application: bb_socket_open, and bb_socket_close, which only closes *)
(* the connection.  A session starts when no earlier one left a trace      *)
(* ("never"), when every earlier one was closed by its application         *)
(* ("closing"), or at any time ("any").                                    *)
Connect(s) ==
  /\ s \in setup.used /\ app[s] = "idle" /\ plug = "in"
  /\ \A t \in Sessions :
       \/ setup.overlap = "any"
       \/ setup.overlap = "closing" /\ app[t] \in {"idle", "closed"}
       \/ Gone(t)
  /\ app' = [app EXCEPT ![s] = "opening"]
  /\ rpc' = [rpc EXCEPT ![s].conn = TRUE]
  /\ UNCHANGED <<nodeVars, snd, rcv, devVars, plugVars>>

\* It closes its socket, or exits, or sees that the daemon hung up.
Close(s) ==
  /\ \/ app[s] \in {"open", "refused"}
     \/ app[s] = "opening" /\ (setup.exit \/ ~ rpc[s].conn)
  /\ app' = [app EXCEPT ![s] = "closed"]
  /\ rpc' = [rpc EXCEPT ![s].conn = FALSE]
  /\ UNCHANGED <<nodeVars, snd, rcv, devVars, plugVars>>

\* The answer to so_open reaches an application that still waits for it.
Told(s, answer) ==
  app' = IF app[s] = "opening" /\ rpc[s].conn THEN [app EXCEPT ![s] = answer] ELSE app

-----------------------------------------------------------------------------
(* The rpc thread of a connection.                                         *)

(* sock_rpc_nod_start: the node joins the list at its head before anything *)
(* wrote its slot and port, which may read as these by chance.             *)
RpcStart(s) ==
  /\ app[s] /= "idle" /\ rpc[s].pc = "none" /\ plug /= "stopped"
  /\ rpc' = [rpc EXCEPT ![s].pc = "start", ![s].sockdev = TRUE]
  /\ \E same \in BOOLEAN :
       nod' = [nod EXCEPT ![s].mem = "live", ![s].sockrpc = TRUE, ![s].bound = same]
  /\ work_list' = <<s>> \o work_list
  /\ UNCHANGED <<app, snd, rcv, devVars, plugVars>>

(* so_open: the node takes the address and asks for the open command, or   *)
(* the parameters are refused.  Without a node there is no answer.         *)
RpcOpen(s) ==
  /\ rpc[s].pc = "start"
  /\ rpc' = [rpc EXCEPT ![s].pc = "ready"]
  /\ \/ /\ rpc[s].sockdev
        /\ nod' = [nod EXCEPT ![s].bound = TRUE, ![s].sta = "need_send_cmd"]
        /\ UNCHANGED app
     \/ /\ rpc[s].sockdev
        /\ Told(s, "refused") /\ UNCHANGED nod
     \/ ~ rpc[s].sockdev /\ UNCHANGED <<app, nod>>
  /\ UNCHANGED <<work_list, snd, rcv, devVars, plugVars>>

(* sock_rpc_node_end, once the connection is down: under one lock the rpc  *)
(* node gives up its pointer, under another the socket node is told.       *)
RpcEnd(s) ==
  /\ rpc[s].pc = "ready" /\ ~ rpc[s].conn
  /\ rpc' = [rpc EXCEPT ![s].sockdev = FALSE,
                        ![s].pc = IF rpc[s].sockdev THEN "end" ELSE "done"]
  /\ UNCHANGED <<app, nodeVars, snd, rcv, devVars, plugVars>>

RpcEndNode(s) ==
  /\ rpc[s].pc = "end"
  /\ rpc' = [rpc EXCEPT ![s].pc = "done"]
  /\ nod' = [nod EXCEPT ![s].sta = "need_send_close", ![s].sockrpc = FALSE]
  /\ UNCHANGED <<app, work_list, snd, rcv, devVars, plugVars>>

-----------------------------------------------------------------------------
(* The send thread.                                                        *)

(* sock_dev_need_write has a side effect: a node to be closed that never   *)
(* opened is marked to be freed, and the scan goes on.                     *)
ToFree(s) == nod[s].sta = "need_send_close" /\ ~ nod[s].has_opened
ToWork(s) ==
  \/ nod[s].freeflag
  \/ nod[s].sta = "need_send_cmd"
  \/ nod[s].sta = "need_send_close" /\ nod[s].has_opened

Marked(passed) ==
  [s \in Sessions |-> [nod[s] EXCEPT !.freeflag = @ \/ (s \in passed /\ ToFree(s))]]

\* Slip: a node to be freed stays in the list.
ScanKeeps ==
  /\ snd.pc = "scan" /\ plug /= "stopped"
  /\ \E i \in DOMAIN work_list :
       LET s == work_list[i] IN
       /\ \/ ToWork(s) \/ ToFree(s)
       /\ nod' = Marked({s})
       /\ snd' = [snd EXCEPT !.pc = IF nod'[s].freeflag THEN "free" ELSE "picked", !.node = s]
  /\ UNCHANGED <<app, rpc, work_list, rcv, devVars, plugVars>>

(* The list is scanned for the first node with work; one marked to be      *)
(* freed leaves the list.                                                  *)
Scan ==
  /\ snd.pc = "scan" /\ plug /= "stopped"
  /\ \/ \E i \in DOMAIN work_list :
          LET s == work_list[i] IN
          /\ ToWork(s) /\ \A j \in 1 .. i - 1 : ~ ToWork(work_list[j])
          /\ nod' = Marked({work_list[j] : j \in 1 .. i - 1})
          /\ snd' = [snd EXCEPT !.pc = IF nod[s].freeflag THEN "free" ELSE "picked",
                                !.node = s]
          /\ work_list' = IF nod[s].freeflag THEN RemoveAt(work_list, i) ELSE work_list
     \/ /\ \A s \in ToSet(work_list) : ~ ToWork(s)
        /\ \E s \in ToSet(work_list) : ToFree(s)
        /\ nod' = Marked(ToSet(work_list))
        /\ UNCHANGED <<snd, work_list>>
  /\ UNCHANGED <<app, rpc, rcv, devVars, plugVars>>

(* The mark is looked at once more without the lock: a node marked in the  *)
(* meantime is freed although it is still in the list.                     *)
Recheck ==
  /\ snd.pc = "picked"
  /\ snd' = [snd EXCEPT !.pc = IF nod[snd.node].freeflag THEN "free" ELSE "make"]
  /\ UNCHANGED <<app, rpc, nodeVars, rcv, devVars, plugVars>>

\* What is sent to an unplugged device goes nowhere.
Send(cmd) == toDev' = IF plug = "in" THEN Append(toDev, cmd) ELSE toDev

(* One packet after the other, until there is none to make.                *)
PackMake ==
  LET s == snd.node IN
  /\ snd.pc = "make"
  /\ \/ /\ ~ nod[s].freeflag /\ nod[s].sta = "need_send_cmd"
        /\ nod' = [nod EXCEPT ![s].sta = "wait_usb_cmd"]
        /\ Send("open") /\ UNCHANGED snd
     \/ /\ ~ nod[s].freeflag /\ nod[s].sta = "need_send_close" /\ nod[s].has_opened
        /\ nod' = [nod EXCEPT ![s].sta = "wait_usb_close"]
        /\ Send("close") /\ UNCHANGED snd
     \/ /\ ~ nod[s].freeflag => ~ ToWork(s)
        /\ nod' = Marked({s})
        /\ snd' = [snd EXCEPT !.pc = "scan"] /\ UNCHANGED toDev
  /\ UNCHANGED <<app, rpc, work_list, rcv, fromDev, devOpen, plugVars>>

(* sock_dev_deinit: under the node's lock the pointer to the rpc node is   *)
(* taken, under the rpc node's lock it is told and its connection is       *)
(* closed; then the node is freed and a waiting teardown told.             *)
Deinit ==
  /\ snd.pc = "free"
  /\ snd' = [snd EXCEPT !.pc = "freed", !.rpc = nod[snd.node].sockrpc]
  /\ nod' = [nod EXCEPT ![snd.node].sockrpc = FALSE]
  /\ UNCHANGED <<app, rpc, work_list, rcv, devVars, plugVars>>

DeinitRpc ==
  LET s == snd.node IN
  /\ snd.pc = "freed"
  /\ rpc' = IF snd.rpc THEN [rpc EXCEPT ![s].sockdev = FALSE, ![s].conn = FALSE] ELSE rpc
  /\ nod' = [nod EXCEPT ![s].mem = "freed"]
  /\ cls_head' = cls_head \ {s}
  /\ snd' = [pc |-> "scan", node |-> NoSession, rpc |-> FALSE]
  /\ UNCHANGED <<app, work_list, rcv, devVars, plug, setup>>

-----------------------------------------------------------------------------
(* The receive thread.                                                     *)

\* sock_dev_pack_chk
Takes(s, pack) == nod[s].bound /\ ~ (nod[s].has_opened /\ pack.opt = "open")

(* The reply goes to the first node of the list that takes it, looked up   *)
(* under the lock and handled after it was released.                       *)
RecvFind ==
  /\ rcv.pc = "idle" /\ fromDev /= <<>>
  /\ fromDev' = Tail(fromDev)
  /\ \/ \E i \in DOMAIN work_list :
          /\ Takes(work_list[i], Head(fromDev))
          /\ \A j \in 1 .. i - 1 : ~ Takes(work_list[j], Head(fromDev))
          /\ rcv' = [pc |-> "proc", node |-> work_list[i], pack |-> Head(fromDev)]
     \/ /\ \A s \in ToSet(work_list) : ~ Takes(s, Head(fromDev))
        /\ UNCHANGED rcv
  /\ UNCHANGED <<app, rpc, nodeVars, snd, toDev, devOpen, plugVars>>

RecvDone == rcv' = [pc |-> "idle", node |-> NoSession, pack |-> Closed]

\* Slip: any reply is taken for that to so_close.
RecvClosedAny ==
  /\ rcv.pc = "proc"
  /\ nod' = [nod EXCEPT ![rcv.node].freeflag = TRUE]
  /\ rcv' = [rcv EXCEPT !.pc = "notify"]
  /\ UNCHANGED <<app, rpc, work_list, snd, devVars, plugVars>>

(* bn_set_free: the flag, and then the list the node is in, read from the  *)
(* node, to wake the send thread up; it may have freed the node by then.   *)
RecvClosed ==
  /\ rcv.pc = "proc" /\ rcv.pack.opt = "close"
  /\ nod' = [nod EXCEPT ![rcv.node].freeflag = TRUE]
  /\ rcv' = [rcv EXCEPT !.pc = "notify"]
  /\ UNCHANGED <<app, rpc, work_list, snd, devVars, plugVars>>

RecvNotify ==
  /\ rcv.pc = "notify" /\ RecvDone
  /\ UNCHANGED <<app, rpc, nodeVars, snd, devVars, plugVars>>

(* The reply to so_open: looked at only in sock_wait_usb_cmd, and only     *)
(* while the application is there; otherwise the socket is to be closed.   *)
RecvOpened ==
  LET s == rcv.node IN
  /\ rcv.pc = "proc" /\ rcv.pack.opt = "open"
  /\ \/ /\ nod[s].sta = "wait_usb_cmd" /\ nod[s].sockrpc
        /\ rcv' = [rcv EXCEPT !.pc = "answer"] /\ UNCHANGED nod
     \/ /\ nod[s].sta = "wait_usb_cmd" /\ ~ nod[s].sockrpc
        /\ nod' = [nod EXCEPT ![s].sta = "need_send_close"] /\ RecvDone
     \/ /\ nod[s].sta /= "wait_usb_cmd"
        /\ UNCHANGED nod /\ RecvDone
  /\ UNCHANGED <<app, rpc, work_list, snd, devVars, plugVars>>

(* Slips: any reply means success; a failure is not passed on.             *)
RecvAnswerUnchecked ==
  /\ rcv.pc = "answer"
  /\ nod' = [nod EXCEPT ![rcv.node].sta = "can_send_data", ![rcv.node].has_opened = TRUE]
  /\ Told(rcv.node, "open") /\ RecvDone
  /\ UNCHANGED <<rpc, work_list, snd, devVars, plugVars>>

RecvAnswerSilent ==
  LET opened == rcv.pack.sta = 0 IN
  /\ rcv.pc = "answer"
  /\ nod' = [nod EXCEPT ![rcv.node].sta = IF opened THEN "can_send_data" ELSE "not_init",
                        ![rcv.node].has_opened = @ \/ opened]
  /\ IF opened THEN Told(rcv.node, "open") ELSE UNCHANGED app
  /\ RecvDone
  /\ UNCHANGED <<rpc, work_list, snd, devVars, plugVars>>

(* The state is written without the lock the rpc thread ends under.        *)
RecvAnswer ==
  LET s == rcv.node
      opened == rcv.pack.sta = 0
  IN  /\ rcv.pc = "answer"
      /\ nod' = [nod EXCEPT ![s].sta = IF opened THEN "can_send_data" ELSE "not_init",
                            ![s].has_opened = @ \/ opened]
      /\ Told(s, IF opened THEN "open" ELSE "refused")
      /\ RecvDone
      /\ UNCHANGED <<rpc, work_list, snd, devVars, plugVars>>

-----------------------------------------------------------------------------
(* The device (external).                                                  *)

DevOpen ==
  /\ toDev /= <<>> /\ Head(toDev) = "open"
  /\ toDev' = Tail(toDev)
  /\ \/ /\ ~ devOpen /\ devOpen' = TRUE /\ fromDev' = Append(fromDev, Open(0))
     \/ /\ devOpen /\ fromDev' = Append(fromDev, Open(HasOpened)) /\ UNCHANGED devOpen
     \/ /\ ~ devOpen /\ fromDev' = Append(fromDev, Open(Failed)) /\ UNCHANGED devOpen
  /\ UNCHANGED <<app, rpc, nodeVars, snd, rcv, plugVars>>

DevClose ==
  /\ toDev /= <<>> /\ Head(toDev) = "close"
  /\ toDev' = Tail(toDev)
  /\ devOpen' = FALSE /\ fromDev' = Append(fromDev, Closed)
  /\ UNCHANGED <<app, rpc, nodeVars, snd, rcv, plugVars>>

Unplug ==
  /\ setup.unplug /\ plug = "in"
  /\ plug' = "out"
  /\ toDev' = <<>> /\ fromDev' = <<>> /\ devOpen' = FALSE
  /\ UNCHANGED <<app, rpc, nodeVars, snd, rcv, cls_head, setup>>

(* The poll thread: del_worknod asks every node of the list to close       *)
(* (sock_dev_cls: nothing when the rpc node is gone) and waits for all.    *)
TearDown ==
  LET asked == {s \in ToSet(work_list) : nod[s].sockrpc} IN
  /\ plug = "out"
  /\ plug' = "teardown"
  /\ cls_head' = ToSet(work_list)
  /\ nod' = [s \in Sessions |-> [nod[s] EXCEPT !.freeflag = @ \/ s \in asked]]
  /\ rpc' = [s \in Sessions |-> [rpc[s] EXCEPT !.conn = @ /\ s \notin asked]]
  /\ UNCHANGED <<app, work_list, snd, rcv, devVars, setup>>

TearDownDone ==
  /\ plug = "teardown" /\ cls_head = {}
  /\ plug' = "stopped"
  /\ UNCHANGED <<app, rpc, nodeVars, snd, rcv, devVars, cls_head, setup>>

-----------------------------------------------------------------------------
Rpc(s) == RpcStart(s) \/ RpcOpen(s) \/ RpcEnd(s) \/ RpcEndNode(s)
SendThread == Scan \/ Recheck \/ PackMake \/ Deinit \/ DeinitRpc
RecvThread == RecvFind \/ RecvClosed \/ RecvNotify \/ RecvOpened \/ RecvAnswer
Device == DevOpen \/ DevClose
Poll == TearDown \/ TearDownDone

Next ==
  \/ \E s \in Sessions : Connect(s) \/ Close(s) \/ Rpc(s)
  \/ SendThread \/ RecvThread
  \/ Device \/ Unplug \/ Poll

Spec == Init /\ [][Next]_vars

(* Every thread of the daemon goes on, the device answers, and an          *)
(* application that was refused or cut off closes; one whose socket is     *)
(* open need not.                                                          *)
Fairness ==
  /\ \A s \in Sessions :
       WF_vars(Rpc(s)) /\ WF_vars(Close(s) /\ (app[s] = "refused" \/ ~ rpc[s].conn))
  /\ WF_vars(SendThread) /\ WF_vars(RecvThread) /\ WF_vars(Device) /\ WF_vars(Poll)

FairSpec == Spec /\ Fairness

-----------------------------------------------------------------------------
TypeOK ==
  /\ app \in [Sessions -> {"idle", "opening", "open", "refused", "closed"}]
  /\ rpc \in [Sessions -> Connection] /\ nod \in [Sessions -> Node]
  /\ ToSet(work_list) \subseteq Sessions /\ IsInjective(work_list)
  /\ snd \in [pc : {"scan", "picked", "make", "free", "freed"},
              node : Sessions \cup {NoSession}, rpc : BOOLEAN]
  /\ rcv.pc \in {"idle", "proc", "answer", "notify"}
  /\ rcv.node \in Sessions \cup {NoSession}
  /\ ToSet(toDev) \subseteq {"open", "close"}
  /\ ToSet(fromDev) \subseteq {Open(0), Open(HasOpened), Open(Failed), Closed}
  /\ devOpen \in BOOLEAN
  /\ plug \in {"in", "out", "teardown", "stopped"} /\ cls_head \subseteq Sessions
  /\ setup \in Setups

Live(s) == nod[s].mem = "live"

\* Sessions follow each other, wait for their answer, and the device stays.
InTurn == setup.overlap = "never" /\ ~ setup.exit /\ ~ setup.unplug

(***************************************************************************)
(* A node is freed only when nobody holds it any more: not the list, not   *)
(* the receive thread with a reply in hand, not the rpc thread between the *)
(* two locks of its end; and an rpc node a socket node points to is not    *)
(* gone either.  One use is left out: the receive thread, once it marked   *)
(* the node, wakes the send thread up through it ("notify"), and the send  *)
(* thread may have freed it.  So it is while sessions take turns; an exit  *)
(* or unplugging breaks more.                                              *)
(***************************************************************************)
HeldNodesAlive == InTurn =>
  /\ \A s \in ToSet(work_list) : Live(s)
  /\ snd.pc /= "scan" => Live(snd.node)
  /\ rcv.pc \in {"proc", "answer"} => Live(rcv.node)
  /\ \A s \in Sessions :
       /\ rpc[s].sockdev \/ rpc[s].pc = "end" => Live(s)
       /\ Live(s) /\ nod[s].sockrpc => rpc[s].pc /= "done"

(***************************************************************************)
(* An application that was told its socket is open has the device's        *)
(* socket, and the node that will close it, when no session starts before  *)
(* the last one is gone.                                                   *)
(***************************************************************************)
OpenIsOpen ==
  setup.overlap = "never" /\ plug = "in" => \A s \in Sessions :
    app[s] = "open" => devOpen /\ nod[s].has_opened /\ Live(s)

(***************************************************************************)
(* The device's socket does not outlive the node that opened it: when no   *)
(* node is left the device has nothing open and nothing to open, so that   *)
(* the next open of the slot and port is not refused.  (An application     *)
(* that exits while its open is out may leave it open.)                    *)
(***************************************************************************)
NoneLeftOpen ==
  InTurn /\ (\A s \in Sessions : ~ Live(s)) => ~ devOpen /\ toDev = <<>>

(***************************************************************************)
(* Closing a socket that is alone closes that one.  A reply to so_close is *)
(* matched by slot and port, and can reach another session's node, but     *)
(* only while the node that asked waits for it: nothing else ever marks a  *)
(* node to be freed that opens or is open for its application, while the   *)
(* device is there and however sessions overlap.                           *)
(***************************************************************************)
InUse(s) == app[s] \in {"opening", "open"} /\ rpc[s].pc = "ready" /\ ~ nod[s].freeflag
AwaitsClose(s) == Live(s) /\ nod[s].sta = "wait_usb_close" /\ ~ nod[s].freeflag
TakenByOther ==
  plug = "in" => \A s \in Sessions :
    InUse(s) /\ nod'[s].freeflag => \E t \in Sessions \ {s} : AwaitsClose(t)
ClosesOnlyItsOwn == [][TakenByOther]_vars

(***************************************************************************)
(* A so_open is answered, and a connection that closed leaves nothing      *)
(* behind in the daemon, as long as sessions take turns; unplugging the    *)
(* device ends every open socket as its application sees it.  A session    *)
(* only goes forward, and what it waits for has come for good in the end.  *)
(***************************************************************************)
OpenAnswered == InTurn => \A s \in Sessions : app[s] /= "opening"
CloseCompletes == InTurn => \A s \in Sessions : app[s] = "closed" => Gone(s)
UnplugSeen == plug /= "in" => \A s \in Sessions : app[s] /= "open"

\* No node is used after it was freed (HeldNodesAlive); the types.
NodesSafe == TypeOK /\ HeldNodesAlive

\* The device's socket is open when the application was told so, and closed
\* when no node is left.
OpenMeansOpen == OpenIsOpen /\ NoneLeftOpen

\* Opens are answered, closes leave nothing behind, and applications see that
\* the device was unplugged.
SocketsSettled == OpenAnswered /\ CloseCompletes /\ UnplugSeen
SocketsAnswered == <>[]SocketsSettled

(***************************************************************************)
(* The teardown of an unplugged device empties the work list and ends.     *)
(***************************************************************************)
TearDownEnds == plug = "out" ~> plug = "stopped"
=============================================================================
