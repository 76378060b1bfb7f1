------------------------------- MODULE UsbDev -------------------------------
(***************************************************************************)
(* One USB port of the daemon: the poll thread that starts and removes the *)
(* device on it (daemon/dev8030/usb8030/usb_dev.c), the send and receive   *)
(* threads of the device (daemon/usb_event_list.c), the start-up handshake *)
(* of the device event node (daemon/dev_event_node.c) and libusb's         *)
(* transfers.  Transfers of one direction are alike and counted.  A packet *)
(* is named by its subcommand: 1 keep-alive, 0 query of the buffer length, *)
(* 2 keep-alive once.  The device and libusb are external.                 *)
(*                                                                         *)
(* Left out: the nodes of clients (modules SockNode, Callback, Ioctl; here *)
(* `nodes' says that there is one to delete), failing allocations, and a   *)
(* device that is replaced by another one between two scans, which the     *)
(* poll thread takes for the same device.                                  *)
(***************************************************************************)
EXTENDS Integers, Sequences

CONSTANTS
  TxSize, RxSize,   \* transfers of a device: TX_USB_SZ, RX_USB_SZ
  MaxPlugs,         \* bound: how often a device is plugged in, and added by the host
  MaxReplies,       \* bound: replies the device keeps until they are read
  Modes,            \* who finds devices: "scan" the poll thread, "host" the Java host
  Stale             \* does a device keep its replies for whoever claims it next?

ASSUME SizesAssumption == TxSize \in Nat \ {0} /\ RxSize \in Nat \ {0}
ASSUME BoundsAssumption == MaxPlugs \in Nat /\ MaxReplies \in Nat \ {0}
ASSUME ModesAssumption == Modes \subseteq {"scan", "host"} /\ Stale \in BOOLEAN

VARIABLES
  present, kind,    \* is a device plugged in, and what it does: see Kinds
  plugs,            \* how many were plugged in
  toDev, replies,   \* packets of the submitted tx transfers, replies of the device
  mode,             \* who finds devices: see Modes
  poll, ret,        \* the thread that holds ctrl->mtx; why it removes a device
  seen, openable,   \* what the scan found
  claimed,          \* the interface is claimed
  dev, plist,       \* the usb8030_info and its dev_node_list exist
  exitflg, run,     \* exitflg, and the bit run_dev of plist->running
  txq, txpop,       \* transfers in tx_wait_queue, and taken from it to be freed
  rxfly, rxlost,    \* rx transfers submitted, and those whose submission failed
  rcv_release_cnt,
  cancelled,        \* libusb_cancel_transfer was called
  snd, rcv,         \* the send and the receive thread
  sdpack,           \* the packet the send thread is about to submit
  init_seq, len,    \* the handshake; the buffer length is known
  once,             \* send_keep_alive_once
  nodes,            \* a work node is registered
  alive_flg, drop_step,
  listed, id, told  \* in info8030_list, its working id, the last hotplug event

port == <<present, kind, plugs>>
bus == <<toDev, replies>>
ctl == <<mode, poll, ret, seen, openable, claimed>>
life == <<dev, plist, exitflg, run, cancelled>>
tx == <<txq, txpop>>
rx == <<rxfly, rxlost, rcv_release_cnt>>
shake == <<init_seq, len, once, nodes>>
alive == <<alive_flg, drop_step>>
list == <<listed, id, told>>
vars == <<port, bus, ctl, life, tx, rx, snd, rcv, sdpack, shake, alive, list>>

\* "alive" answers, "mute" takes packets and never answers, "hung" takes none.
Kinds == {"alive", "mute", "hung"}

Init ==
  /\ present = FALSE /\ kind = "alive" /\ plugs = 0 /\ toDev = <<>> /\ replies = <<>>
  /\ mode \in Modes /\ poll = mode /\ ret = "list" /\ seen = FALSE /\ openable = FALSE /\ claimed = FALSE
  /\ dev = FALSE /\ plist = FALSE /\ exitflg = FALSE /\ run = FALSE /\ cancelled = FALSE
  /\ txq = 0 /\ txpop = 0 /\ rxfly = 0 /\ rxlost = 0 /\ rcv_release_cnt = 0
  /\ snd = "end" /\ rcv = "end" /\ sdpack = 0
  /\ init_seq = "not_init" /\ len = FALSE /\ once = FALSE /\ nodes = FALSE
  /\ alive_flg = FALSE /\ drop_step = FALSE
  /\ listed = FALSE /\ id = 0 /\ told = [id |-> 0, status |-> 0]

-----------------------------------------------------------------------------
(* The port.  A device is plugged in only when the daemon has removed the  *)
(* one before.                                                             *)
Plug ==
  /\ ~ present /\ ~ dev /\ plugs < MaxPlugs
  /\ present' = TRUE /\ plugs' = plugs + 1 /\ kind' \in Kinds
  /\ UNCHANGED <<bus, ctl, life, tx, rx, snd, rcv, sdpack, shake, alive, list>>

Vanish ==
  /\ present /\ present' = FALSE /\ replies' = <<>>
  /\ UNCHANGED <<kind, plugs, toDev, ctl, life, tx, rx, snd, rcv, sdpack, shake, alive, list>>

-----------------------------------------------------------------------------
(* The poll thread: usbrpc_8030_poll.                                      *)
Goto(pc) == poll' = pc

\* usb_8030_probe: it opens a device and claims its interface, unless that
\* is claimed.
Probe == present /\ ~ claimed

\* usb_8030_get_all_usb.
Scan ==
  /\ poll = "scan" /\ Goto("close") /\ ret' = "list"
  /\ seen' = present
  /\ openable' = Probe
  /\ claimed' = (claimed \/ present)
  /\ UNCHANGED <<port, bus, mode, life, tx, rx, snd, rcv, sdpack, shake, alive, list>>

\* usb8030_check_close, and list_del of what it found.
CheckClose ==
  /\ poll = "close"
  /\ IF listed /\ ~ seen THEN listed' = FALSE /\ Goto("exit")
                         ELSE listed' = listed /\ Goto("start")
  /\ UNCHANGED <<port, bus, mode, ret, seen, openable, claimed, life, tx, rx, snd, rcv, sdpack,
                 shake, alive, id, told>>

\* In host mode the Java host adds and removes a file descriptor.
HostAdd ==
  /\ poll = "host" /\ ~ claimed /\ present /\ id < MaxPlugs
  /\ Goto("start") /\ openable' = TRUE /\ claimed' = TRUE
  /\ UNCHANGED <<port, bus, mode, ret, seen, life, tx, rx, snd, rcv, sdpack, shake, alive, list>>

HostDel ==
  /\ poll = "host" /\ listed
  /\ listed' = FALSE /\ Goto("exit") /\ ret' = "list"
  /\ UNCHANGED <<port, bus, mode, seen, openable, claimed, life, tx, rx, snd, rcv, sdpack,
                 shake, alive, id, told>>

\* set_usb_info: all tx transfers wait, all rx transfers are submitted.
SetUsbInfo ==
  /\ dev' = TRUE /\ plist' = TRUE /\ exitflg' = FALSE /\ run' = TRUE /\ cancelled' = FALSE
  /\ txq' = TxSize /\ txpop' = 0 /\ rcv_release_cnt' = 0
  /\ rxfly' = (IF present THEN RxSize ELSE 0) /\ rxlost' = RxSize - rxfly'

\* dev_node_list_init and dev_event_node_base_add.
ListInit == snd' = "scan" /\ rcv' = "loop"
BaseAdd == init_seq' = "not_init" /\ len' = FALSE /\ once' = FALSE

\* start_8030_proc, until it waits.
Start ==
  /\ poll = "start"
  /\ IF openable
     THEN /\ Goto("alive") /\ SetUsbInfo /\ ListInit /\ BaseAdd
          /\ alive_flg' = FALSE /\ drop_step' = FALSE
     ELSE /\ Goto(mode)
          /\ UNCHANGED <<life, tx, rx, snd, rcv, init_seq, len, once, alive>>
  /\ UNCHANGED <<port, bus, mode, ret, seen, openable, claimed, sdpack, nodes, list>>

\* usbrpc_8030_poll and usbrpc_host_add_fd with the device that answered.
PlugIn == /\ id' = id + 1 /\ listed' = TRUE
          /\ told' = [id |-> id', status |-> 1]

\* The wait for the handshake ends, answered or after 1000 ms.  From here on
\* a device that did not answer is removed with alive_mtx held.
Judge ==
  /\ poll = "alive" /\ drop_step' = TRUE
  /\ IF alive_flg
     THEN PlugIn /\ Goto(mode) /\ ret' = ret
     ELSE UNCHANGED list /\ Goto("exit") /\ ret' = "start"
  /\ UNCHANGED <<port, bus, mode, seen, openable, claimed, life, tx, rx, snd, rcv, sdpack, shake, alive_flg>>

\* usb_8030_unplug sets exitflg and wakes the writer up without the mutex.
Woken == IF snd = "wait" THEN "write" ELSE snd

Exit ==
  /\ poll = "exit" /\ Goto("nodes")
  /\ exitflg' = TRUE /\ snd' = Woken
  /\ UNCHANGED <<port, bus, mode, ret, seen, openable, claimed, dev, plist, run, cancelled, tx, rx,
                 rcv, sdpack, shake, alive, list>>

\* dev_node_force_exit: del_worknod waits until there is no work node left;
\* then the threads are to end.
DelWorkNod == ~ nodes
ForceExit ==
  /\ poll = "nodes" /\ DelWorkNod
  /\ Goto("join") /\ run' = FALSE
  /\ UNCHANGED <<port, bus, mode, ret, seen, openable, claimed, dev, plist, exitflg, cancelled, tx, rx,
                 snd, rcv, sdpack, shake, alive, list>>

\* dev_node_list_wait_end, free(plist), plist = NULL.
Join ==
  /\ poll = "join" /\ snd = "end" /\ rcv = "end"
  /\ Goto("cancel") /\ plist' = FALSE
  /\ UNCHANGED <<port, bus, mode, ret, seen, openable, claimed, dev, exitflg, run, cancelled, tx, rx,
                 snd, rcv, sdpack, shake, alive, list>>

\* A mutant: a transfer that is not found is not counted.
CancelUncounted ==
  /\ poll = "cancel" /\ Goto("free_tx")
  /\ cancelled' = TRUE
  /\ rxlost' = rxlost /\ rcv_release_cnt' = rcv_release_cnt
  /\ UNCHANGED <<port, bus, mode, ret, seen, openable, claimed, dev, plist, exitflg, run, tx, rxfly,
                 snd, rcv, sdpack, shake, alive, list>>

\* usb_8030_free_all_transfer: what is not in flight cannot be cancelled.
Cancel ==
  /\ poll = "cancel" /\ Goto("free_tx")
  /\ cancelled' = TRUE
  /\ rcv_release_cnt' = rcv_release_cnt + rxlost /\ rxlost' = 0
  /\ UNCHANGED <<port, bus, mode, ret, seen, openable, claimed, dev, plist, exitflg, run, tx, rxfly,
                 snd, rcv, sdpack, shake, alive, list>>

FreeTx ==
  /\ poll = "free_tx" /\ txq > 0
  /\ txq' = txq - 1 /\ txpop' = txpop + 1
  /\ Goto(IF txpop' = TxSize THEN "free_rx" ELSE "free_tx")
  /\ UNCHANGED <<port, bus, mode, ret, seen, openable, claimed, life, rx, snd, rcv, sdpack,
                 shake, alive, list>>

\* A mutant: one rx transfer back is enough.
SomeReleased == rcv_release_cnt > 0

AllReleased == rcv_release_cnt = RxSize

\* The loop looks once; then it waits for tx_wait_queue to have an element,
\* and as all of them have been popped no step leads out of that wait.
FreeRx ==
  /\ poll = "free_rx"
  /\ Goto(IF AllReleased THEN "free" ELSE "free_rx_wait")
  /\ UNCHANGED <<port, bus, mode, ret, seen, openable, claimed, life, tx, rx, snd, rcv, sdpack,
                 shake, alive, list>>

\* The event for a device that was listed; start_8030_proc sends none.
Unplugged == told' = IF ret = "start" THEN told ELSE [id |-> id, status |-> 0]

\* usb_8030_free_libusb, free(p8030).  What the device does with replies
\* nobody read is its own affair: Stale.
Free ==
  /\ poll = "free" /\ dev' = FALSE /\ claimed' = FALSE
  /\ Unplugged /\ Goto(IF ret = "list" /\ mode = "scan" THEN "close" ELSE mode)
  /\ replies' = (IF Stale THEN replies ELSE <<>>)
  /\ UNCHANGED <<port, toDev, mode, ret, seen, openable, plist, exitflg, run, cancelled, tx, rx, snd, rcv,
                 sdpack, shake, alive, listed, id>>

Poll == \/ Scan \/ CheckClose \/ HostAdd \/ HostDel \/ Start \/ Judge \/ Exit \/ ForceExit
        \/ Join \/ Cancel \/ FreeTx \/ FreeRx \/ Free

-----------------------------------------------------------------------------
(* The send thread: dev_send_thread with the device event node.            *)
Sends(pc, to) == snd = pc /\ snd' = to

NeedWrite == init_seq # "normal" \/ once

\* get_working_node, when nothing is to be done: the wait of 100 ms is over.
SendTick ==
  /\ run /\ ~ NeedWrite /\ ~ (nodes /\ poll = "nodes")
  /\ Sends("scan", "scan") /\ once' = TRUE
  /\ UNCHANGED <<port, bus, ctl, life, tx, rx, rcv, sdpack, init_seq, len, nodes, alive, list>>

SendScan ==
  /\ run /\ NeedWrite /\ Sends("scan", "make")
  /\ UNCHANGED <<port, bus, ctl, life, tx, rx, rcv, sdpack, shake, alive, list>>

\* A work node that del_worknod marked is taken from the list.
SendDelete ==
  /\ run /\ ~ NeedWrite /\ nodes /\ poll = "nodes"
  /\ Sends("scan", "scan") /\ nodes' = FALSE
  /\ UNCHANGED <<port, bus, ctl, life, tx, rx, rcv, sdpack, init_seq, len, once, alive, list>>

\* de_pack_make: init_seq is read here and, before the answer, set below.
SendMake ==
  /\ run
  /\ CASE init_seq \in {"not_init", "keep_alive"} -> Sends("make", "mark") /\ sdpack' = 1 /\ once' = once
       [] init_seq = "get_len" -> Sends("make", "write") /\ sdpack' = 0 /\ once' = once
       [] init_seq = "normal" /\ once -> Sends("make", "write") /\ sdpack' = 2 /\ once' = FALSE
       [] OTHER -> Sends("make", "scan") /\ UNCHANGED <<sdpack, once>>
  /\ UNCHANGED <<port, bus, ctl, life, tx, rx, rcv, init_seq, len, nodes, alive, list>>

SendMark ==
  /\ Sends("mark", "write") /\ init_seq' = "keep_alive"
  /\ UNCHANGED <<port, bus, ctl, life, tx, rx, rcv, sdpack, len, once, nodes, alive, list>>

\* usb_write, with tx_mtx held.
WriteTake ==
  /\ ~ exitflg /\ txq > 0
  /\ Sends("write", "submit") /\ txq' = txq - 1
  /\ UNCHANGED <<port, bus, ctl, life, txpop, rx, rcv, sdpack, shake, alive, list>>

WriteFull ==
  /\ ~ exitflg /\ txq = 0 /\ Sends("write", "gap")
  /\ UNCHANGED <<port, bus, ctl, life, tx, rx, rcv, sdpack, shake, alive, list>>

WriteSleep ==
  /\ Sends("gap", "wait")
  /\ UNCHANGED <<port, bus, ctl, life, tx, rx, rcv, sdpack, shake, alive, list>>

WriteExit ==
  /\ exitflg /\ Sends("write", "make")
  /\ UNCHANGED <<port, bus, ctl, life, tx, rx, rcv, sdpack, shake, alive, list>>

\* libusb_submit_transfer; when it fails the transfer goes back.
WriteSubmit ==
  /\ Sends("submit", "make")
  /\ IF present THEN toDev' = Append(toDev, sdpack) /\ txq' = txq
                ELSE toDev' = toDev /\ txq' = txq + 1
  /\ UNCHANGED <<port, replies, ctl, life, txpop, rx, rcv, sdpack, shake, alive, list>>

SendEnd ==
  /\ ~ run /\ snd \in {"scan", "make"} /\ snd' = "end"
  /\ UNCHANGED <<port, bus, ctl, life, tx, rx, rcv, sdpack, shake, alive, list>>

Send == \/ SendTick \/ SendScan \/ SendDelete \/ SendMake \/ SendMark
        \/ WriteTake \/ WriteFull \/ WriteSleep \/ WriteExit \/ WriteSubmit \/ SendEnd

-----------------------------------------------------------------------------
(* Events: usb_ev_loop runs in the receive thread and, once that has       *)
(* ended, in the helper of usb_8030_free_all_transfer.  The callbacks take *)
(* tx_mtx, which the send thread holds in the gap before it waits.         *)
Events == /\ rcv = "loop" \/ poll \in {"free_tx", "free_rx", "free_rx_wait"}
          /\ snd # "gap"

\* wrusb: in every case the transfer is back in the queue.
Released == txq' = txq + 1 /\ snd' = Woken

TxDone ==
  /\ Events /\ toDev # <<>> /\ present /\ ~ cancelled /\ kind # "hung"
  /\ kind = "alive" => Len(replies) < MaxReplies
  /\ toDev' = Tail(toDev)
  /\ replies' = (IF kind = "alive" THEN Append(replies, Head(toDev)) ELSE replies)
  /\ Released
  /\ UNCHANGED <<port, ctl, life, txpop, rx, rcv, sdpack, shake, alive, list>>

TxAborted ==
  /\ Events /\ toDev # <<>> /\ (~ present \/ cancelled)
  /\ toDev' = Tail(toDev) /\ Released
  /\ UNCHANGED <<port, replies, ctl, life, txpop, rx, rcv, sdpack, shake, alive, list>>

\* A mutant: any answer ends the handshake.
ProcAny(pack) ==
  CASE init_seq \in {"not_init", "keep_alive"} -> init_seq' = "get_len" /\ UNCHANGED <<len, nodes>>
    [] init_seq = "get_len" -> init_seq' = "normal" /\ len' = (pack = 0) /\ nodes' = TRUE
    [] OTHER -> UNCHANGED <<init_seq, len, nodes>>

\* _dev_pack_proc: what the answer does to the handshake.
Proc(pack) ==
  CASE init_seq \in {"not_init", "keep_alive"} -> init_seq' = "get_len" /\ UNCHANGED <<len, nodes>>
    [] init_seq = "get_len" /\ pack = 0 ->
         init_seq' = "normal" /\ len' = TRUE /\ nodes' = TRUE
    [] OTHER -> UNCHANGED <<init_seq, len, nodes>>

\* set_up_rd: in vain when the device has just gone.
SetUpRd ==
  \/ replies' = Tail(replies) /\ UNCHANGED <<present, rxfly, rxlost>>
  \/ present' = FALSE /\ replies' = <<>> /\ rxfly' = rxfly - 1 /\ rxlost' = rxlost + 1

\* usb_rd_release.
RdRelease == rxfly' = rxfly - 1 /\ rcv_release_cnt' = rcv_release_cnt + 1 /\ snd' = Woken

\* usb_rd_cb with data; when the handshake is over, usb_alive_cb comes first.
\* The transfer is submitted again even while the list ends: the `running`
\* that usb_rd_cb looks at has bits left then, as only run_dev is cleared.
RxData ==
  /\ Events /\ rxfly > 0 /\ replies # <<>> /\ ~ cancelled
  /\ Proc(Head(replies))
  /\ CASE init_seq = "get_len" /\ init_seq' = "normal" /\ ~ drop_step ->
            /\ rcv' = "alive" /\ rxfly' = rxfly - 1 /\ replies' = Tail(replies)
            /\ UNCHANGED <<present, rxlost, rcv_release_cnt, snd>>
       [] OTHER -> SetUpRd /\ UNCHANGED <<rcv, rcv_release_cnt, snd>>
  /\ UNCHANGED <<kind, plugs, toDev, ctl, life, tx, sdpack, once, alive, list>>

\* usb_alive_cb has found drop_step clear and takes alive_mtx: free only
\* while the poll thread waits.
AliveCb ==
  /\ rcv = "alive" /\ poll = "alive"
  /\ rcv' = "loop" /\ alive_flg' = TRUE
  /\ IF present THEN rxfly' = rxfly + 1 /\ rxlost' = rxlost
                ELSE rxfly' = rxfly /\ rxlost' = rxlost + 1
  /\ UNCHANGED <<port, bus, ctl, life, tx, rcv_release_cnt, snd, sdpack, shake, drop_step, list>>

\* usb_rd_cb with an error.
RxAborted ==
  /\ Events /\ rxfly > 0 /\ (~ present \/ cancelled) /\ RdRelease
  /\ UNCHANGED <<port, bus, ctl, life, tx, rxlost, rcv, sdpack, shake, alive, list>>

RecvEnd ==
  /\ rcv = "loop" /\ ~ run /\ rcv' = "end"
  /\ UNCHANGED <<port, bus, ctl, life, tx, rx, snd, sdpack, shake, alive, list>>

Recv == TxDone \/ TxAborted \/ RxData \/ AliveCb \/ RxAborted \/ RecvEnd

-----------------------------------------------------------------------------
Next == Plug \/ Vanish \/ Poll \/ Send \/ Recv

(* The threads run; libusb reports every transfer that ends, the ones of   *)
(* either direction in any order.                                          *)
Fairness == /\ WF_vars(Poll) /\ WF_vars(Send)
            /\ WF_vars(TxDone) /\ WF_vars(TxAborted) /\ WF_vars(RxData)
            /\ WF_vars(RxAborted) /\ WF_vars(AliveCb) /\ WF_vars(RecvEnd)

Spec == Init /\ [][Next]_vars
FairSpec == Spec /\ Fairness
-----------------------------------------------------------------------------
TypeOK ==
  /\ present \in BOOLEAN /\ kind \in Kinds /\ plugs \in 0 .. MaxPlugs
  /\ toDev \in Seq(0 .. 2) /\ replies \in Seq(0 .. 2)
  /\ {seen, openable, claimed, dev, plist, exitflg, run, cancelled} \subseteq BOOLEAN
  /\ {len, once, nodes, alive_flg, drop_step, listed} \subseteq BOOLEAN
  /\ txq \in 0 .. TxSize /\ txpop \in 0 .. TxSize
  /\ rxfly \in 0 .. RxSize /\ rxlost \in 0 .. RxSize /\ rcv_release_cnt \in 0 .. RxSize
  /\ snd \in {"scan", "make", "mark", "write", "gap", "wait", "submit", "end"}
  /\ rcv \in {"loop", "alive", "end"}
  /\ init_seq \in {"not_init", "keep_alive", "get_len", "normal"}

N(b) == IF b THEN 1 ELSE 0

(* Every transfer of a device is in one place: queued, submitted, held by  *)
(* a thread, lost or released.  When usb_8030_unplug frees the             *)
(* usb8030_info, libusb has no transfer of it left whose callback would    *)
(* touch it (that is what rcv_release_cnt and the count of popped tx       *)
(* transfers wait for), and when the dev_node_list is freed neither of its *)
(* threads runs.                                                           *)
TearDownSafe ==
  /\ TypeOK
  /\ dev => /\ txq + Len(toDev) + txpop + N(snd = "submit") = TxSize
            /\ rxfly + rxlost + rcv_release_cnt + N(rcv = "alive") = RxSize
  /\ ~ dev => toDev = <<>> /\ rxfly = 0
  /\ ~ plist => snd = "end" /\ rcv = "end"

(* What clients can find in info8030_list is a device whose handshake is   *)
(* over and whose buffer length is known, whatever was answered, in what   *)
(* order and however late; the last hotplug event says what the list says, *)
(* except while the device is being removed.                               *)
ListedIsReady ==
  /\ listed => dev /\ plist /\ ~ exitflg /\ init_seq = "normal" /\ len
  /\ listed => told = [id |-> id, status |-> 1]
  /\ told.status = 1 => listed \/ (dev /\ ret = "list")

(* A device that is gone leaves the list, and a removal whose rx transfers *)
(* have all come back before usb_8030_free_all_transfer starts comes to    *)
(* its end: ctrl->mtx, which every lookup needs, is released.              *)
UnplugEnds ==
  /\ (mode = "scan" /\ listed /\ ~ present) ~> ~ listed
  /\ (poll = "cancel" /\ rxfly = 0) ~> ~ dev

(* usb_dev.c:747 says of usbrpc_8030_poll that it scans for 8030s being    *)
(* plugged and unplugged in a loop.  It does not, once a removal waits for *)
(* rx transfers that return after the last tx transfer was freed: nothing  *)
(* enters tx_wait_queue any more.                                          *)
KeepsScanning == []<>(poll = "scan")
=============================================================================
