------------------------------ MODULE CmdLine -------------------------------
(***************************************************************************)
(* The debug channel of a device (daemon/rpc_cmdline.c): clients type, the *)
(* send thread of the device (usb_event_list.c) takes what was typed to    *)
(* the device and tells it how many clients there are, and the poll thread *)
(* removes the node with the device (del_worknod).  Two mutexes: that of   *)
(* the device list (plist) and that of the node (cldrv); who types or      *)
(* leaves takes the first while holding the second, who removes the node   *)
(* the second while holding the first.  Nothing keeps the node alive for   *)
(* who has a pointer to it and no mutex: a client that has found it, or    *)
(* has read drv_ptr, and the receive thread.  What they do with it once it *)
(* is freed is undefined; here they go on as if it were still there, and   *)
(* `stray` records it.                                                     *)
(*                                                                         *)
(* Left out: the contents of what the device sends, which is written to a  *)
(* log and passed on as it comes; connecting (module Server); overflow of  *)
(* sendbuff, whose size is not looked at.                                  *)
(***************************************************************************)
EXTENDS Integers, Sequences, SequencesExt, FiniteSets

CONSTANTS
  Clients,
  SendMax, SendCap, \* cells of one packet to the device (900), and of sendbuff (1024)
  MaxTyped          \* bound: cells typed

Poller == "poll"    \* the poll thread, as the holder of a mutex
Receiver == "recv"  \* the receive and the send thread, as users of the node
Sender == "send"

VARIABLES
  plist_mtx, cldrv_mtx, \* who holds them
  node,                 \* cl_drv: "in" the work list or "out" of it
  freed, freeflag,
  head,                 \* the clients in cldrv->head
  pc, drv,              \* the thread of a client, and its drv_ptr is set
  client_plug_event, sendbuff,
  snd, num,             \* the send thread; the number it is about to tell
  rcv,                  \* the receive thread: "idle", or it has "found" the node
  poll,                 \* the poll thread
  typed, dev, told,     \* history: cells typed, cells and number the device got
  missed,               \* history: a change was not counted the last time
  held, stray           \* history: who had a pointer to the node and no mutex when
                        \* it let its clients go, and who else used it freed

locks == <<plist_mtx, cldrv_mtx>>
nodes == <<node, freed, freeflag, head>>
out == <<client_plug_event, sendbuff>>
uses == <<held, stray>>
hist == <<typed, dev, told, missed, uses>>
vars == <<locks, nodes, pc, drv, out, snd, num, rcv, poll, hist>>

\* rpc_debug_reg.
Init ==
  /\ plist_mtx = "none" /\ cldrv_mtx = "none"
  /\ node = "in" /\ freed = FALSE /\ freeflag = FALSE /\ head = {}
  /\ pc = [c \in Clients |-> "out"] /\ drv = [c \in Clients |-> FALSE]
  /\ client_plug_event = TRUE /\ sendbuff = <<>>
  /\ snd = "scan" /\ num = 0 /\ rcv = "idle" /\ poll = "run"
  /\ typed = 0 /\ dev = <<>> /\ told = 0 /\ missed = FALSE /\ held = {} /\ stray = {}

-----------------------------------------------------------------------------
(* A client.                                                               *)
At(c, from, to) == pc[c] = from /\ pc' = [pc EXCEPT ![c] = to]
Uses(who) == stray' = IF freed /\ who \notin held THEN stray \cup {who} ELSE stray
TakeNode(who) == cldrv_mtx = "none" /\ cldrv_mtx' = who /\ Uses(who)

\* get_cl_dev_node: nothing keeps the node once the mutex is released.
FindNode(c) ==
  /\ plist_mtx = "none" /\ node = "in" /\ At(c, "out", "found") /\ Uses(c)
  /\ UNCHANGED <<locks, nodes, drv, out, snd, num, rcv, poll, typed, dev, told, missed, held>>

\* cl_rpc_nod_start.
NodStart(c) ==
  /\ At(c, "found", "notify") /\ TakeNode(c)
  /\ head' = head \cup {c} /\ drv' = [drv EXCEPT ![c] = TRUE]
  /\ client_plug_event' = TRUE
  /\ missed' = (missed \/ snd = "count")
  /\ UNCHANGED <<plist_mtx, node, freed, freeflag, sendbuff, snd, num, rcv, poll, typed, dev,
                 told, held>>

Typing == {c \in Clients : pc[c] = "type"}

\* cl_cb_read: drv_ptr is read, the packet is unpacked,
CbRead(c) ==
  /\ drv[c] /\ At(c, "on", "type")
  /\ typed + Cardinality(Typing) < MaxTyped
  /\ Len(sendbuff) + Cardinality(Typing) < SendCap
  /\ UNCHANGED <<locks, nodes, drv, out, snd, num, rcv, poll, hist>>

\* and data for the device is stored with the mutex of what drv_ptr was.
CbStore(c) ==
  /\ At(c, "type", "notify") /\ TakeNode(c)
  /\ sendbuff' = Append(sendbuff, typed + 1) /\ typed' = typed + 1
  /\ UNCHANGED <<plist_mtx, nodes, drv, client_plug_event, snd, num, rcv, poll, dev, told,
                 missed, held>>

\* bn_tx_inotify with cldrv->mtx held; then that is released.
Notify(c, from, to) ==
  /\ At(c, from, to) /\ plist_mtx = "none" /\ Uses(c)
  /\ cldrv_mtx' = "none"
  /\ UNCHANGED <<plist_mtx, nodes, out, snd, num, rcv, poll, typed, dev, told, missed, held>>

NotifyOn(c) == Notify(c, "notify", "on") /\ UNCHANGED drv

\* The client closes its connection.  cl_rpc_node_end: drv_ptr is read,
NodeEnd(c) ==
  /\ drv[c] /\ At(c, "on", "end")
  /\ UNCHANGED <<locks, nodes, drv, out, snd, num, rcv, poll, hist>>

Forget(c) == head' = head \ {c}

\* and the client is taken from the list, also if the node did that meanwhile:
\* list_del leaves an element that is its own list behind.
EndForget(c) ==
  /\ At(c, "end", "bye") /\ TakeNode(c)
  /\ Forget(c) /\ client_plug_event' = TRUE
  /\ missed' = (missed \/ snd = "count")
  /\ UNCHANGED <<plist_mtx, node, freed, freeflag, drv, sendbuff, snd, num, rcv, poll, typed,
                 dev, told, held>>

\* The session of the client is freed, with its drv_ptr.
NotifyEnd(c) == Notify(c, "bye", "gone") /\ drv' = [drv EXCEPT ![c] = FALSE]

\* The daemon has closed the connection: drv_ptr is not set.
NodeEndClosed(c) ==
  /\ ~ drv[c] /\ At(c, "on", "gone")
  /\ UNCHANGED <<locks, nodes, drv, out, snd, num, rcv, poll, hist>>

Client(c) ==
  NodStart(c) \/ CbStore(c) \/ NotifyOn(c) \/ EndForget(c) \/ NotifyEnd(c) \/ NodeEndClosed(c)

-----------------------------------------------------------------------------
(* The receive thread: check_recv_pack finds the node with plist->mtx and  *)
(* cl_dev_pack_proc passes the packet on to the clients without it.        *)
RecvFind ==
  /\ rcv = "idle" /\ plist_mtx = "none" /\ node = "in" /\ poll # "over"
  /\ rcv' = "found" /\ Uses(Receiver)
  /\ UNCHANGED <<locks, nodes, pc, drv, out, snd, num, poll, typed, dev, told, missed, held>>

RecvProc ==
  /\ rcv = "found" /\ cldrv_mtx = "none"
  /\ rcv' = "idle" /\ Uses(Receiver)
  /\ UNCHANGED <<locks, nodes, pc, drv, out, snd, num, poll, typed, dev, told, missed, held>>

-----------------------------------------------------------------------------
(* The send thread: dev_send_thread, until the poll thread clears run_dev. *)
Snd(from, to) == snd = from /\ snd' = to
Running == poll # "over"
Keeps == UNCHANGED <<locks, pc, drv, num, rcv, poll>>

\* cl_need_write, in get_working_node.
NeedWrite == client_plug_event \/ sendbuff # <<>>

\* With plist->mtx.  A node that stays in the list is seen again when freed.
Scan ==
  /\ Running /\ plist_mtx = "none" /\ node = "in" /\ (freeflag \/ NeedWrite)
  /\ Snd("scan", IF freeflag THEN "deinit" ELSE "look")
  /\ node' = (IF freeflag THEN "out" ELSE node) /\ Uses(Sender)
  /\ Keeps /\ UNCHANGED <<freed, freeflag, head, out, typed, dev, told, missed, held>>

\* freeflag once more, without it: a node marked since is freed in the list.
Look ==
  /\ Snd("look", IF freeflag THEN "deinit" ELSE "make")
  /\ Keeps /\ UNCHANGED <<nodes, out, hist>>

MakeEnd ==
  /\ (freeflag \/ (~ NeedWrite /\ cldrv_mtx = "none"))
  /\ Snd("make", "scan")
  /\ Keeps /\ UNCHANGED <<nodes, out, hist>>

\* cl_dev_pack_make: the clients are counted, and the event is cleared after
\* the mutex is released.
Count ==
  /\ ~ freeflag /\ client_plug_event /\ cldrv_mtx = "none" /\ Snd("make", "count")
  /\ num' = Cardinality(head) /\ missed' = FALSE
  /\ UNCHANGED <<locks, nodes, pc, drv, out, rcv, poll, typed, dev, told, uses>>

TellCount ==
  /\ Snd("count", "make") /\ client_plug_event' = FALSE /\ told' = num /\ num' = 0
  /\ UNCHANGED <<locks, nodes, pc, drv, sendbuff, rcv, poll, typed, dev, missed, uses>>

\* All of sendbuff is dropped, also what did not fit into the packet.
Cut == sendbuff' = <<>>

SendData ==
  /\ ~ freeflag /\ ~ client_plug_event /\ sendbuff # <<>> /\ cldrv_mtx = "none"
  /\ Snd("make", "make")
  /\ dev' = dev \o SubSeq(sendbuff, 1, IF Len(sendbuff) > SendMax THEN SendMax ELSE Len(sendbuff))
  /\ Cut
  /\ Keeps /\ UNCHANGED <<nodes, client_plug_event, typed, told, missed, uses>>

\* Slip: the clients keep their drv_ptr.
DelRpcKept == head' = {} /\ drv' = drv

\* cldrv_del_rpc: sockets are closed, clients lose their drv_ptr.
DelRpc == head' = {} /\ drv' = [c \in Clients |-> IF c \in head THEN FALSE ELSE drv[c]]

Holders == {c \in Clients : pc[c] \in {"found", "type", "end"}}
           \cup IF rcv = "found" THEN {Receiver} ELSE {}

\* cl_deinit lets the clients go,
Deinit ==
  /\ cldrv_mtx = "none" /\ Snd("deinit", "close")
  /\ DelRpc /\ held' = Holders
  /\ UNCHANGED <<locks, node, freed, freeflag, pc, out, num, rcv, poll, typed, dev, told, missed,
                 stray>>

\* ends the wait of del_worknod (bn_force_close_inotify),
DeinitClose ==
  /\ plist_mtx = "none" /\ Snd("close", "free")
  /\ Keeps /\ UNCHANGED <<nodes, out, hist>>

\* and frees the node, whoever uses it.
DeinitFree ==
  /\ Snd("free", "scan") /\ freed' = TRUE
  /\ Keeps /\ UNCHANGED <<node, freeflag, head, out, hist>>

Send == \/ Scan \/ Look \/ MakeEnd \/ Count \/ TellCount \/ SendData
        \/ Deinit \/ DeinitClose \/ DeinitFree

-----------------------------------------------------------------------------
(* The poll thread: dev_node_force_exit with del_worknod.                  *)
DelWorkNod ==
  /\ poll = "run" /\ plist_mtx = "none"
  /\ plist_mtx' = Poller /\ poll' = "cls"
  /\ UNCHANGED <<cldrv_mtx, nodes, pc, drv, out, snd, num, rcv, hist>>

\* Slip: the node is not marked.
SetFreeNot == freeflag' = freeflag

\* bn_set_free.
SetFree == freeflag' = TRUE

\* cl_dev_cls, with plist->mtx held; the wait for close_cv releases that.
DevCls ==
  /\ poll = "cls" /\ cldrv_mtx = "none"
  /\ DelRpc /\ SetFree
  /\ plist_mtx' = "none" /\ poll' = "wait"
  /\ UNCHANGED <<cldrv_mtx, node, freed, pc, out, snd, num, rcv, hist>>

\* The node is off cls_head.
Closed == snd = "free" \/ freed

DelDone ==
  /\ poll = "wait" /\ plist_mtx = "none" /\ Closed /\ poll' = "done"
  /\ UNCHANGED <<locks, nodes, pc, drv, out, snd, num, rcv, hist>>

\* run_dev is cleared.
StopRunning ==
  /\ poll = "done" /\ poll' = "over"
  /\ UNCHANGED <<locks, nodes, pc, drv, out, snd, num, rcv, hist>>

Poll == DevCls \/ DelDone \/ StopRunning

-----------------------------------------------------------------------------
Next == \/ \E c \in Clients : FindNode(c) \/ CbRead(c) \/ NodeEnd(c) \/ Client(c)
        \/ RecvFind \/ RecvProc
        \/ Send \/ DelWorkNod \/ Poll

Spec == Init /\ [][Next]_vars
-----------------------------------------------------------------------------
TypeOK ==
  /\ node \in {"in", "out"} /\ {freed, freeflag} \subseteq BOOLEAN /\ head \subseteq Clients
  /\ pc \in [Clients -> {"out", "found", "notify", "on", "type", "end", "bye", "gone"}]
  /\ snd \in {"scan", "look", "make", "count", "deinit", "close", "free"}
  /\ rcv \in {"idle", "found"} /\ poll \in {"run", "cls", "wait", "done", "over"}
  /\ typed \in 0 .. MaxTyped /\ Len(sendbuff) <= SendCap

(* The freed node is used, and pointed to, only by who had found it or had *)
(* read drv_ptr and held no mutex when the node let its clients go for the *)
(* last time; no client that came before then, and was doing nothing,      *)
(* still points to it.  That is so if the node was taken from the work     *)
(* list: the code frees it in the list when it is marked between the two   *)
(* looks the send thread has at freeflag, and then everyone who goes       *)
(* through the list uses it, at last the send thread itself.  Who points   *)
(* to the node and has not closed is in its list.  The device gets what    *)
(* was typed in order and once, and loses only what was typed beyond a     *)
(* full packet.  When there is nothing to tell the device it knows how     *)
(* many clients there are, unless the number changed while it was being    *)
(* told.                                                                   *)
CmdLineSafe ==
  /\ TypeOK
  /\ freed /\ node = "out" /\ Sender \notin stray =>
       /\ stray = {}
       /\ \A c \in Clients : drv[c] => c \in held
  /\ \A c \in Clients : drv[c] => c \in head \/ pc[c] = "bye"
  /\ head \subseteq {c \in Clients : drv[c]}
  /\ \A i, j \in 1 .. Len(dev) : i < j => dev[i] < dev[j]
  /\ SendCap <= SendMax => \A k \in 1 .. typed : k \in ToSet(dev) \cup ToSet(sendbuff)
  /\ ~ client_plug_event /\ ~ missed => (told = Cardinality(head) \/ freeflag)

\* Each of two threads waits for the mutex the other one holds.
Embrace == poll = "cls" /\ plist_mtx = Poller /\ cldrv_mtx \in Clients

(* The removal of the device comes to its end, unless it begins while a    *)
(* client is between its two mutexes.                                      *)
CmdLineSettled == poll \in {"run", "over"} \/ Embrace
CmdLineEnds == <>[]CmdLineSettled
=============================================================================
