------------------------------ MODULE IoctlLife ------------------------------
(***************************************************************************)
(* The life of ioctl connections in the daemon: the rpc node and the node  *)
(* of a connection in the work list of its device come and go              *)
(* (daemon/normal_node.c, base_node.c, rpc_init.c) while the send and the  *)
(* receive thread use them and the device may be unplugged                 *)
(* (daemon/usb_event_list.c).  What is asked and answered is module Ioctl. *)
(*                                                                         *)
(* Nodes are freed while others use them; "bad" collects the kinds of such *)
(* uses, and a step on freed memory changes nothing else.                  *)
(* Left out: a connection that is bound while its device goes (module      *)
(* Server), a thread that reads from a descriptor that is already another  *)
(* connection's, and which of several nodes the send thread serves first.  *)
(* The client and the device are external.                                 *)
(***************************************************************************)
EXTENDS Integers, SequencesExt, FiniteSetsExt

CONSTANTS
  Conns,      \* connections
  Manners     \* what may happen: see Manner

(* hasty: a client may hang up while its call is out; unplug: the device   *)
(* may be unplugged.                                                       *)
Manner == [hasty : BOOLEAN, unplug : BOOLEAN]

VARIABLES
  peer,                \* the client: "idle", "on", "called", "served", "gone"
  conn,                \* the thread of the connection
  fd, fds,             \* its descriptor, and whose descriptors are
  nod, work_list,
  snd, rcv,            \* send and receive thread
  toDev, fromDev,
  plug, cls_head,      \* del_worknod: the nodes it waits for
  bad, manner

client == <<peer, fd, fds>>
nodes == <<nod, work_list>>
threads == <<snd, rcv>>
wires == <<toDev, fromDev>>
ends == <<plug, cls_head, manner>>
vars == <<client, conn, nodes, threads, wires, ends, bad>>

None == "none"

Init ==
  /\ peer = [s \in Conns |-> "idle"] /\ conn = [s \in Conns |-> "none"]
  /\ fd = [s \in Conns |-> 0] /\ fds = [n \in 1 .. Cardinality(Conns) |-> None]
  /\ nod = [s \in Conns |-> [mem |-> "none", prpc |-> FALSE, need_write |-> FALSE, freeflag |-> FALSE]]
  /\ work_list = <<>> /\ snd = [pc |-> "scan", node |-> None] /\ rcv = [pc |-> "idle", node |-> None]
  /\ toDev = <<>> /\ fromDev = <<>> /\ plug = "in" /\ cls_head = {}
  /\ bad = {} /\ manner \in Manners

Live(s) == nod[s].mem = "live"
\* The node s is used; if it was freed, that is a use of this kind.
Uses(s, kind) == bad' = bad \cup IF Live(s) THEN {} ELSE {kind}

-----------------------------------------------------------------------------
(* Clients, and the thread of a connection.                                *)
\* bn_init: the fields of a node.
Fresh == [mem |-> "live", prpc |-> TRUE, need_write |-> FALSE, freeflag |-> FALSE]

\* plist_insert_node
Insert(s) == work_list' = <<s>> \o work_list

(* A connection gets the first descriptor that is free.  It is bound to    *)
(* the device by normal_rpc_nod_start; later ones are for something else.  *)
Start(s) ==
  /\ conn[s] = "none" /\ peer' = [peer EXCEPT ![s] = "on"] /\ conn' = [conn EXCEPT ![s] = "read"]
  /\ LET n == Min({k \in DOMAIN fds : fds[k] = None}) IN
       fd' = [fd EXCEPT ![s] = n] /\ fds' = [fds EXCEPT ![n] = s]
  /\ IF plug = "in" THEN nod' = [nod EXCEPT ![s] = Fresh] /\ Insert(s) ELSE UNCHANGED nodes
  /\ UNCHANGED <<threads, wires, ends, bad>>

HungUp(s) == peer[s] = "gone" \/ fds[fd[s]] # s

\* rpc_normal_read: a call is for the send thread.  A client calls once.
Read(s) ==
  /\ conn[s] = "read" /\ peer[s] = "on" /\ nod[s].prpc /\ ~ HungUp(s)
  /\ peer' = [peer EXCEPT ![s] = "called"] /\ Uses(s, "read")
  /\ nod' = [nod EXCEPT ![s].need_write = TRUE]
  /\ UNCHANGED <<conn, fd, fds, work_list, threads, wires, ends>>

HangUp(s) ==
  /\ peer[s] \in {"on", "served"} \/ (peer[s] = "called" /\ (manner.hasty \/ HungUp(s)))
  /\ peer' = [peer EXCEPT ![s] = "gone"]
  /\ UNCHANGED <<fd, fds, conn, nodes, threads, wires, ends, bad>>

Becomes(s, pc) == conn' = [conn EXCEPT ![s] = pc]

\* normal_rpc_node_end: the two ends of the connection let go of each other.
EndUnlink(s) ==
  /\ conn[s] = "read" /\ HungUp(s)
  /\ IF nod[s].mem = "none" THEN Becomes(s, "close") /\ UNCHANGED <<nod, bad>>
     ELSE Becomes(s, "flag") /\ nod' = [nod EXCEPT ![s].prpc = FALSE] /\ Uses(s, "read")
  /\ UNCHANGED <<client, work_list, threads, wires, ends>>

\* bn_set_free: the flag, and then the list the node is in, to wake the send
\* thread up.
EndFlag(s) ==
  /\ conn[s] = "flag" /\ Becomes(s, "notify")
  /\ nod' = [nod EXCEPT ![s].freeflag = TRUE] /\ Uses(s, "flag")
  /\ UNCHANGED <<client, work_list, threads, wires, ends>>

EndNotify(s) ==
  /\ conn[s] = "notify" /\ Becomes(s, "close") /\ Uses(s, "notify")
  /\ UNCHANGED <<client, nodes, threads, wires, ends>>

\* clean_up_node closes the descriptor, whosever it is by now.
EndClose(s) ==
  /\ conn[s] = "close" /\ Becomes(s, "done")
  /\ fds' = [fds EXCEPT ![fd[s]] = None]
  /\ bad' = bad \cup IF fds[fd[s]] \in Conns \ {s} THEN {"fd"} ELSE {}
  /\ UNCHANGED <<peer, fd, nodes, threads, wires, ends>>

Thread(s) == Read(s) \/ EndUnlink(s) \/ EndFlag(s) \/ EndNotify(s) \/ EndClose(s)

-----------------------------------------------------------------------------
(* The send thread.                                                        *)
SendGoes(pc, s) == snd' = [pc |-> pc, node |-> s]
SendUnchanged == UNCHANGED <<client, conn, rcv, fromDev, plug, manner>>

\* plist_del_nod
DelNod(s) == work_list' = RemoveFirst(work_list, s)

\* plist_find_work_node goes through the nodes with the lock.
Listed == bad' = bad \cup IF \A s \in ToSet(work_list) : Live(s) THEN {} ELSE {"listed"}

Scan ==
  /\ snd.pc = "scan" /\ plug # "stopped" /\ Listed
  /\ \E s \in ToSet(work_list) : Live(s) /\
       \/ nod[s].freeflag /\ SendGoes("deinit", s) /\ DelNod(s)
       \/ ~ nod[s].freeflag /\ nod[s].need_write /\ SendGoes("again", s) /\ UNCHANGED work_list
  /\ SendUnchanged /\ UNCHANGED <<nod, toDev, cls_head>>

\* The flag once more, without the lock: the node is freed and still listed.
Again ==
  /\ snd.pc = "again" /\ SendGoes(IF nod[snd.node].freeflag THEN "deinit" ELSE "make", snd.node)
  /\ SendUnchanged /\ UNCHANGED <<nodes, toDev, cls_head, bad>>

\* normal_dev_pack_make
PackMake ==
  LET s == snd.node IN
  /\ snd.pc = "make" /\ Uses(s, "send")
  /\ IF nod[s].need_write /\ ~ nod[s].freeflag
     THEN /\ nod' = [nod EXCEPT ![s].need_write = FALSE] /\ SendGoes("make", s)
          /\ toDev' = IF plug = "in" THEN Append(toDev, s) ELSE toDev
     ELSE SendGoes("scan", None) /\ UNCHANGED <<nod, toDev>>
  /\ SendUnchanged /\ UNCHANGED <<work_list, cls_head>>

\* normal_dev_deinit, and bn_dev_deinit, which tells del_worknod.
Deinit ==
  LET s == snd.node IN
  /\ snd.pc = "deinit" /\ SendGoes("scan", None)
  /\ nod' = [nod EXCEPT ![s].mem = "freed"] /\ cls_head' = cls_head \ {s}
  /\ bad' = bad \cup IF s \in ToSet(work_list) THEN {"listed"} ELSE {}
  /\ SendUnchanged /\ UNCHANGED <<work_list, toDev>>

Send == Scan \/ Again \/ PackMake \/ Deinit

-----------------------------------------------------------------------------
(* The receive thread: the node is looked up with the lock, and used later *)
(* (normal_dev_pack_chk, normal_dev_pack_proc).                            *)
RecvFind ==
  /\ rcv.pc = "idle" /\ fromDev # <<>> /\ fromDev' = Tail(fromDev) /\ Listed
  /\ rcv' = IF Head(fromDev) \in ToSet(work_list) /\ Live(Head(fromDev))
            THEN [pc |-> "proc", node |-> Head(fromDev)] ELSE rcv
  /\ UNCHANGED <<client, conn, nodes, snd, toDev, ends>>

RecvProc ==
  LET s == rcv.node IN
  /\ rcv.pc = "proc" /\ Uses(s, "proc")
  /\ IF nod[s].prpc THEN rcv' = [rcv EXCEPT !.pc = "reply"] /\ nod' = [nod EXCEPT ![s].need_write = FALSE]
     ELSE rcv' = [pc |-> "idle", node |-> None] /\ nod' = [nod EXCEPT ![s].freeflag = TRUE]
  /\ UNCHANGED <<client, conn, work_list, snd, wires, ends>>

\* send to the descriptor of the rpc node, which its thread frees.
RecvReply ==
  LET s == rcv.node IN
  /\ rcv.pc = "reply" /\ rcv' = [pc |-> "idle", node |-> None]
  /\ bad' = bad \cup IF conn[s] \in {"close", "done"} THEN {"reply"} ELSE {}
  /\ peer' = [peer EXCEPT ![s] = IF @ = "called" THEN "served" ELSE @]
  /\ UNCHANGED <<fd, fds, conn, nodes, snd, wires, ends>>

Recv == RecvFind \/ RecvProc \/ RecvReply

-----------------------------------------------------------------------------
\* The device (external).
Reply ==
  /\ toDev # <<>> /\ toDev' = Tail(toDev) /\ fromDev' = Append(fromDev, Head(toDev))
  /\ UNCHANGED <<client, conn, nodes, threads, ends, bad>>

Unplug ==
  /\ manner.unplug /\ plug = "in" /\ plug' = "out" /\ toDev' = <<>> /\ fromDev' = <<>>
  /\ UNCHANGED <<client, conn, nodes, threads, cls_head, manner, bad>>

(* del_worknod: normal_dev_cls closes the descriptors of the connections,  *)
(* which their threads, waiting for the lock in bn_set_free, have not yet  *)
(* given up.                                                               *)
TearDown ==
  LET all == {s \in ToSet(work_list) : nod[s].prpc} IN
  /\ plug = "out" /\ plug' = "teardown" /\ cls_head' = ToSet(work_list) \cap {s \in Conns : Live(s)}
  /\ fds' = [n \in DOMAIN fds |-> IF \E s \in all : fd[s] = n /\ fds[n] = s THEN None ELSE fds[n]]
  /\ Listed
  /\ UNCHANGED <<peer, fd, conn, nodes, threads, wires, manner>>

TearDownDone ==
  /\ plug = "teardown" /\ cls_head = {} /\ plug' = "stopped"
  /\ UNCHANGED <<client, conn, nodes, threads, wires, cls_head, manner, bad>>

Poll == TearDown \/ TearDownDone

Next == Send \/ Recv \/ Reply \/ Unplug \/ Poll \/ \E s \in Conns : Start(s) \/ Thread(s) \/ HangUp(s)

Spec == Init /\ [][Next]_vars
FairSpec == /\ Spec /\ WF_vars(Send) /\ WF_vars(Recv) /\ WF_vars(Reply) /\ WF_vars(Poll)
            /\ \A s \in Conns : WF_vars(Thread(s)) /\ WF_vars(HangUp(s))
-----------------------------------------------------------------------------
(* With clients that wait for their answers, and a device that stays, only *)
(* the end of a connection itself can meet a node that was freed, between  *)
(* its flag and the list it wakes up.  A client that hangs up while its    *)
(* call is out can have its node freed under the receive thread or in the  *)
(* list, and its rpc node under the reply; a descriptor that is closed     *)
(* twice takes a device that was unplugged.  Nothing else is used after it *)
(* was freed.                                                              *)
LifeSafe ==
  /\ bad \subseteq {"notify"} \cup (IF manner.hasty \/ manner.unplug THEN {"flag", "proc", "reply", "listed"} ELSE {})
                 \cup (IF manner.unplug THEN {"fd"} ELSE {})
  /\ bad \subseteq {"notify"} =>
       \A s \in Conns : /\ Live(s) <=> s \in ToSet(work_list) \/ (snd.pc = "deinit" /\ snd.node = s)
                        /\ Live(s) /\ conn[s] \in {"close", "done"} => nod[s].freeflag

(* A connection that was hung up ends, and its node is freed, and so does  *)
(* the teardown.                                                           *)
LifeSettled ==
  /\ \A s \in Conns : peer[s] = "gone" => conn[s] = "done" /\ ~ Live(s)
  /\ plug \in {"in", "stopped"}
LifeEnds == <>[]LifeSettled
=============================================================================
