------------------------------ MODULE Callback ------------------------------
(***************************************************************************)
(* The subscribers of one event of the device, in the daemon               *)
(* (daemon/callback_node.c, daemon/usb_event_list.c) and as the client     *)
(* sees it (app/ar8030/session_callback.c).  Connections attach to a node  *)
(* of the work list; the node asks the device once for the event and then  *)
(* hands every event to the connections that were told so.                 *)
(*                                                                         *)
(* Threads: one rpc thread per connection, the send and the receive thread *)
(* of the device, the poll thread of the teardown.  What a step sends on a *)
(* connection reaches its application at once: only the order of the       *)
(* frames of one connection matters, and TCP keeps it.  The device is      *)
(* external.                                                               *)
(*                                                                         *)
(* Nodes are freed while others use them; "bad" collects the kinds of such *)
(* uses, and a freed node keeps what it held.                              *)
(***************************************************************************)
EXTENDS Integers, SequencesExt

CONSTANTS
  Subs,                \* the applications that subscribe, each once
  Setups,              \* the events they may subscribe: see Setup
  MaxEvents            \* bound: the events the device sends

BaseNode == "base"
NoNode == "none"
ASSUME SubsAssumption == {BaseNode, NoNode} \cap Subs = {}
ASSUME EventsAssumption == MaxEvents \in Nat

(* subs: the applications there are; base: the device announced the event, *)
(* so that its node exists already; offline: it is BB_EVENT_OFFLINE, that  *)
(* the device never sees; fail: the device may refuse to subscribe it;     *)
(* unplug: the device may be unplugged.                                    *)
Setup == [subs : SUBSET Subs, base : BOOLEAN, offline : BOOLEAN,
          fail : BOOLEAN, unplug : BOOLEAN]
ASSUME SetupsAssumption == Setups \subseteq Setup

Nodes == Subs \cup {BaseNode}   \* a node is named by the connection that created it

VARIABLES
  app,                 \* the applications
  rpc,                 \* the connections: thread position, node, initflag
  nod,                 \* the callback nodes
  work_list,           \* the work list of the device, head first
  snd, rcv,            \* the send and the receive thread
  toDev, fromDev,      \* frames on the way
  events,              \* how many events the device has sent
  plug, cls_head,      \* as in SockNode
  late,                \* connections that attached to a node already given up
  bad,                 \* how nodes that were freed have been used
  setup                \* the setup of this behaviour

wire == <<toDev, fromDev, events>>
plugVars == <<plug, cls_head, setup>>
freedVars == <<late, bad>>
vars == <<app, rpc, nod, work_list, snd, rcv, wire, plugVars, freedVars>>

Connection == [pc : {"none", "found", "attached", "reply", "check", "start", "read", "end",
                     "flag", "notify", "done"},
               conn : BOOLEAN, cbdev : Nodes \cup {NoNode}, initflag : BOOLEAN]
Node == [mem : {"none", "live", "freed"}, freeflag : BOOLEAN, exitflg : BOOLEAN,
         head : SUBSET Subs,
         status : {"not_init", "need_send_cmd", "wait_usb_cmd", "wait_usb_data"}]

Init ==
  /\ setup \in Setups
  /\ app = [s \in Subs |-> "idle"]
  /\ rpc = [s \in Subs |->
              [pc |-> "none", conn |-> FALSE, cbdev |-> NoNode, initflag |-> FALSE]]
  /\ nod = [n \in Nodes |->
              [mem |-> IF setup.base /\ n = BaseNode THEN "live" ELSE "none",
               freeflag |-> FALSE, exitflg |-> FALSE, head |-> {},
               status |-> IF setup.base /\ n = BaseNode THEN "need_send_cmd" ELSE "not_init"]]
  /\ work_list = IF setup.base THEN <<BaseNode>> ELSE <<>>
  /\ snd = [pc |-> "scan", node |-> NoNode]
  /\ rcv = [pc |-> "idle", node |-> NoNode, pack |-> "none"]
  /\ toDev = <<>> /\ fromDev = <<>> /\ events = 0
  /\ plug = "in" /\ cls_head = {} /\ late = {} /\ bad = {}

Live(n) == nod[n].mem = "live"
\* The node n is used; if it was freed, that is a use of this kind.
UseOf(n, kind) == bad' = bad \cup IF Live(n) THEN {} ELSE {kind}
Uses(n, kind) == UseOf(n, kind) /\ UNCHANGED late
\* A connection uses its node.
UsesOwn(s, kind) == Uses(rpc[s].cbdev, IF s \in late THEN "late" ELSE kind)
\* The work list is walked with its lock.
Listed ==
  /\ bad' = bad \cup IF \A n \in ToSet(work_list) : Live(n) THEN {} ELSE {"listed"}
  /\ UNCHANGED late
\* A thread found that nobody needs the node, which will be freed.
GivenUp(n) ==
  \/ nod[n].freeflag
  \/ rcv.pc = "flag" /\ rcv.node = n
  \/ \E s \in Subs : rpc[s].pc = "flag" /\ rpc[s].cbdev = n

-----------------------------------------------------------------------------
(* The applications.                                                       *)

\* cb_bb_ioctl: connect and ask for the event.
Subscribe(s) ==
  /\ s \in setup.subs /\ app[s] = "idle"
  /\ app' = [app EXCEPT ![s] = "waiting"]
  /\ rpc' = [rpc EXCEPT ![s].conn = TRUE]
  /\ UNCHANGED <<nod, work_list, snd, rcv, wire, plugVars, freedVars>>

\* It gives up waiting, is refused, exits, or sees that the daemon hung up.
Leave(s) ==
  /\ app[s] \in {"waiting", "subscribed", "refused"}
  /\ app' = [app EXCEPT ![s] = "closed"]
  /\ rpc' = [rpc EXCEPT ![s].conn = FALSE]
  /\ UNCHANGED <<nod, work_list, snd, rcv, wire, plugVars, freedVars>>

(* cb_rpc_cb: while the application waits, whatever comes is its answer,   *)
(* an event too, which is lost that way.                                   *)
Hears(a, frame) ==
  IF a = "waiting" THEN IF frame = "REQ_FAL" THEN "refused" ELSE "subscribed" ELSE a
Told(who, frame) ==
  app' = [s \in Subs |-> IF s \in who /\ rpc[s].conn THEN Hears(app[s], frame) ELSE app[s]]

-----------------------------------------------------------------------------
(* The rpc thread of a connection: rpc_cb_read, then cb_rpc_node_end.      *)

\* Under the list's lock: the node of the event, or a new one at the head.
RpcFind(s) ==
  /\ rpc[s].conn /\ rpc[s].pc = "none" /\ plug /= "stopped" /\ Listed
  /\ IF work_list /= <<>>
       THEN /\ rpc' = [rpc EXCEPT ![s].pc = "found", ![s].cbdev = Head(work_list)]
            /\ UNCHANGED <<nod, work_list>>
       ELSE /\ rpc' = [rpc EXCEPT ![s].pc = "found", ![s].cbdev = s]
            /\ nod' = [nod EXCEPT ![s].mem = "live"]
            /\ work_list' = <<s>>
  /\ UNCHANGED <<app, snd, rcv, wire, plugVars>>

\* Under the node's lock, which is another one.
RpcAttach(s) ==
  /\ rpc[s].pc = "found" /\ UseOf(rpc[s].cbdev, "late")
  /\ late' = late \cup IF GivenUp(rpc[s].cbdev) THEN {s} ELSE {}
  /\ rpc' = [rpc EXCEPT ![s].pc = "attached"]
  /\ nod' = [nod EXCEPT ![rpc[s].cbdev].head = @ \cup {s}]
  /\ UNCHANGED <<app, work_list, snd, rcv, wire, plugVars>>

\* The event is subscribed already: the connection joins and is answered.
RpcStatus(s) ==
  LET joined == nod[rpc[s].cbdev].status = "wait_usb_data" IN
  /\ rpc[s].pc = "attached" /\ UsesOwn(s, "ask")
  /\ rpc' = [rpc EXCEPT ![s].pc = IF joined THEN "reply" ELSE "check",
                        ![s].initflag = @ \/ joined]
  /\ UNCHANGED <<app, nod, work_list, snd, rcv, wire, plugVars>>

RpcReply(s) ==
  /\ rpc[s].pc = "reply"
  /\ rpc' = [rpc EXCEPT ![s].pc = "read"]
  /\ Told({s}, "REQ_RET")
  /\ UNCHANGED <<nod, work_list, snd, rcv, wire, plugVars, freedVars>>

\* Otherwise the first one asks for the command, without a lock.
RpcCheck(s) ==
  /\ rpc[s].pc = "check" /\ UsesOwn(s, "ask")
  /\ rpc' = [rpc EXCEPT ![s].pc =
               IF nod[rpc[s].cbdev].status = "not_init" THEN "start" ELSE "read"]
  /\ UNCHANGED <<app, nod, work_list, snd, rcv, wire, plugVars>>

RpcStart(s) ==
  /\ rpc[s].pc = "start" /\ UsesOwn(s, "ask")
  /\ rpc' = [rpc EXCEPT ![s].pc = "read"]
  /\ nod' = [nod EXCEPT ![rpc[s].cbdev].status = "need_send_cmd"]
  /\ UNCHANGED <<app, work_list, snd, rcv, wire, plugVars>>

RpcEnd(s) ==
  /\ rpc[s].pc = "read" /\ ~ rpc[s].conn /\ UsesOwn(s, "leave")
  /\ rpc' = [rpc EXCEPT ![s].pc = "end"]
  /\ nod' = [nod EXCEPT ![rpc[s].cbdev].head = @ \ {s}]
  /\ UNCHANGED <<app, work_list, snd, rcv, wire, plugVars>>

\* check_all_exit: a node in teardown is freed with its last subscriber.
RpcEndCheck(s) ==
  LET n == rpc[s].cbdev
      last == nod[n].exitflg /\ nod[n].head = {}
  IN  /\ rpc[s].pc = "end" /\ Uses(n, "left")
      /\ rpc' = [rpc EXCEPT ![s].pc = IF last THEN "flag" ELSE "done"]
      /\ UNCHANGED <<app, nod, work_list, snd, rcv, wire, plugVars>>

\* bn_set_free: the flag, and then the list the node is in, to wake the send
\* thread up.
RpcFlag(s) ==
  /\ rpc[s].pc = "flag" /\ Uses(rpc[s].cbdev, "left")
  /\ rpc' = [rpc EXCEPT ![s].pc = "notify"]
  /\ nod' = [nod EXCEPT ![rpc[s].cbdev].freeflag = TRUE]
  /\ UNCHANGED <<app, work_list, snd, rcv, wire, plugVars>>

RpcNotify(s) ==
  /\ rpc[s].pc = "notify" /\ Uses(rpc[s].cbdev, "notify")
  /\ rpc' = [rpc EXCEPT ![s].pc = "done"]
  /\ UNCHANGED <<app, nod, work_list, snd, rcv, wire, plugVars>>

-----------------------------------------------------------------------------
(* What the receive thread, and for BB_EVENT_OFFLINE the send thread, does *)
(* with the subscribers once the event is subscribed: first those without  *)
(* initflag are told, then all are marked.                                 *)
Unmarked(n) == {s \in nod[n].head : ~ rpc[s].initflag}
Marked(n) == {s \in nod[n].head : rpc[s].initflag}
MarkAll(n) == rpc' = [s \in Subs |-> [rpc[s] EXCEPT !.initflag = @ \/ s \in nod[n].head]]

-----------------------------------------------------------------------------
(* The send thread; see SockNode for the scan and the second look.         *)
ToWork(n) == nod[n].freeflag \/ nod[n].status = "need_send_cmd"

Scan ==
  /\ snd.pc = "scan" /\ plug /= "stopped" /\ Listed
  /\ \E i \in DOMAIN work_list :
       LET n == work_list[i] IN
       /\ ToWork(n) /\ \A j \in 1 .. i - 1 : ~ ToWork(work_list[j])
       /\ snd' = [pc |-> IF nod[n].freeflag THEN "free" ELSE "picked", node |-> n]
       /\ work_list' = IF nod[n].freeflag THEN RemoveAt(work_list, i) ELSE work_list
  /\ UNCHANGED <<app, rpc, nod, rcv, wire, plugVars>>

Recheck ==
  /\ snd.pc = "picked" /\ Uses(snd.node, "send")
  /\ snd' = [snd EXCEPT !.pc = IF nod[snd.node].freeflag THEN "free" ELSE "make"]
  /\ UNCHANGED <<app, rpc, nod, work_list, rcv, wire, plugVars>>

SendDone == snd' = [pc |-> "scan", node |-> NoNode]

\* The loop ends after one command: the node no longer needs to write.
PackMake ==
  LET n == snd.node IN
  /\ snd.pc = "make" /\ ~ setup.offline /\ Uses(snd.node, "send")
  /\ SendDone
  /\ IF nod[n].status = "need_send_cmd"
       THEN /\ nod' = [nod EXCEPT ![n].status = "wait_usb_cmd"]
            /\ toDev' = IF plug = "in" THEN Append(toDev, "sub") ELSE toDev
       ELSE UNCHANGED <<nod, toDev>>
  /\ UNCHANGED <<app, rpc, work_list, rcv, fromDev, events, plugVars>>

\* offline_cb_dev_pack_make: subscribed without asking the device.
PackMakeOffline ==
  /\ snd.pc = "make" /\ setup.offline /\ Uses(snd.node, "send")
  /\ nod' = [nod EXCEPT ![snd.node].status = "wait_usb_data"]
  /\ snd' = [snd EXCEPT !.pc = "tell"]
  /\ UNCHANGED <<app, rpc, work_list, rcv, wire, plugVars>>

OfflineTell ==
  /\ snd.pc = "tell" /\ Uses(snd.node, "send")
  /\ Told(Unmarked(snd.node), "REQ_RET")
  /\ snd' = [snd EXCEPT !.pc = "mark"]
  /\ UNCHANGED <<rpc, nod, work_list, rcv, wire, plugVars>>

OfflineMark ==
  /\ snd.pc = "mark" /\ Uses(snd.node, "send")
  /\ MarkAll(snd.node) /\ SendDone
  /\ UNCHANGED <<app, nod, work_list, rcv, wire, plugVars>>

\* cb_dev_deinit: the node is freed and a waiting teardown told.
Deinit ==
  /\ snd.pc = "free" /\ Uses(snd.node, "listed")
  /\ nod' = [nod EXCEPT ![snd.node].mem = "freed"]
  /\ cls_head' = cls_head \ {snd.node}
  /\ SendDone
  /\ UNCHANGED <<app, rpc, work_list, rcv, wire, plug, setup>>

-----------------------------------------------------------------------------
(* The receive thread: cb_dev_pack_proc tells a reply from an event by the *)
(* node's status alone.                                                    *)
RecvFind ==
  /\ rcv.pc = "idle" /\ fromDev /= <<>> /\ Listed
  /\ fromDev' = Tail(fromDev)
  /\ rcv' = IF work_list = <<>> THEN rcv
            ELSE [pc |-> "proc", node |-> Head(work_list), pack |-> Head(fromDev)]
  /\ UNCHANGED <<app, rpc, nod, work_list, snd, toDev, events, plugVars>>

RecvDone == rcv' = [pc |-> "idle", node |-> NoNode, pack |-> "none"]

RecvReply ==
  LET ok == rcv.pack /= "fail" IN
  /\ rcv.pc = "proc" /\ nod[rcv.node].status = "wait_usb_cmd" /\ Uses(rcv.node, "proc")
  /\ nod' = [nod EXCEPT ![rcv.node].status = IF ok THEN "wait_usb_data" ELSE "not_init"]
  /\ rcv' = [rcv EXCEPT !.pc = IF ok THEN "ok" ELSE "fail"]
  /\ UNCHANGED <<app, rpc, work_list, snd, wire, plugVars>>

\* Slip: the subscribers that wait are not told.
RecvOkSilent ==
  /\ rcv.pc = "ok" /\ Uses(rcv.node, "proc")
  /\ rcv' = [rcv EXCEPT !.pc = "mark"]
  /\ UNCHANGED <<app, rpc, nod, work_list, snd, wire, plugVars>>

RecvOk ==
  /\ rcv.pc = "ok" /\ Uses(rcv.node, "proc")
  /\ Told(Unmarked(rcv.node), "REQ_RET")
  /\ rcv' = [rcv EXCEPT !.pc = "mark"]
  /\ UNCHANGED <<rpc, nod, work_list, snd, wire, plugVars>>

\* Slip: nobody is marked.
RecvMarkNone ==
  /\ rcv.pc = "mark" /\ Uses(rcv.node, "proc")
  /\ RecvDone
  /\ UNCHANGED <<app, rpc, nod, work_list, snd, wire, plugVars>>

RecvMark ==
  /\ rcv.pc = "mark" /\ Uses(rcv.node, "proc")
  /\ MarkAll(rcv.node) /\ RecvDone
  /\ UNCHANGED <<app, nod, work_list, snd, wire, plugVars>>

\* Slip: the node is given up though somebody waits.
RecvFailAlways ==
  /\ rcv.pc = "fail" /\ Uses(rcv.node, "proc")
  /\ Told(Unmarked(rcv.node), "REQ_FAL")
  /\ rcv' = [rcv EXCEPT !.pc = "flag"]
  /\ UNCHANGED <<rpc, nod, work_list, snd, wire, plugVars>>

\* Refused: who waits is told; a node without subscribers is given up, by
\* bn_set_free, whoever attaches meanwhile.
RecvFail ==
  LET n == rcv.node IN
  /\ rcv.pc = "fail" /\ Uses(n, "proc")
  /\ IF nod[n].head /= {}
       THEN Told(Unmarked(n), "REQ_FAL") /\ RecvDone
       ELSE rcv' = [rcv EXCEPT !.pc = "flag"] /\ UNCHANGED app
  /\ UNCHANGED <<rpc, nod, work_list, snd, wire, plugVars>>

RecvFlag ==
  /\ rcv.pc = "flag" /\ Uses(rcv.node, "proc")
  /\ nod' = [nod EXCEPT ![rcv.node].freeflag = TRUE]
  /\ rcv' = [rcv EXCEPT !.pc = "notify"]
  /\ UNCHANGED <<app, rpc, work_list, snd, wire, plugVars>>

RecvNotify ==
  /\ rcv.pc = "notify" /\ Uses(rcv.node, "notify")
  /\ RecvDone
  /\ UNCHANGED <<app, rpc, nod, work_list, snd, wire, plugVars>>

\* Whatever comes to a subscribed node is an event; other frames are dropped.
RecvEvent ==
  LET n == rcv.node IN
  /\ rcv.pc = "proc" /\ nod[n].status /= "wait_usb_cmd" /\ Uses(n, "proc")
  /\ IF nod[n].status = "wait_usb_data"
       THEN Told(Marked(n), "DAT_RET")
       ELSE UNCHANGED app
  /\ RecvDone
  /\ UNCHANGED <<rpc, nod, work_list, snd, wire, plugVars>>

-----------------------------------------------------------------------------
(* The device (external): it answers the command, and sends events.        *)
DevReply ==
  /\ toDev /= <<>>
  /\ toDev' = Tail(toDev)
  /\ \E r \in {"ok"} \cup (IF setup.fail THEN {"fail"} ELSE {}) :
       fromDev' = Append(fromDev, r)
  /\ UNCHANGED <<app, rpc, nod, work_list, snd, rcv, events, plugVars, freedVars>>

Subscribed == \E n \in Nodes : nod[n].status = "wait_usb_data"

DevEvent ==
  /\ plug = "in" /\ ~ setup.offline /\ Subscribed /\ events < MaxEvents
  /\ events' = events + 1
  /\ fromDev' = Append(fromDev, "event")
  /\ UNCHANGED <<app, rpc, nod, work_list, snd, rcv, toDev, plugVars, freedVars>>

Unplug ==
  /\ setup.unplug /\ plug = "in"
  /\ plug' = "out"
  /\ toDev' = <<>> /\ fromDev' = <<>>
  /\ UNCHANGED <<app, rpc, nod, work_list, snd, rcv, events, cls_head, setup, freedVars>>

(* del_worknod and cb_dev_cls: a node without subscribers is marked to be  *)
(* freed, the connections of the others are shut down.                     *)
TearDown ==
  LET asked == ToSet(work_list) IN
  /\ plug = "out" /\ Listed
  /\ plug' = "teardown"
  /\ cls_head' = asked
  /\ nod' = [n \in Nodes |->
               [nod[n] EXCEPT !.exitflg = @ \/ n \in asked,
                              !.freeflag = @ \/ (n \in asked /\ nod[n].head = {})]]
  /\ rpc' = [s \in Subs |->
               [rpc[s] EXCEPT !.conn = @ /\ \A n \in asked : s \notin nod[n].head]]
  /\ UNCHANGED <<app, work_list, snd, rcv, wire, setup>>

TearDownDone ==
  /\ plug = "teardown" /\ cls_head = {}
  /\ plug' = "stopped"
  /\ UNCHANGED <<app, rpc, nod, work_list, snd, rcv, wire, cls_head, setup, freedVars>>

-----------------------------------------------------------------------------
Rpc(s) ==
  \/ RpcFind(s) \/ RpcAttach(s) \/ RpcStatus(s) \/ RpcReply(s) \/ RpcCheck(s)
  \/ RpcStart(s) \/ RpcEnd(s) \/ RpcEndCheck(s) \/ RpcFlag(s) \/ RpcNotify(s)
SendThread ==
  Scan \/ Recheck \/ PackMake \/ PackMakeOffline \/ OfflineTell \/ OfflineMark \/ Deinit
RecvThread ==
  RecvFind \/ RecvReply \/ RecvOk \/ RecvMark \/ RecvFail \/ RecvFlag \/ RecvNotify \/ RecvEvent
Poll == TearDown \/ TearDownDone

Next ==
  \/ \E s \in Subs : Subscribe(s) \/ Leave(s) \/ Rpc(s)
  \/ SendThread \/ RecvThread
  \/ DevReply \/ DevEvent \/ Unplug \/ Poll

Spec == Init /\ [][Next]_vars

(* The daemon's threads go on, the device answers, and an application that *)
(* was refused or cut off closes; one that waits or listens need not.      *)
Fairness ==
  /\ \A s \in Subs :
       WF_vars(Rpc(s)) /\ WF_vars(Leave(s) /\ (app[s] = "refused" \/ ~ rpc[s].conn))
  /\ WF_vars(SendThread) /\ WF_vars(RecvThread) /\ WF_vars(DevReply) /\ WF_vars(Poll)

FairSpec == Spec /\ Fairness

-----------------------------------------------------------------------------
(* Every variable holds a value the code can give it. *)
TypeOK ==
  /\ app \in [Subs -> {"idle", "waiting", "subscribed", "refused", "closed"}]
  /\ rpc \in [Subs -> Connection] /\ nod \in [Nodes -> Node]
  /\ ToSet(work_list) \subseteq Nodes /\ IsInjective(work_list)
  /\ snd \in [pc : {"scan", "picked", "make", "tell", "mark", "free"},
              node : Nodes \cup {NoNode}]
  /\ rcv.pc \in {"idle", "proc", "ok", "mark", "fail", "flag", "notify"}
  /\ rcv.node \in Nodes \cup {NoNode}
  /\ ToSet(toDev) \subseteq {"sub"} /\ ToSet(fromDev) \subseteq {"ok", "fail", "event"}
  /\ events \in 0 .. MaxEvents
  /\ plug \in {"in", "out", "teardown", "stopped"} /\ cls_head \subseteq Nodes
  /\ late \subseteq Subs /\ setup \in Setups

(***************************************************************************)
(* A connection that attached to a node keeps it until it detaches, even   *)
(* if the device refuses the event or is unplugged, unless it came late:   *)
(* it finds the node without the lock it attaches under (get_cb_dev_node), *)
(* and the node was given up in between.  A node that was freed is further *)
(* used by a connection that looks at it once more after it detached, by a *)
(* thread that marked it and wakes up the send thread through it, and by   *)
(* the receive thread, also because it may be freed while still in the     *)
(* list.  All this needs a refusal or the unplugging; nothing else uses a  *)
(* node that was freed.                                                    *)
(***************************************************************************)
Attached == {"attached", "reply", "check", "start", "read"}
NodesKept ==
  /\ \A s \in Subs : rpc[s].pc \in Attached /\ s \notin late => Live(rpc[s].cbdev)
  /\ bad \subseteq IF setup.fail \/ setup.unplug
                  THEN {"late", "left", "notify", "proc", "listed"} ELSE {}

\* The command is sent once: the device announced the event and takes it, or
\* one application asks for it.
OneAsks == IF setup.base THEN ~ setup.fail ELSE \A s, t \in setup.subs : s = t

(***************************************************************************)
(* No event is missed: between two frames of the device, an application    *)
(* that was told it is subscribed is attached to the node that gets the    *)
(* frames, marked, and that node takes what comes for an event.  Where the *)
(* command may be sent twice the second one has the event subscribed anew, *)
(* and what comes before its reply is lost.                                *)
(***************************************************************************)
SubscribersGetEvents ==
  OneAsks /\ plug = "in" /\ rcv.pc \in {"idle", "proc"} /\ snd.pc /= "mark" =>
    \A s \in Subs : app[s] = "subscribed" =>
      /\ work_list /= <<>> /\ s \in nod[Head(work_list)].head
      /\ rpc[s].initflag /\ nod[Head(work_list)].status = "wait_usb_data"

(***************************************************************************)
(* A reply and an event cannot be mistaken for each other: exactly while   *)
(* the node waits for the reply there is one command or reply on its way,  *)
(* and no reply is ever handed to the subscribers as an event.             *)
(* So it is for the events the device announced, and for one subscriber of *)
(* another event; two may both have it subscribed, and the second reply is *)
(* then taken for an event.                                                *)
(***************************************************************************)
RepliesOut ==
  Len(toDev) + Cardinality({k \in DOMAIN fromDev : fromDev[k] /= "event"})
    + (IF rcv.pc = "proc" /\ rcv.pack /= "event" THEN 1 ELSE 0)
OneReplyAwaited == OneAsks =>
  /\ plug = "in" =>
       RepliesOut =
         IF \E n \in ToSet(work_list) : nod[n].status = "wait_usb_cmd" THEN 1 ELSE 0
  /\ rcv.pc = "proc" /\ nod[rcv.node].status = "wait_usb_data" => rcv.pack = "event"

(***************************************************************************)
(* An application that asks for the event gets an answer, as long as the   *)
(* device stays and it did not attach to a node that was given up.         *)
(***************************************************************************)
Answered ==
  \A s \in Subs : ~ setup.unplug /\ app[s] = "waiting" ~> app[s] /= "waiting" \/ s \in late

\* An application subscribed when the device goes sees its connection end, with
\* the same exception.
UnplugSeen ==
  \A s \in Subs : plug = "out" /\ app[s] = "subscribed" ~> app[s] = "closed" \/ s \in late

\* Subscribers keep their node, and replies and events are told apart; the
\* types.
CallbacksSafe == TypeOK /\ NodesKept /\ OneReplyAwaited

\* Who subscribes is answered, and hears that the device was unplugged.
SubscribersAnswered == Answered /\ UnplugSeen
=============================================================================
