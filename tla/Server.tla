------------------------------- MODULE Server -------------------------------
(***************************************************************************)
(* The rpc server of the daemon: a thread per connection                   *)
(* (daemon/rpc_init.c) that answers what can be answered at once or binds  *)
(* the connection to a device (daemon/rpc_dev_bind.c,                      *)
(* rpc_platform_ctrl.c), the list of working devices (rpc_dev_proc.c), the *)
(* subscribers to hotplug events (dev8030/hotplug_rpc.c) and the poll      *)
(* thread that tells them (main.c).  The other end of a connection is a    *)
(* call of the client library (app/ar8030/bb_dev.c, session_hotplug.c),    *)
(* which opens a connection of its own for each of them.                   *)
(*                                                                         *)
(* The devices are those of USB (usb_dev.c), whose lock the poll thread    *)
(* keeps until all subscribers have been sent an event.  Left out: what a  *)
(* bound connection does (modules SockNode, Callback, Ioctl, CmdLine), how *)
(* a device comes to work (UsbDev, UartDev), failing allocations.  TCP and *)
(* the applications are external.                                          *)
(***************************************************************************)
EXTENDS Integers, Sequences, SequencesExt

CONSTANTS
  Conns,        \* connections there can be at a time
  May,          \* what each of them may be opened for
  MaxDevs,      \* bound: devices that start to work
  MaxCalls,     \* bound: connections made
  Buf           \* messages a connection holds before send blocks

\* What a connection is opened for; "open" is test_workid, "plat_none" a
\* platform request the daemon does not know, "bind" any request to a device.
Requests == {"test", "list", "mac", "open", "plat", "plat_none", "hotplug", "bind"}

ASSUME ServerBounds ==
  May \in [Conns -> SUBSET Requests] /\ MaxDevs \in Nat /\ MaxCalls \in Nat /\ Buf \in Nat \ {0}

VARIABLES
  work,             \* info8030_list: ids of the devices that work
  nxt_working_id,
  poll, evt, left,  \* the poll thread, the event it sends, who is left to get it
  hot,              \* head_hotplug_cb
  conn,             \* the thread of a connection
  call,             \* the call of the client
  calls,
  toCli,            \* messages on their way to the client
  closed,           \* the client has closed the connection
  got, due,         \* history: events a client received, and had to receive
  shrunk,           \* history: a device went away during the call
  held, stale       \* history: connections whose device goes away between its look-up
                    \* and its use, and those that used the list of one that is freed

devs == <<work, nxt_working_id>>
polls == <<poll, evt, left>>
hist == <<got, due, shrunk, held, stale>>
vars == <<work, nxt_working_id, poll, evt, left, hot, conn, call, calls, toCli, closed,
          got, due, shrunk, held, stale>>

Ids == 0 .. MaxDevs - 1
Junk == -1          \* an id nobody wrote

Idle == [pc |-> "none", prpc |-> "none", sz |-> 0]
NoCall == [st |-> "idle", req |-> "test", id |-> 0, res |-> "none", ids |-> <<>>]

Init ==
  /\ work = <<>> /\ nxt_working_id = 0
  /\ poll = "scan" /\ evt = [id |-> 0, status |-> 0] /\ left = <<>>
  /\ hot = <<>> /\ conn = [c \in Conns |-> Idle] /\ call = [c \in Conns |-> NoCall] /\ calls = 0
  /\ toCli = [c \in Conns |-> <<>>] /\ closed = [c \in Conns |-> FALSE]
  /\ got = [c \in Conns |-> <<>>] /\ due = [c \in Conns |-> <<>>]
  /\ shrunk = [c \in Conns |-> FALSE] /\ held = {} /\ stale = {}

Msg(kind, sta, ids) == [kind |-> kind, sta |-> sta, ids |-> ids]

\* send() on a blocking socket; what a client that is gone is sent is lost.
CanSend(c) == closed[c] \/ Len(toCli[c]) < Buf
SendTo(c, m) == toCli' = IF closed[c] THEN toCli ELSE [toCli EXCEPT ![c] = Append(@, m)]

-----------------------------------------------------------------------------
(* The client library.                                                     *)
Has(c, st) == call[c].st = st

\* create_tcp_connect, one request; rpc_listen_thread accepts and starts the
\* thread of the connection.
Connect(c) ==
  /\ Has(c, "idle") /\ conn[c].pc = "none" /\ calls < MaxCalls
  /\ calls' = calls + 1
  /\ \E r \in May[c] : \E i \in IF r \in {"open", "mac", "bind"} THEN Ids ELSE {0} :
       call' = [call EXCEPT ![c] = [NoCall EXCEPT !.st = "wait", !.req = r, !.id = i]]
  /\ conn' = [conn EXCEPT ![c] = [Idle EXCEPT !.pc = "recv"]]
  /\ UNCHANGED <<devs, polls, hot, toCli, closed, hist>>

Finish(c, res, ids) ==
  /\ call' = [call EXCEPT ![c].st = "done", ![c].res = res, ![c].ids = ids]
  /\ closed' = [closed EXCEPT ![c] = TRUE] /\ toCli' = [toCli EXCEPT ![c] = <<>>]
  /\ got' = [got EXCEPT ![c] = <<>>] /\ due' = [due EXCEPT ![c] = <<>>]
  /\ UNCHANGED <<shrunk, held, stale>>

Answer(c, req, res(_), ids(_)) ==
  /\ Has(c, "wait") /\ call[c].req = req /\ toCli[c] # <<>>
  /\ Finish(c, res(Head(toCli[c])), ids(Head(toCli[c])))
  /\ UNCHANGED <<devs, polls, hot, conn, calls>>
Ok(m) == "ok"
NoIds(m) == <<>>
MsgIds(m) == m.ids

\* server_test: any answer will do.
HostConnected(c) == Answer(c, "test", Ok, NoIds)

\* get_workid_list
ListGot(c) == Answer(c, "list", Ok, MsgIds)

\* get_remote_mac: a device that is not there has no mac.
InfoGot(c) == Answer(c, "mac", LAMBDA m : IF m.sta > 0 THEN "mac" ELSE "ok", NoIds)

\* test_workid; a refusal is told from its sta, but only in another answer.
Accepts(m) == IF m.sta = 0 \/ m.kind = "open" THEN "ok" ELSE "refused"
WorkidTested(c) == Answer(c, "open", Accepts, NoIds)

\* platform_cb
PlatAnswered(c) == Answer(c, "plat", Ok, NoIds)

BindAnswered(c) == Answer(c, "bind", Ok, NoIds)

Answered(c) == \/ HostConnected(c) \/ ListGot(c) \/ InfoGot(c)
               \/ WorkidTested(c) \/ PlatAnswered(c) \/ BindAnswered(c)

\* The answer did not come in 100 ms; platform_com_ctrl waits without limit,
\* and bound connections have timeouts of their own.
GiveUp(c) ==
  /\ Has(c, "wait") /\ call[c].req \in {"test", "list", "mac", "open", "bind"}
  /\ Finish(c, "timeout", <<>>)
  /\ UNCHANGED <<devs, polls, hot, conn, calls>>

\* hotplug_rpc_cb: a message without data is the answer, any other an event.
Hotplug(c) ==
  /\ call[c].req = "hotplug" /\ call[c].st \in {"wait", "on"} /\ toCli[c] # <<>>
  /\ LET m == Head(toCli[c]) IN
       IF m.kind = "ack" THEN call' = [call EXCEPT ![c].st = "on"] /\ got' = got
       ELSE call' = call /\ got' = [got EXCEPT ![c] = Append(@, m.ids)]
  /\ toCli' = [toCli EXCEPT ![c] = Tail(@)]
  /\ UNCHANGED <<devs, polls, hot, conn, calls, closed, due, shrunk, held, stale>>

\* bb_host_disconnect.
Disconnect(c) ==
  /\ Has(c, "on") /\ Finish(c, "ok", <<>>)
  /\ UNCHANGED <<devs, polls, hot, conn, calls>>

\* The connection is over on both sides.
Forget(c) ==
  /\ Has(c, "done") /\ conn[c].pc = "none"
  /\ call' = [call EXCEPT ![c] = NoCall]
  /\ closed' = [closed EXCEPT ![c] = FALSE] /\ shrunk' = [shrunk EXCEPT ![c] = FALSE]
  /\ held' = held \ {c} /\ stale' = stale \ {c}
  /\ UNCHANGED <<devs, polls, hot, conn, calls, toCli, got, due>>

Client(c) == Answered(c) \/ Hotplug(c) \/ Forget(c)

-----------------------------------------------------------------------------
(* nod_read_thread: receive, and dispatch what came by its request.        *)
Goto(c, pc) == conn' = [conn EXCEPT ![c].pc = pc]

Recv(c) ==
  /\ conn[c].pc = "recv" /\ conn[c].prpc = "none"
  /\ IF call[c].st = "wait" THEN Goto(c, call[c].req) ELSE closed[c] /\ Goto(c, "end")
  /\ UNCHANGED <<devs, polls, hot, call, calls, toCli, closed, hist>>

\* rpc_hotplug_read does nothing; a bound connection ends with its client.
RecvEnd(c) ==
  /\ conn[c].pc \in {"recv", "served"} /\ closed[c] /\ Goto(c, "end")
  /\ UNCHANGED <<devs, polls, hot, call, calls, toCli, closed, hist>>

Reply(c, m, pc) == CanSend(c) /\ SendTo(c, m) /\ Goto(c, pc)

\* ret_test.
Test(c) ==
  /\ conn[c].pc = "test" /\ Reply(c, Msg("test", 0, <<>>), "served")
  /\ UNCHANGED <<devs, polls, hot, call, calls, closed, hist>>

\* rpc_plat_proc for the requests it knows: uart_ctrl (what it does to the
\* lines is UartDev's SerialSetup), daemon_set_dbg and daemon_get_dbg.
Plat(c) ==
  /\ conn[c].pc = "plat"
  /\ \E sta \in {0, -1} : Reply(c, Msg("plat", sta, <<>>), "served")
  /\ UNCHANGED <<devs, polls, hot, call, calls, closed, hist>>

\* rpc_plat_proc makes a packet for any other request and does not send it.
PlatNone(c) ==
  /\ conn[c].pc = "plat_none" /\ Goto(c, "served")
  /\ UNCHANGED <<devs, polls, hot, call, calls, toCli, closed, hist>>

\* The poll thread has the lock of the USB devices.
Locked == poll # "scan"

\* Slip: devices that went away are counted.
GetSzEver == nxt_working_id

\* usbrpc_getsz: use_cnt, without the lock; the poll thread sets it last.
UseCnt == IF ~ Locked THEN Len(work) ELSE IF evt.status = 1 THEN Len(work) - 1 ELSE Len(work) + 1

GetSzAll == UseCnt

\* get_list_proc: rpc_dev_getsz, and later rpc_dev_getid_all into memory
\* nobody has written.
GetSz(c) ==
  /\ conn[c].pc = "list"
  /\ conn' = [conn EXCEPT ![c].pc = "ids", ![c].sz = GetSzAll]
  /\ shrunk' = [shrunk EXCEPT ![c] = Locked /\ evt.status = 0]
  /\ UNCHANGED <<devs, polls, hot, call, calls, toCli, closed, got, due, held, stale>>

\* usbrpc_getid_all
UsbIds(sz) == SubSeq(work, 1, IF sz > UseCnt THEN UseCnt ELSE sz)

GetId(sz) == UsbIds(sz) \o [i \in 1 .. sz - Len(UsbIds(sz)) |-> Junk]

GetIdAll(c) ==
  /\ conn[c].pc = "ids" /\ (conn[c].sz > 0 => ~ Locked)
  /\ Reply(c, Msg("list", conn[c].sz, GetId(conn[c].sz)), "served")
  /\ UNCHANGED <<devs, polls, hot, call, calls, closed, hist>>

\* usbrpc_get_info: the device is used after the lock is released.
GetInfo(c) == ~ Locked /\ call[c].id \in ToSet(work)
NoInfo(c) == ~ Locked /\ call[c].id \notin ToSet(work)

\* get_mac: the look-up of rpc_dev_fill_serial.
GetMac(c) ==
  /\ conn[c].pc = "mac"
  /\ \/ GetInfo(c) /\ Goto(c, "serial") /\ toCli' = toCli
     \/ NoInfo(c) /\ Reply(c, Msg("mac", -1, <<>>), "served")
  /\ UNCHANGED <<devs, polls, hot, call, calls, closed, hist>>

\* rpc_dev_get_plist.
GetPlist(c) == GetInfo(c)

Select(c) ==
  /\ conn[c].pc = "open"
  /\ \/ GetPlist(c) /\ Reply(c, Msg("open", 0, <<>>), "served")
     \/ NoInfo(c) /\ Reply(c, Msg("open", -1, <<>>), "served")
  /\ UNCHANGED <<devs, polls, hot, call, calls, closed, hist>>

Bind(c) ==
  /\ conn[c].pc = "bind"
  /\ \/ GetPlist(c) /\ Goto(c, "start") /\ toCli' = toCli
     \/ NoInfo(c) /\ Reply(c, Msg("open", -1, <<>>), "served")
  /\ UNCHANGED <<devs, polls, hot, call, calls, closed, hist>>

\* Ids whose dev_node_list was freed.
Freed == (0 .. nxt_working_id - 1) \ (ToSet(work) \cup IF poll = "free" THEN {evt.id} ELSE {})
Uses(c) == stale' = IF call[c].id \in Freed THEN stale \cup {c} ELSE stale

\* usbrpc_fill_serial, with the device that was looked up before.
FillSerial(c) ==
  /\ conn[c].pc = "serial" /\ Reply(c, Msg("mac", 1, <<>>), "served")
  /\ Uses(c)
  /\ UNCHANGED <<devs, polls, hot, call, calls, closed, got, due, shrunk, held>>

\* The node starts with the list that was looked up before.
Start(c) ==
  /\ conn[c].pc = "start" /\ Reply(c, Msg("node", 0, <<>>), "served")
  /\ Uses(c)
  /\ UNCHANGED <<devs, polls, hot, call, calls, closed, got, due, shrunk, held>>

\* hotplug_cb_alloc: into the list with head_hotplug_lk, then the answer.
HotAdd(c) ==
  /\ conn[c].pc = "hotplug" /\ poll # "send"
  /\ hot' = Append(hot, c) /\ conn' = [conn EXCEPT ![c].pc = "ack", ![c].prpc = "hotplug"]
  /\ UNCHANGED <<devs, polls, call, calls, toCli, closed, hist>>

HotAck(c) ==
  /\ conn[c].pc = "ack" /\ Reply(c, Msg("ack", 0, <<>>), "recv")
  /\ UNCHANGED <<devs, polls, hot, call, calls, closed, hist>>

\* Slip: the subscriber is freed while it is in the list.
EndHotKept(c) == hot' = hot

\* rpc_hotplug_end.
EndHot(c) == poll # "send" /\ \E i \in DOMAIN hot : hot[i] = c /\ hot' = RemoveAt(hot, i)

\* clean_up_node: the node, the socket and the threadinfo.
End(c) ==
  /\ conn[c].pc = "end"
  /\ IF conn[c].prpc = "hotplug" THEN EndHot(c) ELSE hot' = hot
  /\ conn' = [conn EXCEPT ![c] = Idle]
  /\ UNCHANGED <<devs, polls, call, calls, toCli, closed, hist>>

Thread(c) == \/ Recv(c) \/ RecvEnd(c) \/ Test(c) \/ Plat(c) \/ PlatNone(c) \/ GetSz(c) \/ GetIdAll(c)
             \/ GetMac(c) \/ FillSerial(c) \/ Select(c) \/ Bind(c) \/ Start(c) \/ HotAdd(c) \/ HotAck(c) \/ End(c)

-----------------------------------------------------------------------------
(* The poll thread: dev8030_poll, and dev8030_hotplug_event.               *)
\* rpc_dev_get_nxt_working_id.
Plug ==
  /\ poll = "scan" /\ nxt_working_id < MaxDevs
  /\ work' = <<nxt_working_id>> \o work /\ nxt_working_id' = nxt_working_id + 1
  /\ poll' = "check" /\ evt' = [id |-> nxt_working_id, status |-> 1]
  /\ UNCHANGED <<left, hot, conn, call, calls, toCli, closed, hist>>

Unplug ==
  /\ poll = "scan"
  /\ \E i \in DOMAIN work :
       /\ work' = RemoveAt(work, i)
       /\ evt' = [id |-> work[i], status |-> 0]
  /\ poll' = "free" /\ shrunk' = [c \in Conns |-> conn[c].pc = "ids" \/ shrunk[c]]
  /\ held' = held \cup {c \in Conns : conn[c].pc \in {"start", "serial"} /\ call[c].id = evt'.id}
  /\ UNCHANGED <<nxt_working_id, left, hot, conn, call, calls, toCli, closed, got, due, stale>>

\* dev_node_force_exit frees the list that rpc_dev_get_plist gave out, whoever
\* was given it.
Free ==
  /\ poll = "free" /\ poll' = "check"
  /\ UNCHANGED <<work, nxt_working_id, evt, left, hot, conn, call, calls, toCli, closed, hist>>

\* list_empty, without the lock.
Check ==
  /\ poll = "check" /\ left' = hot
  /\ poll' = (IF hot = <<>> THEN "scan" ELSE "send")
  /\ due' = [c \in Conns |-> IF call[c].st = "on" THEN Append(due[c], <<evt.id, evt.status>>) ELSE due[c]]
  /\ UNCHANGED <<devs, evt, hot, conn, call, calls, toCli, closed, got, shrunk, held, stale>>

\* With head_hotplug_lk read-locked until all have been sent the event.
SendEvent ==
  /\ poll = "send" /\ CanSend(Head(left))
  /\ SendTo(Head(left), Msg("event", 0, <<evt.id, evt.status>>))
  /\ left' = Tail(left) /\ poll' = (IF Len(left) = 1 THEN "scan" ELSE "send")
  /\ UNCHANGED <<devs, evt, hot, conn, call, calls, closed, hist>>

Told == Free \/ Check \/ SendEvent
Poll == Plug \/ Unplug \/ Told

-----------------------------------------------------------------------------
Next == \/ Poll
        \/ \E c \in Conns : Connect(c) \/ Client(c) \/ GiveUp(c) \/ Disconnect(c) \/ Thread(c)

(* The threads run, and clients read what they are sent.                   *)
Fairness == /\ WF_vars(Told)
            /\ \A c \in Conns : WF_vars(Client(c)) /\ WF_vars(Thread(c))

Spec == Init /\ [][Next]_vars
FairSpec == Spec /\ Fairness
-----------------------------------------------------------------------------
TypeOK ==
  /\ ToSet(work) \subseteq Ids /\ nxt_working_id \in 0 .. MaxDevs
  /\ poll \in {"scan", "free", "check", "send"} /\ (poll = "send") = (left # <<>>)
  /\ calls \in 0 .. MaxCalls
  /\ \A c \in Conns : conn[c].prpc \in {"none", "hotplug"} /\ call[c].req \in Requests

\* What a connection has been sent and its client not yet dropped; the answer
\* to a subscription stands in it as an empty entry until it is received.
Events(c) == got[c] \o [i \in DOMAIN toCli[c] |-> toCli[c][i].ids]

(* Who is subscribed is in head_hotplug_cb once and has a live connection, *)
(* also the ones the poll thread is about to send to.  A client that was   *)
(* told that it is subscribed has been sent every event from then on, in   *)
(* their order, after at most some that were sent before the answer, and   *)
(* none of them twice.                                                     *)
SubscribersServed ==
  /\ TypeOK /\ IsInjective(hot) /\ ToSet(left) \subseteq ToSet(hot)
  /\ \A c \in ToSet(hot) : conn[c].prpc = "hotplug"
  /\ \A c \in Conns :
       /\ call[c].st = "on" => c \in ToSet(hot)
       /\ call[c].st = "on" /\ poll # "send" => IsSuffix(due[c], Events(c))
       /\ IsInjective(Events(c))

(* A list that was given out holds each id once, and an id nobody wrote    *)
(* only if a device went away meanwhile; and a connection is bound to, and *)
(* a serial number read from, a device that is there, but for one that     *)
(* goes away between its look-up and its use: nothing keeps it then, and   *)
(* the connection uses a freed list.                                       *)
AnswersAreTrue ==
  /\ stale \subseteq held
  /\ \A c \in Conns :
       call[c].req = "list" /\ call[c].res = "ok" =>
         LET ids == call[c].ids IN
         /\ \A i, j \in DOMAIN ids : i # j /\ ids[i] = ids[j] => ids[i] = Junk
         /\ Junk \in ToSet(ids) => shrunk[c]

(* Every request that is known is answered or given up, and the poll       *)
(* thread gets around to its devices again, whatever clients come and go.  *)
AllServed == poll = "scan" /\ \A c \in Conns : Has(c, "wait") => call[c].req = "plat_none"
Served == []<>AllServed
=============================================================================
