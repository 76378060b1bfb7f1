------------------------------ MODULE Session -------------------------------
(***************************************************************************)
(* The sessions of the client library and how they end: a session is a     *)
(* connection with a read thread (app/ar8030/ar8030.c), a caller that      *)
(* waits for an answer (session.c) and what its kind does with it: event   *)
(* and offline callbacks (session_callback.c), ioctls (session_ioctl.c),   *)
(* debug channels (session_debug.c), platform requests                     *)
(* (session_platform_ctrl.c) and hotplug callbacks (session_hotplug.c).    *)
(* bb_dev_close and bb_host_disconnect (bb_dev.c) end them while the       *)
(* daemon may hang up at any time.  A thread that uses memory or a mutex   *)
(* that is gone goes to the place "fault" and the use is noted.            *)
(*                                                                         *)
(* Left out: sockets (module ClientSocket), what an ioctl does (Ioctl),    *)
(* failing allocations and connections; an application does not call while *)
(* it closes.  The daemon is external (modules Server, Callback, Ioctl).   *)
(***************************************************************************)
EXTENDS Integers, Sequences, FiniteSets

CONSTANTS
  Sessions,
  Kinds,      \* which kinds the sessions may be
  MaxIoctls,  \* bound: ioctls
  MaxHangUps, \* bound: connections the daemon ends
  Late        \* may an answer come after the caller has given up?

AllKinds == {"cb", "offline", "ioctl", "dbg", "plat", "hotplug", "unused"}
ASSUME SessionBounds == Kinds \subseteq [Sessions -> AllKinds] /\ MaxIoctls \in Nat /\ MaxHangUps \in Nat /\ Late \in BOOLEAN

VARIABLES
  kind,
  call,       \* the caller: its place, and result
  rd,         \* the read thread: its place, and the message it handles
  hdl,        \* BB_HANDLE: rpcfd is open, bg_running_flg, who has handle_lk, freed
  sess,       \* BASE_SESSION: session of the handle, phd, wakeup_need, wakeup_set, exit_flg, staflg; memory
  exitflg,    \* of a platform session
  wire,       \* the connection: requests to the daemon, answers and events, the daemon's end
  cbmtx, cblshead, ioctl_sess, hotplug_change_cb,
  closer, todo,   \* bb_dev_close and bb_host_disconnect
  ioctls,
  clash,          \* history: the daemon hung up during a call or the closing,
  faults, after   \* uses of what is gone; an unexpected callback

app == <<closer, todo>>
lists == <<cbmtx, cblshead, ioctl_sess, hotplug_change_cb>>
hist == <<ioctls, clash, faults, after>>
vars == <<kind, call, rd, hdl, sess, exitflg, wire, cbmtx, cblshead, ioctl_sess, hotplug_change_cb,
          closer, todo, ioctls, clash, faults, after>>

None == "none"
Callbacks == {"cb", "offline"}
OfDevice == {"cb", "offline", "ioctl", "dbg"}

Init ==
  /\ kind \in Kinds
  /\ call = [c \in Sessions |-> [pc |-> "idle", ret |-> "none"]]
  /\ rd = [c \in Sessions |-> [pc |-> "none", msg |-> "none"]]
  /\ hdl = [c \in Sessions |-> [rpcfd |-> FALSE, bg |-> FALSE, lk |-> "free", freed |-> FALSE]]
  /\ sess = [c \in Sessions |-> [set |-> FALSE, phd |-> FALSE, need |-> FALSE, wset |-> FALSE,
                                 exit |-> FALSE, sta |-> "none", mem |-> "none"]]
  /\ exitflg = [c \in Sessions |-> FALSE]
  /\ wire = [c \in Sessions |-> [up |-> FALSE, req |-> 0, toCli |-> <<>>, on |-> FALSE]]
  /\ cbmtx = "free" /\ cblshead = {} /\ ioctl_sess = None /\ hotplug_change_cb = {}
  /\ closer = "open" /\ todo = {} /\ ioctls = 0
  /\ clash = FALSE /\ faults = {} /\ after = FALSE

Fault(name) == faults' = faults \cup {name}
NoFault == faults' = faults

Call(c, from, to) == call[c].pc = from /\ call' = [call EXCEPT ![c].pc = to]
Back(c, from, ret) == call[c].pc = from /\ call' = [call EXCEPT ![c] = [pc |-> "back", ret |-> ret]]
Rd(c, from, to) == rd[c].pc = from /\ rd' = [rd EXCEPT ![c].pc = to]

InCall(c) == call[c].pc \notin {"idle", "back", "fault"}
Freed(c) == sess[c].mem = "freed"
Gone(c) == Freed(c) \/ (sess[c].phd /\ hdl[c].freed)

-----------------------------------------------------------------------------
(* The caller.                                                             *)

\* bb_gethandle_from_host.
Make(c) ==
  /\ closer = "open" /\ kind[c] # "unused" /\ (kind[c] = "ioctl" => ioctl_sess = None)
  /\ Call(c, "idle", "made")
  /\ hdl' = [hdl EXCEPT ![c] = [rpcfd |-> TRUE, bg |-> TRUE, lk |-> "free", freed |-> FALSE]]
  /\ rd' = [rd EXCEPT ![c].pc = "check"]
  /\ wire' = [wire EXCEPT ![c].up = TRUE]
  /\ UNCHANGED <<kind, sess, exitflg, lists, app, hist>>

\* The first half of bs_init: the read thread can find the session.
Register(c) ==
  /\ Call(c, "made", IF hdl[c].freed THEN "fault" ELSE "init")
  /\ IF hdl[c].freed THEN Fault("handle gone") ELSE NoFault
  /\ sess' = [sess EXCEPT ![c].set = TRUE, ![c].mem = "live"]
  /\ UNCHANGED <<kind, rd, hdl, exitflg, wire, lists, app, ioctls, clash, after>>

\* The second half, and what get_new_ioctl and bb_dev_reg_hotplug_cb add.
Inited(c) ==
  /\ Call(c, "init", "ready")
  /\ sess' = [sess EXCEPT ![c].phd = TRUE]
  /\ ioctl_sess' = IF kind[c] = "ioctl" THEN c ELSE ioctl_sess
  /\ hotplug_change_cb' = hotplug_change_cb \cup (IF kind[c] = "hotplug" THEN {c} ELSE {})
  /\ UNCHANGED <<kind, rd, hdl, exitflg, wire, cbmtx, cblshead, app, hist>>

\* get_new_ioctl finds the session of the call before.
IoctlAgain(c) ==
  /\ kind[c] = "ioctl" /\ ioctl_sess = c /\ closer = "open" /\ ioctls < MaxIoctls
  /\ Call(c, "back", "ready") /\ ioctls' = ioctls + 1 /\ clash' = (clash \/ ~ wire[c].up)
  /\ UNCHANGED <<kind, rd, hdl, sess, exitflg, wire, lists, app, faults, after>>

\* bs_send_usbpack_and_wait, up to its loop; psess->mtx is held from here to
\* the wait.
Send(c) ==
  /\ call[c].pc = "ready"
  /\ IF Gone(c)
     THEN call' = [call EXCEPT ![c].pc = "fault"] /\ Fault("session gone") /\ UNCHANGED <<sess, wire>>
     ELSE /\ call' = [call EXCEPT ![c].pc = "test"] /\ NoFault
          /\ sess' = [sess EXCEPT ![c].need = TRUE, ![c].wset = FALSE]
          /\ wire' = IF hdl[c].rpcfd /\ wire[c].up THEN [wire EXCEPT ![c].req = @ + 1] ELSE wire
  /\ UNCHANGED <<kind, rd, hdl, exitflg, lists, app, ioctls, clash, after>>

Test(c) ==
  /\ Call(c, "test", IF sess[c].exit \/ sess[c].wset THEN "leave" ELSE "towait")
  /\ UNCHANGED <<kind, rd, hdl, sess, exitflg, wire, lists, app, hist>>

Wait(c) ==
  /\ Call(c, "towait", "wait")
  /\ UNCHANGED <<kind, rd, hdl, sess, exitflg, wire, lists, app, hist>>

Timeout(c) ==
  /\ kind[c] \in OfDevice /\ call[c].pc = "wait"
  /\ Late \/ (wire[c].toCli = <<>> /\ rd[c].msg = "none" /\ ~ wire[c].up)
  /\ call' = [call EXCEPT ![c] = [pc |-> "leave", ret |-> "timeout"]]
  /\ UNCHANGED <<kind, rd, hdl, sess, exitflg, wire, lists, app, hist>>

\* After the loop: exitcv is broadcast.
Leave(c) ==
  LET ret == IF sess[c].exit THEN "exit" ELSE call[c].ret IN
  /\ call[c].pc = "leave"
  /\ call' = [call EXCEPT ![c] = [pc |-> "left", ret |-> ret]]
  /\ sess' = [sess EXCEPT ![c].need = FALSE, ![c].wset = FALSE]
  /\ rd' = IF sess[c].exit /\ rd[c].pc = "exitwait" THEN [rd EXCEPT ![c].pc = "free"] ELSE rd
  /\ UNCHANGED <<kind, hdl, exitflg, wire, lists, app, hist>>

\* create_new_cb and ioctl_bb_ioctl look at the session again.
Look(c) ==
  /\ call[c].pc = "left" /\ kind[c] \in Callbacks \cup {"ioctl"}
  /\ CASE call[c].ret # "none" -> call' = [call EXCEPT ![c].pc = "back"] /\ NoFault
       [] call[c].ret = "none" /\ Freed(c) ->
            call' = [call EXCEPT ![c].pc = "fault"] /\ Fault("session gone")
       [] OTHER ->
            /\ call' = [call EXCEPT ![c] =
                 CASE kind[c] = "ioctl" -> [pc |-> "back", ret |-> "ok"]
                   [] kind[c] # "ioctl" /\ sess[c].sta = "ok" -> [pc |-> "insert", ret |-> "ok"]
                   [] OTHER -> [pc |-> "refused", ret |-> "bad"]]
            /\ NoFault
  /\ UNCHANGED <<kind, rd, hdl, sess, exitflg, wire, lists, app, ioctls, clash, after>>

\* dev_insert_session.
Insert(c) ==
  /\ cbmtx = "free" /\ Call(c, "insert", IF Freed(c) THEN "fault" ELSE "back")
  /\ IF Freed(c) THEN Fault("session gone") ELSE NoFault
  /\ cblshead' = cblshead \cup {c}
  /\ UNCHANGED <<kind, rd, hdl, sess, exitflg, wire, cbmtx, ioctl_sess, hotplug_change_cb, app, ioctls, clash, after>>

\* cbfun.de_init by the caller: the connection stays.
Refused(c) ==
  /\ cbmtx = "free" /\ Call(c, "refused", IF Freed(c) THEN "fault" ELSE "back")
  /\ IF Freed(c) THEN Fault("session gone") ELSE NoFault
  /\ sess' = [sess EXCEPT ![c].set = FALSE, ![c].phd = FALSE, ![c].mem = "freed"]
  /\ UNCHANGED <<kind, rd, hdl, exitflg, wire, lists, app, ioctls, clash, after>>

HotplugBack(c) ==
  /\ kind[c] = "hotplug" /\ Call(c, "left", "back")
  /\ UNCHANGED <<kind, rd, hdl, sess, exitflg, wire, lists, app, hist>>

DbgBack(c) ==
  /\ kind[c] = "dbg" /\ call[c].ret = "none" /\ Back(c, "left", "ok")
  /\ UNCHANGED <<kind, rd, hdl, sess, exitflg, wire, lists, app, hist>>

\* bs_trig_close; without bg_running_flg it does nothing.
HangUp(c) ==
  hdl' = IF sess[c].phd /\ hdl[c].bg THEN [hdl EXCEPT ![c].rpcfd = FALSE, ![c].bg = FALSE] ELSE hdl
CanHangUp(c) == sess[c].phd => hdl[c].lk = "free"

\* dbg_setup that failed, and platform_com_ctrl in any case.
CallerHangsUp(c) ==
  /\ call[c].pc = "left"
  /\ kind[c] = "plat" \/ (kind[c] = "dbg" /\ call[c].ret # "none")
  /\ IF Gone(c)
     THEN call' = [call EXCEPT ![c].pc = "fault"] /\ Fault("session gone") /\ hdl' = hdl
     ELSE /\ CanHangUp(c) /\ HangUp(c) /\ NoFault
          /\ call' = [call EXCEPT ![c].pc = IF kind[c] = "plat" THEN "ptest" ELSE "back"]
  /\ UNCHANGED <<kind, rd, sess, exitflg, wire, lists, app, ioctls, clash, after>>

\* The wait of platform_com_ctrl for the end of its session, which is on its
\* stack.
PlatTest(c) ==
  /\ Call(c, "ptest", IF exitflg[c] THEN "back" ELSE "ptowait")
  /\ UNCHANGED <<kind, rd, hdl, sess, exitflg, wire, lists, app, hist>>

PlatWait(c) ==
  /\ Call(c, "ptowait", "pwait")
  /\ UNCHANGED <<kind, rd, hdl, sess, exitflg, wire, lists, app, hist>>

Caller(c) == \/ Register(c) \/ Inited(c) \/ Send(c) \/ Test(c) \/ Wait(c) \/ Leave(c) \/ Look(c)
             \/ Insert(c) \/ Refused(c) \/ HotplugBack(c) \/ DbgBack(c) \/ CallerHangsUp(c)
             \/ PlatTest(c) \/ PlatWait(c)

-----------------------------------------------------------------------------
(* The daemon.                                                             *)
Answer(c) ==
  /\ wire[c].up /\ wire[c].req > 0
  /\ \E a \in {"ok"} \cup (IF kind[c] \in Callbacks THEN {"bad"} ELSE {}) :
       wire' = [wire EXCEPT ![c].req = @ - 1, ![c].toCli = Append(@, a), ![c].on = a = "ok"]
  /\ UNCHANGED <<kind, call, rd, hdl, sess, exitflg, lists, app, hist>>

Event(c) ==
  /\ wire[c].up /\ wire[c].on /\ kind[c] \in {"cb", "hotplug"} /\ wire[c].toCli = <<>>
  /\ wire' = [wire EXCEPT ![c].toCli = <<"event">>, ![c].on = FALSE]
  /\ UNCHANGED <<kind, call, rd, hdl, sess, exitflg, lists, app, hist>>

DaemonHangsUp(c) ==
  /\ wire[c].up /\ wire' = [wire EXCEPT ![c].up = FALSE]
  /\ Cardinality({d \in Sessions : rd[d].pc # "none" /\ ~ wire[d].up}) < MaxHangUps
  /\ clash' = (clash \/ InCall(c) \/ closer # "open")
  /\ UNCHANGED <<kind, call, rd, hdl, sess, exitflg, lists, app, ioctls, faults, after>>

Daemon(c) == Answer(c) \/ Event(c) \/ DaemonHangsUp(c)

-----------------------------------------------------------------------------
(* The read thread.                                                        *)

\* It leaves the loop with handle_lk held.
RdTop(c) ==
  /\ hdl[c].lk = "free" /\ Rd(c, "check", IF hdl[c].bg THEN "recv" ELSE "end")
  /\ hdl' = IF hdl[c].bg THEN hdl ELSE [hdl EXCEPT ![c].lk = "rd"]
  /\ UNCHANGED <<kind, call, sess, exitflg, wire, lists, app, hist>>

RdRecv(c) ==
  /\ rd[c].pc = "recv"
  /\ \/ /\ hdl[c].rpcfd /\ wire[c].toCli # <<>>
        /\ rd' = [rd EXCEPT ![c] = [pc |-> "proc", msg |-> Head(wire[c].toCli)]]
        /\ wire' = [wire EXCEPT ![c].toCli = Tail(@)]
     \/ /\ ~ hdl[c].rpcfd \/ (wire[c].toCli = <<>> /\ ~ wire[c].up)
        /\ rd' = [rd EXCEPT ![c].pc = "end"] /\ wire' = wire
  /\ UNCHANGED <<kind, call, hdl, sess, exitflg, lists, app, hist>>

DeviceGone == closer \in {"freed", "hot", "hotdel", "done"}

\* An application does not expect a callback of a device it has closed or of
\* a subscription that failed.
CallBack(c) ==
  after' = (after \/ (kind[c] \in Callbacks /\ (DeviceGone \/ call[c].ret \notin {"none", "ok"})))

\* cb_rpc_cb, hotplug_rpc_cb, io_rpc_cb, dbg_rpc_cb, platform_cb.
RdProc(c) ==
  LET answers == IF kind[c] \in Callbacks THEN sess[c].sta = "none" ELSE rd[c].msg # "event" IN
  /\ Rd(c, "proc", IF sess[c].set /\ answers THEN "weakup" ELSE "check")
  /\ sess' = IF sess[c].set /\ answers /\ kind[c] \in Callbacks
             THEN [sess EXCEPT ![c].sta = rd[c].msg] ELSE sess
  /\ IF sess[c].set /\ rd[c].msg = "event" /\ ~ answers THEN CallBack(c) ELSE after' = after
  /\ UNCHANGED <<kind, call, hdl, exitflg, wire, lists, app, ioctls, clash, faults>>

Woken(c) == call' = IF call[c].pc = "wait" THEN [call EXCEPT ![c].pc = "test"] ELSE call

\* bs_weakup; the mutex is the caller's until it waits or has left.
RdWeakup(c) ==
  /\ call[c].pc \notin {"test", "towait", "leave"} /\ Rd(c, "weakup", "check")
  /\ Woken(c) /\ sess' = [sess EXCEPT ![c].wset = TRUE]
  /\ UNCHANGED <<kind, hdl, exitflg, wire, lists, app, hist>>

RdEnd(c) ==
  /\ hdl[c].lk = "free"
  /\ Rd(c, "end", CASE ~ sess[c].set -> "finish"
                    [] sess[c].set /\ ~ sess[c].phd -> "fault"
                    [] OTHER -> "deinit")
  /\ IF sess[c].set /\ ~ sess[c].phd THEN Fault("half made") ELSE NoFault
  /\ hdl' = [hdl EXCEPT ![c].lk = "rd", ![c].rpcfd = FALSE]
  /\ UNCHANGED <<kind, call, sess, exitflg, wire, lists, app, ioctls, clash, after>>

\* A mutant: the closer is not woken.
DelNodMute(c) == cblshead' = cblshead \ {c} /\ closer' = closer

\* A mutant: nothing is taken off the list.
DelNodNot(c) == cblshead' = cblshead /\ closer' = IF closer = "wait" THEN "cbs" ELSE closer

\* dev_del_nod.
DelNod(c) ==
  /\ cblshead' = cblshead \ {c}
  /\ closer' = IF closer = "wait" THEN "cbs" ELSE closer

\* cb_deinit and offline_cb_deinit.
RdCbDeinit(c) ==
  /\ kind[c] \in Callbacks
  /\ DeviceGone \/ cbmtx = "free"
  /\ Rd(c, "deinit", IF DeviceGone THEN "fault" ELSE "bsdeinit")
  /\ IF DeviceGone THEN Fault("device gone") /\ UNCHANGED <<cblshead, closer>>
                   ELSE NoFault /\ DelNod(c)
  /\ IF kind[c] = "offline" THEN CallBack(c) ELSE after' = after
  /\ UNCHANGED <<kind, call, hdl, sess, exitflg, wire, cbmtx, ioctl_sess, hotplug_change_cb, todo, ioctls, clash>>

\* io_deinit.
RdIoDeinit(c) ==
  /\ kind[c] = "ioctl" /\ Rd(c, "deinit", IF DeviceGone THEN "fault" ELSE "bsdeinit")
  /\ IF DeviceGone THEN Fault("device gone") /\ ioctl_sess' = ioctl_sess
                   ELSE NoFault /\ ioctl_sess' = None
  /\ UNCHANGED <<kind, call, hdl, sess, exitflg, wire, cbmtx, cblshead, hotplug_change_cb, app, ioctls, clash, after>>

\* hotplug_deinit takes itself off the list without a lock; dbg_deinit and
\* platform_deinit have nothing to do before bs_deinit.
RdOtherDeinit(c) ==
  /\ kind[c] \in {"hotplug", "dbg", "plat"} /\ Rd(c, "deinit", "bsdeinit")
  /\ hotplug_change_cb' = hotplug_change_cb \ {c}
  /\ UNCHANGED <<kind, call, hdl, sess, exitflg, wire, cbmtx, cblshead, ioctl_sess, app, hist>>

\* bs_deinit up to its wait: nothing is locked, so that a caller between its
\* test and its wait misses the signal.
BsDeinit(c) ==
  /\ Rd(c, "bsdeinit", IF sess[c].need THEN "toexit" ELSE "free")
  /\ IF sess[c].need THEN Woken(c) ELSE call' = call
  /\ sess' = [sess EXCEPT ![c].exit = TRUE]
  /\ UNCHANGED <<kind, hdl, exitflg, wire, lists, app, hist>>

BsExitWait(c) ==
  /\ Rd(c, "toexit", "exitwait")
  /\ UNCHANGED <<kind, call, hdl, sess, exitflg, wire, lists, app, hist>>

RdFree(c) ==
  /\ Rd(c, "free", IF kind[c] = "plat" THEN "exitflg" ELSE "finish")
  /\ sess' = [sess EXCEPT ![c].set = FALSE, ![c].phd = FALSE,
                          ![c].mem = IF kind[c] = "plat" THEN @ ELSE "freed"]
  /\ UNCHANGED <<kind, call, hdl, exitflg, wire, lists, app, hist>>

\* The rest of platform_deinit: flag and broadcast without the mutex.
PlatExit(c) ==
  /\ Rd(c, "exitflg", "bcast") /\ exitflg' = [exitflg EXCEPT ![c] = TRUE]
  /\ UNCHANGED <<kind, call, hdl, sess, wire, lists, app, hist>>

PlatBroadcast(c) ==
  /\ Rd(c, "bcast", IF call[c].pc = "back" THEN "fault" ELSE "finish")
  /\ IF call[c].pc = "back" THEN Fault("stack gone") ELSE NoFault
  /\ call' = IF call[c].pc = "pwait" THEN [call EXCEPT ![c].pc = "ptest"] ELSE call
  /\ UNCHANGED <<kind, hdl, sess, exitflg, wire, lists, app, ioctls, clash, after>>

\* The handle is freed unless this side has hung up.
RdFinish(c) ==
  /\ Rd(c, "finish", "done")
  /\ hdl' = [hdl EXCEPT ![c] = [@ EXCEPT !.lk = "free", !.freed = hdl[c].bg, !.bg = FALSE]]
  /\ UNCHANGED <<kind, call, sess, exitflg, wire, lists, app, hist>>

Reader(c) == \/ RdTop(c) \/ RdRecv(c) \/ RdProc(c) \/ RdWeakup(c) \/ RdEnd(c) \/ RdCbDeinit(c)
             \/ RdIoDeinit(c) \/ RdOtherDeinit(c) \/ BsDeinit(c) \/ BsExitWait(c) \/ RdFree(c)
             \/ PlatExit(c) \/ PlatBroadcast(c) \/ RdFinish(c)

-----------------------------------------------------------------------------
(* bb_dev_close and bb_host_disconnect.                                    *)
Closer(from, to) == closer = from /\ closer' = to
AllBack(ks) == \A c \in Sessions : kind[c] \in ks => call[c].pc \in {"idle", "back"}

Close ==
  /\ AllBack(OfDevice) /\ Closer("open", "ioctl")
  /\ todo' = {ioctl_sess} \ {None}
  /\ clash' = (clash \/ \E c \in Sessions : ~ wire[c].up /\ rd[c].pc \notin {"none", "done"})
  /\ UNCHANGED <<kind, call, rd, hdl, sess, exitflg, wire, lists, ioctls, faults, after>>

CloseIoctl(c) ==
  /\ c \in todo
  /\ Closer("ioctl", IF Gone(c) THEN "fault" ELSE "lock")
  /\ IF Gone(c) THEN Fault("session gone") /\ hdl' = hdl ELSE NoFault /\ CanHangUp(c) /\ HangUp(c)
  /\ todo' = {} /\ ioctl_sess' = None
  /\ UNCHANGED <<kind, call, rd, sess, exitflg, wire, cbmtx, cblshead, hotplug_change_cb, ioctls, clash, after>>

CloseNoIoctl ==
  /\ todo = {} /\ Closer("ioctl", "lock")
  /\ UNCHANGED <<kind, call, rd, hdl, sess, exitflg, wire, lists, todo, hist>>

\* cb_trig_all_close.
CloseLock ==
  /\ cbmtx = "free" /\ cbmtx' = "closer" /\ Closer("lock", "cbs") /\ todo' = cblshead
  /\ UNCHANGED <<kind, call, rd, hdl, sess, exitflg, wire, cblshead, ioctl_sess, hotplug_change_cb, hist>>

CloseCb(c) ==
  /\ c \in todo /\ Closer("cbs", IF Gone(c) THEN "fault" ELSE "cbs")
  /\ IF Gone(c) THEN Fault("session gone") /\ hdl' = hdl ELSE NoFault /\ CanHangUp(c) /\ HangUp(c)
  /\ todo' = todo \ {c}
  /\ UNCHANGED <<kind, call, rd, sess, exitflg, wire, lists, ioctls, clash, after>>

\* The wait for cbcv, the end of it, and of the device.
CloseWait ==
  /\ todo = {} /\ Closer("cbs", IF cblshead = {} THEN "freed" ELSE "wait") /\ cbmtx' = "free"
  /\ UNCHANGED <<kind, call, rd, hdl, sess, exitflg, wire, cblshead, ioctl_sess, hotplug_change_cb, todo, hist>>

\* bb_dev_del_all_hotplug_cb.
Disconnect ==
  /\ AllBack(AllKinds) /\ Closer("freed", "hot")
  /\ UNCHANGED <<kind, call, rd, hdl, sess, exitflg, wire, lists, todo, hist>>

DelHotplug(c) ==
  /\ c \in hotplug_change_cb
  /\ Closer("hot", IF Gone(c) THEN "fault" ELSE "hotdel") /\ todo' = {c}
  /\ IF Gone(c) THEN Fault("hotplug gone") /\ hdl' = hdl ELSE NoFault /\ CanHangUp(c) /\ HangUp(c)
  /\ UNCHANGED <<kind, call, rd, sess, exitflg, wire, lists, ioctls, clash, after>>

DelHotplugNode(c) ==
  /\ c \in todo /\ Closer("hotdel", IF Freed(c) THEN "fault" ELSE "hot")
  /\ IF Freed(c) THEN Fault("hotplug gone") ELSE NoFault
  /\ hotplug_change_cb' = hotplug_change_cb \ {c} /\ todo' = {}
  /\ UNCHANGED <<kind, call, rd, hdl, sess, exitflg, wire, cbmtx, cblshead, ioctl_sess, ioctls, clash, after>>

Disconnected ==
  /\ hotplug_change_cb = {} /\ Closer("hot", "done")
  /\ UNCHANGED <<kind, call, rd, hdl, sess, exitflg, wire, lists, todo, hist>>

Closing == \/ CloseNoIoctl \/ CloseLock \/ CloseWait \/ Disconnected
           \/ \E c \in Sessions : CloseIoctl(c) \/ CloseCb(c) \/ DelHotplug(c) \/ DelHotplugNode(c)

-----------------------------------------------------------------------------
Next == \/ Close \/ Disconnect \/ Closing
        \/ \E c \in Sessions : \/ Make(c) \/ IoctlAgain(c) \/ Caller(c) \/ Timeout(c)
                               \/ Daemon(c) \/ Reader(c)

(* The threads run, and the daemon answers or hangs up.                    *)
Fairness == /\ WF_vars(Closing)
            /\ \A c \in Sessions : WF_vars(Caller(c)) /\ WF_vars(Reader(c)) /\ WF_vars(Answer(c))

Spec == Init /\ [][Next]_vars
FairSpec == Spec /\ Fairness
-----------------------------------------------------------------------------
TypeOK ==
  /\ kind \in [Sessions -> AllKinds] /\ cblshead \subseteq Sessions /\ hotplug_change_cb \subseteq Sessions
  /\ ioctl_sess \in Sessions \cup {None} /\ ioctls \in 0 .. MaxIoctls
  /\ \A c \in Sessions : sess[c].mem \in {"none", "live", "freed"} /\ wire[c].req \in 0 .. MaxIoctls + 1

(* Unless the daemon hangs up during a call or while the device is closed, *)
(* memory that is gone is used only by the read thread of an ioctl session *)
(* when the device is closed, by that of a subscription whose answer came  *)
(* late, by that of a platform request that signals a caller that has      *)
(* seen the end, and where hotplug callbacks are removed; a listed session *)
(* is alive; and no callback is called for a device that was closed or for *)
(* a subscription that failed, unless its answer came late.  A device that *)
(* was closed has no session listed.                                       *)
SessionsSafe ==
  /\ TypeOK
  /\ ~ clash => /\ faults \subseteq {"device gone", "hotplug gone", "stack gone"}
                /\ "device gone" \in faults => Late \/ \E c \in Sessions : kind[c] = "ioctl"
                /\ \A c \in cblshead : ~ Freed(c)
                /\ after => Late
  /\ DeviceGone => cblshead = {}

\* The read thread waits for the lock it kept.
SelfDeadlock(c) == rd[c].pc = "end" /\ hdl[c].lk = "rd"
\* bs_deinit and the caller wait for each other: a wake-up was lost.
LostWakeup(c) == rd[c].pc = "exitwait" /\ call[c].pc \notin {"test", "towait", "leave"}
LostBroadcast(c) == call[c].pc = "pwait" /\ rd[c].pc \in {"finish", "done"}
\* The closer holds cbmtx and wants handle_lk, the read thread the reverse.
Embrace(c) == closer = "cbs" /\ c \in todo /\ rd[c].pc = "deinit" /\ hdl[c].lk = "rd"
\* The read thread ended before the session was registered.
Missed(c) == call[c].pc = "wait" /\ rd[c].pc \in {"finish", "done"}
Stuck(c) == Missed(c) \/ SelfDeadlock(c) \/ LostWakeup(c) \/ LostBroadcast(c) \/ Embrace(c)

(* A call returns and a device or host that is closed gets closed, unless  *)
(* a thread is stuck in one of five ways or something that was gone was    *)
(* used.                                                                   *)
SessionsEnd ==
  /\ \A c \in Sessions : InCall(c) ~> (~ InCall(c) \/ Stuck(c) \/ faults # {})
  /\ (closer \notin {"open", "freed", "done"})
       ~> (closer \in {"freed", "done"} \/ faults # {} \/ \E c \in Sessions : Stuck(c))
=============================================================================
