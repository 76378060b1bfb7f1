------------------------------- MODULE Startup -------------------------------
(***************************************************************************)
(* The start of the daemon: the main thread reads its options, makes the   *)
(* socket it listens on and its thread (daemon/main.c, rpc_init.c), and    *)
(* then registers the platform its devices are on (usb_dev.c, uart_dev.c,  *)
(* rpc_dev_proc.c).  Clients can connect and ask from the moment the       *)
(* listen thread runs, while the main thread still registers.              *)
(*                                                                         *)
(* Left out: the options that only set a number; SDIO and driver           *)
(* interfaces, whose code is not in the tree; failing allocations; what    *)
(* devices answer (module Server); rpc_close_listen and the mode for       *)
(* Android, which nothing in the tree calls.  TCP is external.             *)
(***************************************************************************)
EXTENDS Integers, Sequences, SequencesExt

CONSTANTS
  Conns,       \* connections there can be at a time
  Intfs,       \* interfaces the daemon may be started for
  MaxCalls,    \* bound: connections made
  MaxFaults    \* bound: calls of the system that fail

Requests == {"test", "list", "select", "uart"}

VARIABLES
  main, intf,
  listener,            \* the listen thread; "none" and "gone": not in rpc_listen_head
  head,                \* platforms, each with what is set of it
  cnt,                 \* what reg_8030_dev counts
  conn, req, sta,      \* a connection, what it asks, what it was answered
  calls, faults, usbfault,
  killed               \* a request read a platform that was not filled

vars == <<main, intf, listener, head, cnt, conn, req, sta, calls, faults, usbfault, killed>>
conns == <<conn, req, sta, calls, killed>>
plats == <<head, cnt, usbfault>>

Init ==
  /\ main = "options" /\ intf = "usb" /\ listener = "none" /\ head = <<>> /\ cnt = 0
  /\ conn = [c \in Conns |-> "idle"] /\ req = [c \in Conns |-> "test"] /\ sta = [c \in Conns |-> 0]
  /\ calls = 0 /\ faults = 0 /\ usbfault = FALSE /\ killed = FALSE

Up == main # "exited" /\ ~ killed
MayFail == faults < MaxFaults
Fails == MayFail /\ faults' = faults + 1

-----------------------------------------------------------------------------
(* The main thread.                                                        *)
\* main up to rpc_init; -h exits.
Options ==
  /\ main = "options" /\ intf' \in Intfs /\ main' \in {"listen", "exited"}
  /\ UNCHANGED <<listener, plats, conns, faults>>

\* rpc_init: create_tcp_listen, the listen thread.
CreateListen ==
  /\ Up /\ main = "listen" /\ main' = "check"
  /\ \/ listener' = "listen" /\ faults' = faults
     \/ Fails /\ listener' = listener
  /\ UNCHANGED <<intf, plats, conns>>

\* rpc_init: no listener in the list, and the process exits.
CheckListen ==
  /\ Up /\ main = "check"
  /\ main' = (IF listener \in {"none", "gone"} THEN "exited" ELSE "register")
  /\ UNCHANGED <<intf, listener, plats, conns, faults>>

\* reg_8030_dev.
Register ==
  /\ Up /\ main = "register"
  /\ main' = (IF intf = "other" THEN "poll" ELSE intf)
  /\ UNCHANGED <<intf, listener, plats, conns, faults>>

Half == [name |-> "usb", pact |-> FALSE, list |-> FALSE]

\* rpc_dev_add.
DevAdd(p) == head' = Append(head, p)

\* _reg_usbrpc_platfrom up to rpc_dev_add; reg_usbrpc_platfrom does not look
\* at what it returns.
UsbInit ==
  /\ Up /\ main = "usb" /\ cnt' = 1
  /\ \/ DevAdd(Half) /\ main' = "pact" /\ UNCHANGED <<faults, usbfault>>
     \/ Fails /\ usbfault' = TRUE /\ main' = "poll" /\ head' = head
  /\ UNCHANGED <<intf, listener, conns>>

\* _reg_usbrpc_platfrom: the table of functions, then the list and its mutex.
UsbPact ==
  /\ Up /\ main = "pact" /\ main' = "list" /\ head' = [head EXCEPT ![1].pact = TRUE]
  /\ UNCHANGED <<intf, listener, cnt, usbfault, conns, faults>>

UsbList ==
  /\ Up /\ main = "list" /\ main' = "poll" /\ head' = [head EXCEPT ![1].list = TRUE]
  /\ UNCHANGED <<intf, listener, cnt, usbfault, conns, faults>>

\* Slip: the platform is added first, and filled as that of USB is.
RegUartEarly ==
  /\ Up /\ main = "uart" /\ cnt' = 1 /\ main' = "pact"
  /\ DevAdd([Half EXCEPT !.name = "uart"])
  /\ UNCHANGED <<intf, listener, usbfault, conns, faults>>

\* reg_uartrpc_platform: all is set when the platform is added.
RegUart ==
  /\ Up /\ main = "uart" /\ cnt' = 1 /\ main' = "poll"
  /\ DevAdd([name |-> "uart", pact |-> TRUE, list |-> TRUE])
  /\ UNCHANGED <<intf, listener, usbfault, conns, faults>>

Main == Options \/ CreateListen \/ CheckListen \/ Register \/ UsbInit \/ UsbPact \/ UsbList \/ RegUart

-----------------------------------------------------------------------------
(* The listen thread: rpc_listen_thread.                                   *)
Listen ==
  /\ Up /\ listener = "listen"
  /\ \/ listener' = "accept" /\ faults' = faults
     \/ Fails /\ listener' = "stop"
  /\ UNCHANGED <<main, intf, plats, conns>>

Accept(c) ==
  /\ Up /\ listener = "accept" /\ conn[c] = "connect"
  /\ conn' = [conn EXCEPT ![c] = "recv"] /\ listener' = "listen"
  /\ UNCHANGED <<main, intf, plats, req, sta, calls, faults, killed>>

AcceptFails ==
  /\ Up /\ listener = "accept" /\ Fails /\ listener' = "stop"
  /\ UNCHANGED <<main, intf, plats, conns>>

\* Whoever waits to be accepted is reset when the socket is closed.
StopListen ==
  /\ Up /\ listener = "stop" /\ listener' = "gone"
  /\ conn' = [c \in Conns |-> IF conn[c] = "connect" THEN "refused" ELSE conn[c]]
  /\ UNCHANGED <<main, intf, plats, req, sta, calls, faults, killed>>

Listener == Listen \/ StopListen \/ \E c \in Conns : Accept(c)

-----------------------------------------------------------------------------
(* Connections.                                                            *)
\* External: the socket listens from the first listen() on.
Tried == CASE listener = "listen" -> {"connect", "refused"}
           [] listener \in {"accept", "stop"} -> {"connect"}
           [] OTHER -> {"refused"}

Connect(c) ==
  /\ Up /\ conn[c] \in {"idle", "refused", "done"} /\ calls < MaxCalls /\ calls' = calls + 1
  /\ \E s \in Tried : conn' = [conn EXCEPT ![c] = s]
  /\ \E r \in Requests : req' = [req EXCEPT ![c] = r]
  /\ sta' = [sta EXCEPT ![c] = 0]
  /\ UNCHANGED <<main, intf, listener, plats, faults, killed>>

\* rpc_dev_getsz uses the functions of all platforms, rpc_dev_get_plist also
\* the list of devices.
Readable(p, r) == CASE r = "test" -> TRUE [] r = "select" -> p.pact /\ p.list [] OTHER -> p.pact

\* rpc_get_plat_by_name
PlatByName(name) == {p \in ToSet(head) : p.name = name}

\* nod_read_thread, and what a request reads of the platforms.
Ask(c) ==
  /\ Up /\ conn[c] = "recv"
  /\ IF \A p \in ToSet(head) : Readable(p, req[c])
     THEN /\ conn' = [conn EXCEPT ![c] = "done"] /\ killed' = killed
          /\ sta' = [sta EXCEPT ![c] = IF req[c] = "uart" /\ PlatByName("uart") = {} THEN -1 ELSE 0]
     ELSE killed' = TRUE /\ UNCHANGED <<conn, sta>>
  /\ UNCHANGED <<main, intf, listener, plats, req, calls, faults>>

Next == \/ Main \/ Listener \/ AcceptFails \/ \E c \in Conns : Connect(c) \/ Ask(c)

Spec == Init /\ [][Next]_vars
FairSpec == Spec /\ WF_vars(Main) /\ WF_vars(Listener) /\ \A c \in Conns : WF_vars(Ask(c))
-----------------------------------------------------------------------------
(* A request that arrives early reads platforms that are filled, but for   *)
(* that of USB, which is in the list before it is filled; the serial lines *)
(* are never refused once their platform is registered.  A daemon that has *)
(* come to poll has the one platform that was asked for, unless there is   *)
(* none or USB failed, and what it counts is what it has but for that; and *)
(* one with no listener exits before it registers anything.                *)
StartSafe ==
  /\ killed => intf = "usb" /\ main \in {"pact", "list"}
  /\ main = "poll" =>
       /\ \A p \in ToSet(head) : p.name = intf /\ p.pact /\ p.list
       /\ Len(head) = (IF intf = "other" \/ usbfault THEN 0 ELSE 1)
  /\ cnt # Len(head) => usbfault
  /\ main = "exited" => head = <<>> /\ listener \in {"none", "gone"}
  /\ \A c \in Conns : conn[c] = "done" /\ sta[c] = 0 /\ req[c] = "uart" => intf = "uart" /\ head # <<>>

(* The daemon comes to poll or exits, and who connects is answered or      *)
(* refused, unless an early request ends the process.                      *)
StartSettled ==
  /\ main \in {"poll", "exited"} \/ killed
  /\ \A c \in Conns : conn[c] \notin {"connect", "recv"} \/ ~ Up
StartEnds == <>[]StartSettled
=============================================================================
