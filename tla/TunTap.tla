------------------------------- MODULE TunTap -------------------------------
(***************************************************************************)
(* The connection of the network tunnel (app/tuntap/tuntap.cpp): a thread  *)
(* sends the packets of the TAP device over a socket of the baseband, the  *)
(* other one reads from it and owns reconnecting.  They share bb_fd, the   *)
(* handle of the device and bb_socket_mutex.  Numbers of sockets are never *)
(* used twice (app/ar8030/socket_fd.c:42), so that a number is a           *)
(* connection.  The client library and the device are external; a socket   *)
(* fails at once for a reader and a writer when its device is gone.        *)
(*                                                                         *)
(* Left out: what the packets look like (module TunFrame), arguments,      *)
(* packets lost while there is no connection.                              *)
(***************************************************************************)
EXTENDS Integers, FiniteSets

CONSTANTS
  MaxConns,   \* bound: connections
  MaxFails,   \* bound: opens and writes that fail
  MaxTurns    \* bound: how often the device comes or goes

ASSUME ConnsAssumption == MaxConns \in Nat \ {0}

VARIABLES
  present, turns, fails, \* the device, and what happened to it
  conn,                  \* state of the connection with a number: its socket, its device handle
  bb_fd, pdev,           \* of bb_tun_cfg; -1 and 0 for none
  bb_socket_mutex,
  w, r,                  \* the writer and the reader: place and descriptor
  misused                \* history: a closed socket was written to, or a handle closed twice

vars == <<present, turns, fails, conn, bb_fd, pdev, bb_socket_mutex, w, r, misused>>
env == <<present, turns, fails>>

Used == {n \in 1 .. MaxConns : conn[n].dev # "none"}
New == Cardinality(Used) + 1

\* tun_test, after open_initial_bb_connection.
Init ==
  /\ present = TRUE /\ turns = 0 /\ fails = 0
  /\ conn = [n \in 1 .. MaxConns |-> IF n = 1 THEN [dev |-> "open", sock |-> "open"]
                                            ELSE [dev |-> "none", sock |-> "none"]]
  /\ bb_fd = 1 /\ pdev = 1 /\ bb_socket_mutex = "free"
  /\ w = [pc |-> "tap", fd |-> -1] /\ r = [pc |-> "load", fd |-> -1] /\ misused = FALSE

\* The device comes or goes; with it go the connections to it.
Turn ==
  /\ turns < MaxTurns /\ turns' = turns + 1 /\ present' = ~ present
  /\ conn' = [n \in 1 .. MaxConns |->
                IF conn[n].sock = "open" THEN [conn[n] EXCEPT !.sock = "dead"] ELSE conn[n]]
  /\ UNCHANGED <<fails, bb_fd, pdev, bb_socket_mutex, w, r, misused>>

CloseSocket(n) == [conn EXCEPT ![n].sock = "closed"]

-----------------------------------------------------------------------------
(* tun_2_bb_thread.                                                        *)
W(from, to) == w.pc = from /\ w' = [w EXCEPT !.pc = to]

WTake ==
  /\ bb_socket_mutex = "free" /\ bb_socket_mutex' = "w" /\ W("tap", "load")
  /\ UNCHANGED <<env, conn, bb_fd, pdev, r, misused>>

\* While the reader reconnects, packets are dropped.
WLoad ==
  /\ w.pc = "load"
  /\ w' = IF bb_fd < 0 THEN [w EXCEPT !.pc = "tap"] ELSE [pc |-> "write", fd |-> bb_fd]
  /\ bb_socket_mutex' = IF bb_fd < 0 THEN "free" ELSE "w"
  /\ UNCHANGED <<env, conn, bb_fd, pdev, r, misused>>

\* The daemon may answer a write with an error while the socket stays open.
WWrite ==
  w.pc = "write" /\ \E ok \in {conn[w.fd].sock = "open"} \cup {b \in {FALSE} : fails < MaxFails} :
    /\ W("write", IF ok THEN "tap" ELSE "failed")
    /\ bb_socket_mutex' = IF ok THEN "free" ELSE "w"
    /\ fails' = IF conn[w.fd].sock = "open" /\ ~ ok THEN fails + 1 ELSE fails
    /\ misused' = (misused \/ conn[w.fd].sock = "closed" \/ conn[w.fd].dev = "closed")
    /\ UNCHANGED <<present, turns, conn, bb_fd, pdev, r>>

\* compare_exchange_strong and bb_socket_close, which wakes the reader.
Drop == conn' = CloseSocket(w.fd) /\ bb_fd' = -1

WFailed ==
  /\ W("failed", "tap") /\ bb_socket_mutex' = "free"
  /\ IF bb_fd = w.fd THEN Drop ELSE UNCHANGED <<conn, bb_fd>>
  /\ UNCHANGED <<env, pdev, r, misused>>

Writer == WTake \/ WLoad \/ WWrite \/ WFailed

-----------------------------------------------------------------------------
(* bb_2_tun_thread.                                                        *)
RLoad ==
  /\ r.pc = "load" /\ r' = [pc |-> IF bb_fd < 0 THEN "close" ELSE "read", fd |-> bb_fd]
  /\ UNCHANGED <<env, conn, bb_fd, pdev, bb_socket_mutex, w, misused>>

RData ==
  /\ r.pc = "read" /\ conn[r.fd].sock = "open" /\ r' = [r EXCEPT !.pc = "load"]
  /\ UNCHANGED <<env, conn, bb_fd, pdev, bb_socket_mutex, w, misused>>

RFailed ==
  /\ r.pc = "read" /\ conn[r.fd].sock # "open" /\ r' = [r EXCEPT !.pc = "close"]
  /\ UNCHANGED <<env, conn, bb_fd, pdev, bb_socket_mutex, w, misused>>

\* Slip: the handle is kept.
ReleaseNot(c) == conn' = c /\ pdev' = 0

\* bb_dev_close; the sockets of the handle go with it.
Release(c) ==
  IF pdev = 0 THEN conn' = c /\ pdev' = pdev
              ELSE conn' = [c EXCEPT ![pdev] = [dev |-> "closed", sock |-> "closed"]] /\ pdev' = 0

\* close_bb_connection: the socket of bb_fd, or the one that failed, which
\* the writer may have closed.
RClose ==
  LET n == IF bb_fd >= 0 THEN bb_fd ELSE r.fd IN
  /\ r.pc = "close" /\ bb_socket_mutex = "free"
  /\ bb_fd' = -1 /\ Release(IF n >= 0 THEN CloseSocket(n) ELSE conn)
  /\ misused' = (misused \/ (pdev # 0 /\ conn[pdev].dev = "closed"))
  /\ r' = [r EXCEPT !.pc = "find"]
  /\ UNCHANGED <<env, bb_socket_mutex, w>>

\* open_reconnected_bb_connection: the list does not name the target, or
\* bb_dev_open fails; the attempt is repeated after two seconds.
RNotFound ==
  /\ r.pc = "find" /\ ~ present
  /\ UNCHANGED vars

ROpen ==
  /\ r.pc = "find" /\ present /\ New <= MaxConns
  /\ conn' = [conn EXCEPT ![New] = [dev |-> "open", sock |-> "none"]]
  /\ r' = [pc |-> "socket", fd |-> New]
  /\ UNCHANGED <<env, bb_fd, pdev, bb_socket_mutex, w, misused>>

\* open_bb_socket: an open that failed is repeated once after
\* BB_FORCE_CLS_SOCKET.
RSocket ==
  /\ r.pc \in {"socket", "again"}
  /\ \/ /\ present /\ conn' = [conn EXCEPT ![r.fd].sock = "open"]
        /\ r' = [r EXCEPT !.pc = "pdev"] /\ fails' = fails
     \/ /\ ~ present \/ fails < MaxFails
        /\ fails' = IF present THEN fails + 1 ELSE fails
        /\ r' = [r EXCEPT !.pc = IF r.pc = "socket" THEN "force" ELSE "giveup"] /\ conn' = conn
  /\ UNCHANGED <<present, turns, bb_fd, pdev, bb_socket_mutex, w, misused>>

RForce ==
  /\ r.pc = "force" /\ r' = [r EXCEPT !.pc = IF present THEN "again" ELSE "giveup"]
  /\ UNCHANGED <<env, conn, bb_fd, pdev, bb_socket_mutex, w, misused>>

RGiveUp ==
  /\ r.pc = "giveup" /\ r' = [r EXCEPT !.pc = "find"]
  /\ conn' = [conn EXCEPT ![r.fd] = [dev |-> "closed", sock |-> "closed"]]
  /\ UNCHANGED <<env, bb_fd, pdev, bb_socket_mutex, w, misused>>

\* pdev is stored before bb_fd, without the mutex.
RPdev ==
  /\ r.pc = "pdev" /\ pdev' = r.fd /\ r' = [r EXCEPT !.pc = "fd"]
  /\ UNCHANGED <<env, conn, bb_fd, bb_socket_mutex, w, misused>>

RStore ==
  /\ r.pc = "fd" /\ bb_fd' = r.fd /\ r' = [r EXCEPT !.pc = "load"]
  /\ UNCHANGED <<env, conn, pdev, bb_socket_mutex, w, misused>>

Reader == \/ RLoad \/ RFailed \/ RClose \/ ROpen \/ RSocket \/ RForce \/ RGiveUp
          \/ RPdev \/ RStore

-----------------------------------------------------------------------------
Next == Turn \/ Writer \/ Reader \/ RData \/ RNotFound

(* The threads run; the mutex is not always the writer's; no data need     *)
(* ever come.                                                              *)
Fairness == WF_vars(Writer) /\ SF_vars(Reader)

Spec == Init /\ [][Next]_vars
FairSpec == Spec /\ Fairness
-----------------------------------------------------------------------------
TypeOK ==
  /\ bb_fd \in {-1} \cup Used /\ pdev \in {0} \cup Used
  /\ bb_socket_mutex \in {"free", "w"}
  /\ w.pc \in {"tap", "load", "write", "failed"}
  /\ r.pc \in {"load", "read", "close", "find", "socket", "again", "force", "giveup", "pdev", "fd"}

(* Nothing is written to a socket that was closed and no handle is closed  *)
(* twice; only the newest connection may be open, and all of the others    *)
(* were given back; and while the reader uses a connection, bb_fd is that  *)
(* one or none.                                                            *)
TunnelSafe ==
  /\ TypeOK /\ ~ misused
  /\ \A n \in Used : n + 1 \in Used => conn[n] = [dev |-> "closed", sock |-> "closed"]
  /\ bb_fd >= 0 => pdev = bb_fd /\ conn[bb_fd].dev = "open" /\ conn[bb_fd].sock # "closed"
  /\ r.pc \in {"read", "close"} => bb_fd \in {-1, r.fd}

(* The tunnel is connected again, unless the device stays away: a writer   *)
(* that failed wakes the reader, whoever noticed first.                    *)
TunnelReconnects ==
  (turns = MaxTurns /\ present)
    ~> (bb_fd >= 0 /\ conn[bb_fd].sock = "open")
=============================================================================
