---------------------------- MODULE ClientSocket ----------------------------
(***************************************************************************)
(* A baseband socket in the application (app/ar8030/session_socket.c, with *)
(* socket_fd.c): the calls that open, read, write, query and close it,     *)
(* against the read thread of its connection (app/ar8030/ar8030.c) and the *)
(* daemon's end of it (daemon/sock_node_rpc.c).                            *)
(*                                                                         *)
(* Every call but close joins the list `head` of the session, waits on the *)
(* condition socv, and is woken up by the read thread, under somtx.  When  *)
(* the connection ends the read thread waits until the list is empty, lets *)
(* somtx go, and frees the session.  What one thread does under somtx is   *)
(* one step; only close holds it longer, while it waits for handle_lk.  A  *)
(* thread that uses the session after it was freed goes to "fault": the    *)
(* program is undefined from there on.  Sockets of the daemon's datagram   *)
(* mode are left out.                                                      *)
(***************************************************************************)
EXTENDS Integers, FiniteSets, SequencesExt

CONSTANTS
  Writers, Readers, Queriers,   \* the threads that call write, read and ioctl
  BufLen,                       \* BUFLEN, the size of the receive ring
  WriteLen, MaxSnd,             \* bytes of a write, and of one message of it
  ReadLen,                      \* bytes a read asks for
  MaxRecv, MaxSeq,              \* bounds: bytes received, messages written
  Setups                        \* what may happen: see Setup

Main == "main"                  \* the thread that opens and closes the socket
Callers == Writers \cup Readers \cup Queriers
Threads == Callers \cup {Main}

ASSUME ThreadsAssumption ==
  /\ Main \notin Callers
  /\ Writers \cap Readers = {} /\ (Writers \cup Readers) \cap Queriers = {}
ASSUME WritersAssumption == IsFiniteSet(Writers)
ASSUME SizesAssumption ==
  /\ {BufLen, WriteLen, MaxSnd, ReadLen} \subseteq Nat \ {0}
  /\ MaxRecv \in Nat /\ MaxSeq \in Nat

(* callers: who calls; may: what may happen: "timeout" (calls have one),   *)
(* "data" (to receive), "close" (by the application), "hangup" (by the     *)
(* daemon), "refuse" (no socket, or no device), "full" (the ring in the    *)
(* daemon), "spurious" (wake-ups), "discard" (of received data); msgs: no  *)
(* call of write begins after so many messages.                            *)
Happenings == {"timeout", "data", "close", "hangup", "refuse", "full", "spurious",
               "discard"}
Setup == [callers : SUBSET Callers, may : SUBSET Happenings, msgs : 0 .. MaxSeq]
ASSUME SetupsAssumption == Setups \subseteq Setup

VARIABLES
  pc,                  \* where each thread is
  sock,                \* the session's fields, and whether it is "live" or "freed"
  fdtab,               \* whether the table of socket_fd.c has the descriptor
  hdl,                 \* the connection: BB_HANDLE
  rd,                  \* the read thread: its place and the messages it received
  op,                  \* the calls' results so far, on the stacks of their threads
  toDaemon, toClient,  \* the two directions of the connection
  dmn,                 \* the daemon's end
  got,                 \* history: bytes the reads returned, in order
  leaked,              \* history: received bytes that were dropped
  log,                 \* history: what became of each message written
  late,                \* history: who waited, or took somtx, after the list was empty
  setup                \* the setup of this behaviour; never changes

client == <<pc, sock, fdtab, op>>
thread == <<hdl, rd>>
wires == <<toDaemon, toClient, dmn>>
history == <<got, leaked, log, late>>
vars == <<client, thread, wires, history, setup>>

May(what) == what \in setup.may
Least(a, b) == IF a < b THEN a ELSE b

Init ==
  /\ setup \in Setups
  /\ pc = [t \in Threads |-> IF t = Main THEN "connected" ELSE "idle"]
  /\ sock = [mem |-> "none", is_opened |-> FALSE, exit_flg |-> FALSE, sockfd |-> FALSE,
             rx_rb |-> <<>>, head |-> {}, send_seq |-> 0]
  /\ fdtab = FALSE
  /\ hdl = [rpcfd |-> TRUE, bg_running |-> TRUE, handle_lk |-> "free"]
  /\ rd = [pc |-> "check", buf |-> <<>>]
  /\ op = [t \in Threads |-> [sta |-> 0, id |-> 0, cpl |-> 0, cur |-> 0]]
  /\ toDaemon = <<>> /\ toClient = <<>>
  /\ dmn = [hung |-> FALSE, opened |-> FALSE, owed |-> <<>>, sent |-> 0, stored |-> {}]
  /\ got = <<>> /\ leaked = {} /\ log = [w \in Writers |-> <<>>] /\ late = {}

-----------------------------------------------------------------------------
(* somtx, its condition variables and its list.                            *)

\* Close keeps somtx while it waits for handle_lk.
SomtxFree == pc[Main] /= "trig"

Go(t, place) == pc' = [pc EXCEPT ![t] = place]

\* The thread touches the session: it is alive, or the program is undefined.
Touch(t) == SomtxFree /\ sock.mem = "live"
Fault(t) == sock.mem = "freed" /\ Go(t, "fault") /\ UNCHANGED <<sock, fdtab, op>>

(* so_deinit found the list empty and let somtx go, but did not free the   *)
(* session yet; whoever stays in it now is not seen.                       *)
ComesLate(t) == late' = IF rd.pc = "free" THEN late \cup {t} ELSE late

\* Slip: pthread_cond_signal wakes up one.
WokenOne ==
  LET sleepers == {t \in Threads : pc[t] = "asleep"} IN
  IF sleepers = {} THEN pc ELSE [pc EXCEPT ![CHOOSE t \in sleepers : TRUE] = "woken"]

\* pthread_cond_broadcast(socv): everyone on the list sleeps on it.
Woken == [t \in Threads |-> IF pc[t] = "asleep" THEN "woken" ELSE pc[t]]

Send(m) == toDaemon' = IF hdl.rpcfd /\ ~ dmn.hung THEN Append(toDaemon, m) ELSE toDaemon

\* Slip: nobody tells the read thread.
LeaveSilent == rd' = rd

(* The thread is off the list; if the session is at its end the read       *)
(* thread, which waits on exitcv, is told.                                 *)
LeaveTells ==
  rd' = IF sock.exit_flg /\ rd.pc = "exitwait" THEN [rd EXCEPT !.pc = "deinit"] ELSE rd

-----------------------------------------------------------------------------
(* bb_socket_open.                                                         *)

(* The read thread runs before the session exists; a connection that ended *)
(* by then has taken its handle with it.                                   *)
SockInit ==
  /\ pc[Main] = "connected"
  /\ IF rd.pc = "over"
       THEN Go(Main, "fault") /\ UNCHANGED sock
       ELSE Go(Main, "init") /\ sock' = [sock EXCEPT !.mem = "live"]
  /\ UNCHANGED <<fdtab, op, thread, wires, history, setup>>

\* It does not look at exit_flg before it waits.
OpenSend ==
  /\ pc[Main] = "init"
  /\ \/ Fault(Main) /\ UNCHANGED <<toDaemon, late>>
     \/ /\ Touch(Main)
        /\ sock' = [sock EXCEPT !.head = @ \cup {Main}]
        /\ Send([op |-> "open", id |-> 0, n |-> 0])
        /\ Go(Main, "asleep") /\ ComesLate(Main)
        /\ UNCHANGED <<fdtab, op>>
  /\ UNCHANGED <<thread, toClient, dmn, got, leaked, log, setup>>

(* It waits once: whatever woke it up, sta is taken for the answer.        *)
OpenWake ==
  /\ pc[Main] = "woken"
  /\ \/ Fault(Main) /\ UNCHANGED rd
     \/ /\ Touch(Main)
        /\ sock' = [sock EXCEPT !.head = @ \ {Main}]
        /\ LeaveTells
        /\ Go(Main, IF sock.exit_flg THEN "failed"
                    ELSE IF op[Main].sta /= 0 THEN "refused" ELSE "opened")
        /\ UNCHANGED <<fdtab, op>>
  /\ UNCHANGED <<hdl, wires, history, setup>>

\* bs_trig_close: hang up, if nobody did; takes handle_lk.
TrigClose ==
  /\ hdl.handle_lk = "free"
  /\ hdl' = IF hdl.bg_running THEN [hdl EXCEPT !.rpcfd = FALSE, !.bg_running = FALSE]
            ELSE hdl

OpenRefused ==
  /\ pc[Main] = "refused"
  /\ \/ Fault(Main) /\ UNCHANGED hdl
     \/ /\ sock.mem = "live"
        /\ TrigClose
        /\ Go(Main, "failed")
        /\ UNCHANGED <<sock, fdtab, op>>
  /\ UNCHANGED <<rd, wires, history, setup>>

\* The descriptor is in the table before the session knows it.
OpenAddFd ==
  /\ pc[Main] = "opened"
  /\ fdtab' = TRUE /\ Go(Main, "listed")
  /\ UNCHANGED <<sock, op, thread, wires, history, setup>>

\* Without somtx.
OpenPublish ==
  /\ pc[Main] = "listed"
  /\ \/ Fault(Main)
     \/ /\ sock.mem = "live"
        /\ sock' = [sock EXCEPT !.rx_rb = <<>>, !.sockfd = TRUE, !.is_opened = TRUE]
        /\ Go(Main, "open")
        /\ UNCHANGED <<fdtab, op>>
  /\ UNCHANGED <<thread, wires, history, setup>>

-----------------------------------------------------------------------------
(* bb_socket_close.                                                        *)
CloseDelFd ==
  /\ May("close") /\ pc[Main] = "open"
  /\ Go(Main, IF fdtab THEN "close" ELSE "closed")
  /\ fdtab' = FALSE
  /\ UNCHANGED <<sock, op, thread, wires, history, setup>>

CloseLock ==
  /\ pc[Main] = "close"
  /\ \/ Fault(Main) /\ UNCHANGED late
     \/ /\ Touch(Main) /\ Go(Main, "trig") /\ ComesLate(Main)
        /\ UNCHANGED <<sock, fdtab, op>>
  /\ UNCHANGED <<thread, wires, got, leaked, log, setup>>

CloseTrig ==
  /\ pc[Main] = "trig"
  /\ \/ Fault(Main) /\ UNCHANGED hdl
     \/ /\ sock.mem = "live"
        /\ TrigClose
        /\ Go(Main, "closed")
        /\ UNCHANGED <<sock, fdtab, op>>
  /\ UNCHANGED <<rd, wires, history, setup>>

-----------------------------------------------------------------------------
(* bb_socket_write, bb_socket_read and bb_socket_ioctl.                    *)

\* The application calls with the descriptor that bb_socket_open returned.
Enter(t) ==
  /\ pc[t] = "idle" /\ t \in setup.callers
  /\ pc[Main] \in {"open", "close", "trig", "closed"}
  /\ fdtab /\ ~ sock.exit_flg
  /\ \/ t \in Writers /\ sock.send_seq < setup.msgs /\ Go(t, "next")
     \/ t \notin Writers /\ Go(t, "lock")
  /\ op' = [op EXCEPT ![t].cur = 0]
  /\ UNCHANGED <<sock, fdtab, thread, wires, history, setup>>

Sleep(t) ==
  /\ sock' = [sock EXCEPT !.head = @ \cup {t}]
  /\ Go(t, "asleep")
  /\ UNCHANGED rd

Leave(t) ==
  /\ sock' = [sock EXCEPT !.head = @ \ {t}]
  /\ LeaveTells

(* send_seq++ is done without a lock, in two steps: of two writers that do *)
(* it at once both may get the same number.                                *)
WriteNext(w) ==
  /\ pc[w] = "next"
  /\ \/ Fault(w)
     \/ /\ sock.mem = "live"
        /\ op' = [op EXCEPT ![w].id = sock.send_seq, ![w].sta = 0, ![w].cpl = 0]
        /\ Go(w, "store")
        /\ UNCHANGED <<sock, fdtab>>
  /\ UNCHANGED <<thread, wires, history, setup>>

WriteStore(w) ==
  /\ pc[w] = "store"
  /\ \/ Fault(w)
     \/ /\ sock.mem = "live"
        /\ sock' = [sock EXCEPT !.send_seq = op[w].id + 1]
        /\ Go(w, "lock")
        /\ UNCHANGED <<fdtab, op>>
  /\ UNCHANGED <<thread, wires, history, setup>>

Piece(w) == Least(MaxSnd, WriteLen - op[w].cur)

(* One message has got the result n.  The call goes on with the next one   *)
(* if the daemon took all of it, and returns what it counted so far.       *)
WriteEnd(w, n, how) ==
  /\ Leave(w)
  /\ log' = [log EXCEPT ![w] = Append(@, [id |-> op[w].id, n |-> n, how |-> how])]
  /\ op' = [op EXCEPT ![w].cur = IF n < 0 THEN @ ELSE @ + n]
  /\ Go(w, IF n >= Piece(w) /\ op'[w].cur < WriteLen THEN "next" ELSE "idle")

WriteSend(w) ==
  /\ pc[w] = "lock"
  /\ \/ Fault(w) /\ UNCHANGED <<rd, log, toDaemon>>
     \/ /\ Touch(w)
        /\ Send([op |-> "write", id |-> op[w].id, n |-> Piece(w)])
        /\ IF sock.exit_flg THEN WriteEnd(w, -1, "exit")
           ELSE Sleep(w) /\ UNCHANGED <<log, op>>
        /\ UNCHANGED fdtab
  /\ UNCHANGED <<hdl, toClient, dmn, got, leaked, late, setup>>

(* wr_len = 0 reads as "no answer yet".                                    *)
WriteWake(w) ==
  /\ pc[w] = "woken" /\ Touch(w)
  /\ \/ sock.exit_flg /\ WriteEnd(w, -1, "exit")
     \/ ~ sock.exit_flg /\ op[w].sta /= 0 /\ WriteEnd(w, op[w].sta, "done")
     \/ ~ sock.exit_flg /\ op[w].sta = 0 /\ Sleep(w) /\ UNCHANGED <<log, op>>
  /\ UNCHANGED <<fdtab, hdl, wires, got, leaked, late, setup>>

\* What the daemon said it stored is returned.
WriteTimeout(w) ==
  /\ May("timeout") /\ pc[w] \in {"asleep", "woken"} /\ Touch(w)
  /\ WriteEnd(w, op[w].cpl, "timeout")
  /\ UNCHANGED <<fdtab, hdl, wires, got, leaked, late, setup>>

(* One turn of the loop, the first or one after a wake-up.                 *)
Read(r) ==
  LET n == Least(ReadLen, Len(sock.rx_rb)) IN
  /\ pc[r] \in {"lock", "woken"}
  /\ \/ pc[r] = "lock" /\ Fault(r) /\ UNCHANGED <<rd, got>>
     \/ /\ Touch(r) /\ sock.exit_flg
        /\ Leave(r) /\ Go(r, "idle")
        /\ UNCHANGED <<fdtab, op, got>>
     \/ /\ Touch(r) /\ ~ sock.exit_flg /\ n = 0
        /\ Sleep(r)
        /\ UNCHANGED <<fdtab, op, got>>
     \/ /\ Touch(r) /\ ~ sock.exit_flg /\ n > 0
        /\ got' = got \o SubSeq(sock.rx_rb, 1, n)
        /\ sock' = [sock EXCEPT !.head = @ \ {r}, !.rx_rb = SubSeq(@, n + 1, Len(@))]
        /\ Go(r, "idle")
        /\ UNCHANGED <<fdtab, op, rd>>
  /\ UNCHANGED <<hdl, wires, leaked, log, late, setup>>

ReadTimeout(r) ==
  /\ May("timeout") /\ pc[r] \in {"asleep", "woken"} /\ Touch(r)
  /\ Leave(r) /\ Go(r, "idle")
  /\ UNCHANGED <<fdtab, op, hdl, wires, history, setup>>

\* bb_socket_com_opt.
QuerySend(q) ==
  /\ pc[q] = "lock"
  /\ \/ Fault(q) /\ UNCHANGED <<rd, toDaemon>>
     \/ /\ Touch(q)
        /\ Send([op |-> "query", id |-> 0, n |-> 0])
        /\ op' = [op EXCEPT ![q].sta = 0]
        /\ IF sock.exit_flg THEN Leave(q) /\ Go(q, "idle") ELSE Sleep(q)
        /\ UNCHANGED fdtab
  /\ UNCHANGED <<hdl, toClient, dmn, history, setup>>

QueryWake(q) ==
  /\ pc[q] = "woken" /\ Touch(q)
  /\ IF sock.exit_flg \/ op[q].sta /= 0 THEN Leave(q) /\ Go(q, "idle") ELSE Sleep(q)
  /\ UNCHANGED <<fdtab, op, hdl, wires, history, setup>>

\* BB_SOCK_READ_INV_DATA: what was received and not yet read is dropped.
Discard ==
  /\ May("discard") /\ fdtab /\ pc[Main] = "open" /\ SomtxFree
  /\ sock.rx_rb /= <<>> /\ ~ sock.exit_flg
  /\ sock' = [sock EXCEPT !.rx_rb = <<>>]
  /\ leaked' = leaked \cup ToSet(sock.rx_rb)
  /\ UNCHANGED <<pc, fdtab, op, thread, wires, got, log, late, setup>>

\* A sleeper may wake up by itself.
Spurious(t) ==
  /\ May("spurious") /\ pc[t] = "asleep"
  /\ Go(t, "woken")
  /\ UNCHANGED <<sock, fdtab, op, thread, wires, history, setup>>

-----------------------------------------------------------------------------
(* bb_read_thread.                                                         *)

(* At the top of the loop; it leaves the loop with handle_lk held.         *)
RdCheck ==
  /\ rd.pc = "check" /\ hdl.handle_lk = "free"
  /\ rd' = [rd EXCEPT !.pc = IF hdl.bg_running THEN "recv" ELSE "end"]
  /\ hdl' = IF hdl.bg_running THEN hdl ELSE [hdl EXCEPT !.handle_lk = "rd"]
  /\ UNCHANGED <<client, wires, history, setup>>

\* What has arrived is received at once.
RdRecv ==
  /\ rd.pc = "recv"
  /\ \/ /\ hdl.rpcfd /\ toClient /= <<>>
        /\ rd' = [pc |-> "proc", buf |-> toClient]
        /\ toClient' = <<>>
     \/ /\ ~ hdl.rpcfd \/ (dmn.hung /\ toClient = <<>>)
        /\ rd' = [rd EXCEPT !.pc = "end"]
        /\ UNCHANGED toClient
  /\ UNCHANGED <<client, hdl, toDaemon, dmn, history, setup>>

\* The daemon does not know the device (BB_RPC_SEL_ID): hang up.
RdNotFound ==
  /\ rd.pc = "proc" /\ Head(rd.buf).op = "notfound" /\ hdl.handle_lk = "free"
  /\ hdl' = [hdl EXCEPT !.rpcfd = FALSE]
  /\ rd' = [pc |-> "check", buf |-> <<>>]
  /\ UNCHANGED <<client, wires, history, setup>>

\* Slip: the number of the message is not compared.
TakesAnyRet(t, m) ==
  CASE t = Main /\ m.op = "open" -> [op[t] EXCEPT !.sta = m.n]
    [] t \in Queriers /\ m.op = "query" -> [op[t] EXCEPT !.sta = 1]
    [] t \in Writers /\ sock.is_opened /\ m.op = "write" -> [op[t] EXCEPT !.sta = m.n]
    [] t \in Writers /\ sock.is_opened /\ m.op = "write_ret" -> [op[t] EXCEPT !.cpl = m.n]
    [] OTHER -> op[t]

(* The wkf of a waiting thread: what it takes from the message, and        *)
(* whether it wakes all.                                                   *)
Takes(t, m) ==
  CASE t = Main /\ m.op = "open" -> [op[t] EXCEPT !.sta = m.n]
    [] t \in Queriers /\ m.op = "query" -> [op[t] EXCEPT !.sta = 1]
    [] t \in Writers /\ sock.is_opened /\ m.op = "write" -> [op[t] EXCEPT !.sta = m.n]
    [] t \in Writers /\ sock.is_opened /\ m.op = "write_ret" /\ m.id = op[t].id ->
         [op[t] EXCEPT !.cpl = m.n]
    [] OTHER -> op[t]

Wakes(t, m, rb) ==
  \/ t = Main /\ m.op = "open"
  \/ t \in Queriers /\ m.op = "query"
  \/ t \in Writers /\ sock.is_opened /\ m.op = "write"
  \/ t \in Readers /\ rb /= <<>>

\* so_rpc_cb: received bytes go to the ring as far as it has room.
RpcCb(m) ==
  LET n == IF sock.is_opened THEN Least(BufLen - Len(sock.rx_rb), Len(m.data)) ELSE 0
      rb == sock.rx_rb \o SubSeq(m.data, 1, n)
  IN  /\ sock' = [sock EXCEPT !.rx_rb = rb]
      /\ leaked' = leaked \cup ToSet(SubSeq(m.data, n + 1, Len(m.data)))
      /\ op' = [t \in Threads |-> IF t \in sock.head THEN Takes(t, m) ELSE op[t]]
      /\ pc' = IF \E t \in sock.head : Wakes(t, m, rb) THEN Woken ELSE pc

RdProc ==
  /\ rd.pc = "proc" /\ Head(rd.buf).op /= "notfound" /\ SomtxFree
  /\ RpcCb(Head(rd.buf))
  /\ rd' = [pc |-> IF Len(rd.buf) = 1 THEN "check" ELSE "proc", buf |-> Tail(rd.buf)]
  /\ UNCHANGED <<fdtab, hdl, wires, got, log, late, setup>>

(* The connection ended: so_deinit begins, with handle_lk held.  Without a *)
(* session the handle is all there is to free.                             *)
RdEnd ==
  /\ rd.pc = "end" /\ hdl.handle_lk = "free"
  /\ IF sock.mem = "none"
       THEN /\ hdl' = [hdl EXCEPT !.rpcfd = FALSE, !.bg_running = FALSE]
            /\ rd' = [rd EXCEPT !.pc = "over"]
            /\ UNCHANGED <<sock, fdtab>>
       ELSE /\ hdl' = [hdl EXCEPT !.rpcfd = FALSE, !.handle_lk = "rd"]
            /\ rd' = [rd EXCEPT !.pc = "deinit"]
            /\ sock' = [sock EXCEPT !.exit_flg = TRUE]
            /\ fdtab' = (fdtab /\ ~ sock.sockfd)
  /\ UNCHANGED <<pc, op, wires, history, setup>>

\* Everyone on the list is woken up, and waited for.
RdDeinitWait ==
  /\ rd.pc = "deinit" /\ SomtxFree /\ sock.head /= {}
  /\ pc' = Woken
  /\ rd' = [rd EXCEPT !.pc = "exitwait"]
  /\ UNCHANGED <<sock, fdtab, op, hdl, wires, history, setup>>

\* Slip: nobody is waited for.
RdNoWait ==
  /\ rd.pc = "deinit" /\ SomtxFree
  /\ rd' = [rd EXCEPT !.pc = "free"]
  /\ UNCHANGED <<client, hdl, wires, history, setup>>

\* Nobody is on the list: somtx is let go.
RdListEmpty ==
  /\ rd.pc = "deinit" /\ SomtxFree /\ sock.head = {}
  /\ rd' = [rd EXCEPT !.pc = "free"]
  /\ UNCHANGED <<client, hdl, wires, history, setup>>

(* The mutex and the conditions are destroyed and the session is freed,    *)
(* whoever has come since then.                                            *)
RdFree ==
  /\ rd.pc = "free"
  /\ sock' = [sock EXCEPT !.mem = "freed"]
  /\ hdl' = [hdl EXCEPT !.handle_lk = "free", !.bg_running = FALSE]
  /\ rd' = [rd EXCEPT !.pc = "over"]
  /\ UNCHANGED <<pc, fdtab, op, wires, history, setup>>

-----------------------------------------------------------------------------
(* The daemon: rpc_socket_read_proc, sock_rpc_push_read_data and the       *)
(* completion of writes (modules SockNode and SockStream).                 *)
Up == hdl.rpcfd /\ ~ dmn.hung
Reply(o, id, n, data) ==
  toClient' = Append(toClient, [op |-> o, id |-> id, n |-> n, data |-> data])

Request(o) ==
  /\ Up /\ toDaemon /= <<>> /\ Head(toDaemon).op = o
  /\ toDaemon' = Tail(toDaemon)

DaemonOpen ==
  /\ Request("open")
  /\ \/ Reply("open", 0, 0, <<>>) /\ dmn' = [dmn EXCEPT !.opened = TRUE]
     \/ May("refuse") /\ Reply("open", 0, -1, <<>>) /\ UNCHANGED dmn
     \/ May("refuse") /\ Reply("notfound", 0, 0, <<>>) /\ UNCHANGED dmn
  /\ UNCHANGED <<client, thread, history, setup>>

\* It stores what its ring has room for, says so, and owes the completion.
DaemonWrite ==
  /\ Request("write")
  /\ \E n \in 0 .. Head(toDaemon).n :
       LET id == Head(toDaemon).id IN
       /\ n < Head(toDaemon).n => May("full")
       /\ Reply("write_ret", id, n, <<>>)
       /\ dmn' = [dmn EXCEPT !.owed = Append(@, [id |-> id, n |-> n]),
                             !.stored = @ \cup {[id |-> id, n |-> n]}]
  /\ UNCHANGED <<client, thread, history, setup>>

DaemonComplete ==
  /\ Up /\ dmn.owed /= <<>>
  /\ Reply("write", 0, Head(dmn.owed).n, <<>>)
  /\ dmn' = [dmn EXCEPT !.owed = Tail(@)]
  /\ UNCHANGED <<client, thread, toDaemon, history, setup>>

DaemonQuery ==
  /\ Request("query")
  /\ Reply("query", 0, 0, <<>>)
  /\ UNCHANGED <<client, thread, dmn, history, setup>>

\* Received bytes are numbered.
DaemonPush ==
  /\ May("data") /\ Up /\ dmn.opened
  /\ \E n \in 1 .. Least(2, MaxRecv - dmn.sent) :
       /\ Reply("read", 0, n, [i \in 1 .. n |-> dmn.sent + i])
       /\ dmn' = [dmn EXCEPT !.sent = @ + n]
  /\ UNCHANGED <<client, thread, toDaemon, history, setup>>

HangUp ==
  /\ May("hangup") /\ Up
  /\ dmn' = [dmn EXCEPT !.hung = TRUE]
  /\ UNCHANGED <<client, thread, toDaemon, toClient, history, setup>>

-----------------------------------------------------------------------------
MainStep ==
  \/ SockInit \/ OpenSend \/ OpenWake \/ OpenRefused \/ OpenAddFd \/ OpenPublish
  \/ CloseLock \/ CloseTrig
WriteStep(w) == WriteNext(w) \/ WriteStore(w) \/ WriteSend(w) \/ WriteWake(w)
QueryStep(q) == QuerySend(q) \/ QueryWake(q)
RdStep ==
  \/ RdCheck \/ RdRecv \/ RdNotFound \/ RdProc \/ RdEnd \/ RdDeinitWait \/ RdListEmpty
  \/ RdFree
DaemonStep == DaemonOpen \/ DaemonWrite \/ DaemonComplete \/ DaemonQuery

Next ==
  \/ MainStep \/ CloseDelFd
  \/ \E t \in Callers : Enter(t)
  \/ \E w \in Writers : WriteStep(w) \/ WriteTimeout(w)
  \/ \E r \in Readers : Read(r) \/ ReadTimeout(r)
  \/ \E q \in Queriers : QueryStep(q)
  \/ Discard
  \/ \E t \in Threads : Spurious(t)
  \/ RdStep
  \/ DaemonStep \/ DaemonPush \/ HangUp

Spec == Init /\ [][Next]_vars

(* Each thread goes on when it can, and the daemon answers; whether the    *)
(* application calls or closes, and whether anything happens, is open.     *)
Fairness ==
  /\ WF_vars(MainStep) /\ WF_vars(RdStep) /\ WF_vars(DaemonStep)
  /\ \A w \in Writers : WF_vars(WriteStep(w))
  /\ \A r \in Readers : WF_vars(Read(r))
  /\ \A q \in Queriers : WF_vars(QueryStep(q))

FairSpec == Spec /\ Fairness

-----------------------------------------------------------------------------
TypeOK ==
  /\ pc \in [Threads -> {"connected", "init", "refused", "opened", "listed", "open",
                         "close", "trig", "closed", "failed", "idle", "next", "store",
                         "lock", "asleep", "woken", "fault"}]
  /\ sock.mem \in {"none", "live", "freed"} /\ Len(sock.rx_rb) <= BufLen
  /\ sock.head \subseteq Threads
  /\ rd.pc \in {"check", "recv", "proc", "end", "deinit", "exitwait", "free", "over"}
  /\ rd.pc = "proc" <=> rd.buf /= <<>>
  /\ hdl.handle_lk \in {"free", "rd"}
  /\ \A w \in Writers : op[w].cur \in Nat

(***************************************************************************)
(* The read thread frees the session only when nobody waits on it or holds *)
(* its lock: so_deinit and the waiting calls find each other, however the  *)
(* end of the connection falls between their checks and their waits.  The  *)
(* code keeps it but for who comes between the last look at the list and   *)
(* the freeing, without a look at exit_flg: an open that begins to wait    *)
(* there, which nobody will wake, or a close that takes somtx; no read,    *)
(* write or query is among them.                                           *)
(***************************************************************************)
SessionOutlivesCalls ==
  /\ late \subseteq {Main}
  /\ sock.mem = "freed" =>
       \A t \in Threads :
         t \in sock.head \/ pc[t] \in {"asleep", "woken", "trig"} => t \in late

(***************************************************************************)
(* No wake-up of a reader is lost: none sleeps while there is data, with   *)
(* several readers, short reads, and data that comes as they go to sleep.  *)
(***************************************************************************)
NoReaderAsleepOnData ==
  \A r \in Readers : pc[r] = "asleep" => sock.rx_rb = <<>>

(***************************************************************************)
(* The reads return the received bytes in order, each once, and all but    *)
(* those that came before the socket was open, found the ring full, or     *)
(* were discarded; a read that times out takes nothing with it.            *)
(***************************************************************************)
ReadsInOrder ==
  LET all == got \o sock.rx_rb
      seen == ToSet(all) \cup leaked
  IN  /\ \A i, j \in DOMAIN all : i < j => all[i] < all[j]
      /\ \A b \in seen : 1 .. b \subseteq seen

\* It never happened before entry i of the log of w that a message timed out.
InStep(w, i) == \A j \in 1 .. i - 1 : log[w][j].how /= "timeout"

(***************************************************************************)
(* Calls end with their own results.  bb_socket_open succeeds only if the  *)
(* daemon opened the socket, provided nothing wakes its single wait but an *)
(* answer or the end.  While one thread writes and no earlier message      *)
(* timed out, a message ends with what the daemon stored of it, after the  *)
(* device has sent that; one that times out reports what was stored or     *)
(* nothing.  (Any so_write reply ends every write in progress, so that two *)
(* writers, or a late reply, mix the results up.)                          *)
(***************************************************************************)
OwnResult ==
  /\ pc[Main] \in {"opened", "listed", "open", "close", "trig", "closed"} =>
       dmn.opened \/ May("spurious")
  /\ Cardinality(setup.callers \cap Writers) = 1 =>
       \A w \in Writers : \A i \in DOMAIN log[w] :
         LET m == [id |-> log[w][i].id, n |-> log[w][i].n] IN
         /\ log[w][i].how = "done" /\ InStep(w, i) =>
              m \in dmn.stored /\ m \notin ToSet(dmn.owed)
         /\ log[w][i].how = "timeout" => m.n = 0 \/ m \in dmn.stored

(* The read thread wants the lock it kept (bg_running was reset while it   *)
(* handled a message), or it and close each hold what the other wants.     *)
SelfDeadlock == rd.pc = "end" /\ hdl.handle_lk = "rd"
LockCycle == rd.pc \in {"deinit", "exitwait"} /\ pc[Main] = "trig"

(***************************************************************************)
(* Once the connection has ended, on either side, whoever the read thread  *)
(* finds waiting is let go and the session is freed, unless the threads    *)
(* block each other in one of the two ways above; the second takes a       *)
(* daemon that hangs up while the application closes.                      *)
(***************************************************************************)
SessionEnds ==
  ~ Up /\ sock.mem = "live" ~>
    sock.mem = "freed" \/ SelfDeadlock \/ (May("hangup") /\ LockCycle)

(***************************************************************************)
(* While the connection lasts, every open, write and query is answered and *)
(* returns, unless the daemon's ring was full: the reply 0 to a write of   *)
(* which nothing was stored leaves the writer asleep for good.             *)
(***************************************************************************)
CallsReturn ==
  \A t \in Threads \ Readers :
    pc[t] = "asleep" /\ ~ May("full") ~> pc[t] \notin {"asleep", "woken"} \/ ~ Up

\* The session is not freed under a call that waits, but for an open or close
\* that comes late; the types.
SessionSafe == TypeOK /\ SessionOutlivesCalls

\* Calls return the received bytes in order and their own results.
OwnResults == ReadsInOrder /\ OwnResult

\* The session ends when its connection does, and calls return until then.
SessionAndCallsEnd == SessionEnds /\ CallsReturn
=============================================================================
