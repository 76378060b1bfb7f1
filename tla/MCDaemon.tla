------------------------------- MODULE MCDaemon -------------------------------
(***************************************************************************)
(* Four parts of the daemon for TLC: part "nodes" is SockNode with the     *)
(* sessions and setups of MCSockNode, part "start" is Startup, part "log"  *)
(* is BgLog, and part "life" is IoctlLife.  A behaviour is of one of them, *)
(* and the parts that do not run keep a first state.                       *)
(***************************************************************************)
EXTENDS MCSockNode, FiniteSets

CONSTANTS Clients, Intfs, MaxCalls, MaxFaults, RingSize, BatchSize, LineMax, MaxLines, MaxShort

ASSUME ClientsAssumption == IsFiniteSet(Clients) /\ "none" \notin Clients
ASSUME StartupBounds == Intfs \subseteq {"usb", "uart", "other"} /\ MaxCalls \in Nat /\ MaxFaults \in Nat
ASSUME LogBounds == {RingSize, BatchSize, LineMax} \subseteq Nat \ {0} /\ {MaxLines, MaxShort} \subseteq Nat

VARIABLES
  part,
  main, intf, listener, head, cnt, conn, req, sta, calls, faults, usbfault, killed,
  level, ring, bg, batch, stop_flg, close, log_fp, lines, short, stdout, file, entered, dropped,
  missed, logKilled,
  peer, reader, fd, fds, ioNod, ioList, ioSnd, ioRcv, ioTo, ioFrom, ioPlug, ioCls, bad, manner

startVars == <<main, intf, listener, head, cnt, conn, req, sta, calls, faults, usbfault, killed>>
logVars == <<level, ring, bg, batch, stop_flg, close, log_fp, lines, short, stdout, file, entered,
             dropped, missed, logKilled>>
lifeVars == <<peer, reader, fd, fds, ioNod, ioList, ioSnd, ioRcv, ioTo, ioFrom, ioPlug, ioCls, bad,
              manner>>
allVars == <<part, vars, startVars, logVars, lifeVars>>

B == INSTANCE Startup WITH Conns <- Clients
L == INSTANCE BgLog WITH Size <- RingSize, Batch <- BatchSize, rb <- ring, killed <- logKilled
\* Clients that hang up at any time, or a device that is unplugged.
E == INSTANCE IoctlLife
       WITH Conns <- Clients, Manners <- {k \in [hasty : BOOLEAN, unplug : BOOLEAN] : ~ (k.hasty /\ k.unplug)},
            conn <- reader, nod <- ioNod, work_list <- ioList, snd <- ioSnd, rcv <- ioRcv,
            toDev <- ioTo, fromDev <- ioFrom, plug <- ioPlug, cls_head <- ioCls

PartsInit ==
  /\ Init /\ B!Init /\ L!Init /\ E!Init /\ part \in {"nodes", "start", "log", "life"}
  /\ part # "nodes" => setup = CHOOSE k \in Setups : TRUE
  /\ part # "log" => ~ log_fp
  /\ part # "life" => manner = [hasty |-> FALSE, unplug |-> FALSE]

OfNodes(A) == part = "nodes" /\ A /\ UNCHANGED <<part, startVars, logVars, lifeVars>>
OfStart(A) == part = "start" /\ A /\ UNCHANGED <<part, vars, logVars, lifeVars>>
OfLog(A) == part = "log" /\ A /\ UNCHANGED <<part, vars, startVars, lifeVars>>
OfLife(A) == part = "life" /\ A /\ UNCHANGED <<part, vars, startVars, logVars>>

PartsNext == OfNodes(Next) \/ OfStart(B!Next) \/ OfLog(L!Next) \/ OfLife(E!Next)

(* Only one part runs, so that a conjunct stands for an action of each.    *)
PartsSpec ==
  /\ PartsInit /\ [][PartsNext]_allVars
  /\ \A s \in Sessions :
       /\ WF_allVars(OfNodes(Rpc(s)))
       /\ WF_allVars(OfNodes(Close(s) /\ (app[s] = "refused" \/ ~ rpc[s].conn)))
  /\ WF_allVars(OfNodes(SendThread) \/ OfStart(B!Main) \/ OfLog(L!Bg) \/ OfLife(E!Send))
  /\ WF_allVars(OfNodes(RecvThread) \/ OfStart(B!Listener) \/ OfLog(L!Closing) \/ OfLife(E!Recv))
  /\ WF_allVars(OfNodes(Device) \/ OfLife(E!Reply))
  /\ WF_allVars(OfNodes(Poll) \/ OfLife(E!Poll))
  /\ \A c \in Clients :
       WF_allVars(OfStart(B!Ask(c)) \/ OfLife(E!Thread(c))) /\ WF_allVars(OfLife(E!HangUp(c)))

(* Requests that come while the daemon starts (StartSafe of Startup), the  *)
(* lines of its log (LogSafe of BgLog), and the nodes of its ioctl         *)
(* connections (LifeSafe of IoctlLife).                                    *)
DaemonSafe == B!StartSafe /\ L!LogSafe /\ E!LifeSafe
(* In the end, and for good, the daemon has started and answered           *)
(* (StartSettled of Startup), its log is written (LogSettled of BgLog),    *)
(* its sockets are opened and closed (SocketsSettled of SockNode), and the *)
(* nodes of connections that were hung up are freed (LifeSettled of        *)
(* IoctlLife): no part does anything twice, so that all of it comes once.  *)
DaemonGoesOn ==
  <>[]((part = "start" => B!StartSettled) /\ L!LogSettled /\ SocketsSettled /\ E!LifeSettled)
=============================================================================
