------------------------------ MODULE MCServer ------------------------------
(***************************************************************************)
(* Part "server": module Server with two connections, which may each be    *)
(* opened for some of the requests.  Part "cmdline": module CmdLine with   *)
(* two clients.  The part that is not run keeps its first state.           *)
(***************************************************************************)
EXTENDS Server, TLC, FiniteSets

CONSTANTS c1, c2, Clients, SendMax, SendCap, MaxTyped
MCMay == c1 :> {"hotplug", "test", "plat", "plat_none"}
         @@ c2 :> {"hotplug", "list", "mac", "open", "bind"}

ASSUME LineAssumption ==
  /\ IsFiniteSet(Clients) /\ {"none", "poll", "recv", "send"} \cap Clients = {}
  /\ SendMax \in Nat /\ SendCap \in Nat /\ MaxTyped \in Nat

VARIABLES part, plist_mtx, cldrv_mtx, node, freed, freeflag, head, pc, drv,
          client_plug_event, sendbuff, snd, num, rcv, del, typed, dev, told, missed,
          heldNode, strayNode
lineVars == <<plist_mtx, cldrv_mtx, node, freed, freeflag, head, pc, drv, client_plug_event,
              sendbuff, snd, num, rcv, del, typed, dev, told, missed, heldNode, strayNode>>
serverVars == vars

C == INSTANCE CmdLine WITH poll <- del, held <- heldNode, stray <- strayNode

PartsInit == Init /\ C!Init /\ part \in {"server", "cmdline"}

OfServer(A) == part = "server" /\ A /\ UNCHANGED <<part, lineVars>>
OfLine(A) == part = "cmdline" /\ A /\ UNCHANGED <<part, serverVars>>

PartsNext ==
  \/ part = "server" /\ Next /\ UNCHANGED <<part, lineVars>>
  \/ part = "cmdline" /\ C!Next /\ UNCHANGED <<part, serverVars>>

allVars == <<part, serverVars, lineVars>>

PartsSpec ==
  /\ PartsInit /\ [][PartsNext]_allVars
  /\ WF_allVars(OfServer(Told) \/ OfLine(C!Send)) /\ WF_allVars(OfLine(C!Poll))
  /\ \A c \in Conns : WF_allVars(OfServer(Client(c))) /\ WF_allVars(OfServer(Thread(c)))
  /\ \A c \in Clients : WF_allVars(OfLine(C!Client(c)))

(* CmdLineSafe of module CmdLine.                                          *)
CmdLineSafe == C!CmdLineSafe
(* Clients of the daemon are served (Served of module Server), and the     *)
(* command line comes to an end (CmdLineEnds of module CmdLine), which it  *)
(* does once.                                                              *)
ServerGoesOn == []<>(AllServed /\ C!CmdLineSettled)
=============================================================================
