------------------------------- MODULE MCApps -------------------------------
(***************************************************************************)
(* The programs on top of the client library, for TLC: the connection of   *)
(* the tunnel (TunTap), its frames (TunFrame) and the firmware upgrade     *)
(* (Upgrade).  They share nothing; a behaviour is of one of them.          *)
(***************************************************************************)
EXTENDS TunTap, Sequences

CONSTANTS 
  Cap, Packets, MaxFrames, MaxLosses,
  Images, Roms, Chunk, Block, GptOffset, MaxThreads, RetryTimes, MaxFaults, MaxRuns

ASSUME UpgradeSizes ==
  /\ Chunk \in Nat \ {0} /\ Block \in Nat \ {0} /\ GptOffset \in Nat /\ Roms \subseteq Nat
  /\ MaxThreads \in Nat \ {0}
  /\ RetryTimes \in Nat /\ MaxFaults \in Nat /\ MaxRuns \in Nat
ASSUME ImagesAssumption ==
  Images \subseteq [rom : Nat,
                    parts : Seq([name : STRING, off : Nat, len : Nat, is_upgrade : BOOLEAN]),
                    segs : Seq([off : Nat, size : Nat])]

VARIABLES
  part,
  wire, sent, rx, out, since, losses, owed, odd,
  img, rom, flash, running, runs, guessed, faults, pc, todo, left_len, g_written_size, g_err, th

F == INSTANCE TunFrame
U == INSTANCE Upgrade

fvars == <<wire, sent, rx, out, since, losses, owed, odd>>
uvars ==
  <<img, rom, flash, running, runs, guessed, faults, pc, todo, left_len, g_written_size, g_err, th>>
allvars == <<part, vars, fvars, uvars>>

P(n, o, l, u) == [name |-> n, off |-> o, len |-> l, is_upgrade |-> u]
S(o, l) == [off |-> o, size |-> l]

(* Images: whole ones, with a rom code and without, one that leaves app0   *)
(* as it is, one with a segment that does not begin its partition, one     *)
(* that does not fit, and unsound ones that are verified: a rom code that  *)
(* leaves no room for the tables, partitions that overlap.                 *)
MCImages ==
  LET Image(n, p, s) == [rom |-> n, parts |-> p, segs |-> s]
      Two(u) == <<P("app0", 0, 10, u), P("app1", 10, 12, TRUE)>>
  IN {Image(4, Two(TRUE), <<S(0, 6), S(10, 4)>>), Image(0, Two(FALSE), <<S(10, 7)>>),
      Image(0, Two(TRUE), <<S(0, 4), S(11, 7)>>), Image(4, Two(TRUE), <<S(0, 10), S(10, 13)>>),
      Image(6, Two(FALSE), <<S(10, 5)>>),
      Image(0, <<P("app0", 0, 4, TRUE), P("app1", 2, 4, TRUE)>>, <<S(0, 4), S(2, 4)>>)}

(* Packets that fit and ones that do not, with and without the bytes of    *)
(* the header; a byte that reads as a length of 0.                         *)
MCPackets == {<<0>>, <<8, 9>>, <<1, 0, 2>>, <<8, 9, 8, 0>>}

(* The device and image of an upgrade that does not run are any.           *)
PartsInit ==
  /\ Init /\ F!Init /\ U!Init /\ part \in {"tunnel", "frames", "upgrade"}
  /\ part # "upgrade" => /\ running = 0 /\ img = CHOOSE i \in Images : TRUE
                         /\ rom = CHOOSE n \in Roms : TRUE

OfTunnel(A) == part = "tunnel" /\ A /\ UNCHANGED <<part, fvars, uvars>>
OfFrames(A) == part = "frames" /\ A /\ UNCHANGED <<part, vars, uvars>>
OfUpgrade(A) == part = "upgrade" /\ A /\ UNCHANGED <<part, vars, fvars>>

PartsNext == OfTunnel(Next) \/ OfFrames(F!Next) \/ OfUpgrade(U!Next)

PartsSpec ==
  /\ PartsInit /\ [][PartsNext]_allvars
  /\ WF_allvars(OfTunnel(Writer)) /\ SF_allvars(OfTunnel(Reader))
  /\ WF_allvars(OfUpgrade(U!Main)) /\ \A t \in U!Threads : WF_allvars(OfUpgrade(U!Writer(t)))

(* The properties of the modules, each of its own part.                    *)
\* The packets the reader of the tunnel gives to the device (TunFrame).
TunnelFrames == F!TunnelFrames
\* One system boots at any moment, and done means done (Upgrade).
UpgradeSafe == U!UpgradeSafe
\* The tunnel is connected again (TunTap), and the upgrade ends (Upgrade).
AppsGoOn ==
  /\ part = "tunnel" => TunnelReconnects
  /\ part = "upgrade" => U!UpgradeEnds
=============================================================================
