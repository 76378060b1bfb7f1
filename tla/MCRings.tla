------------------------------ MODULE MCRings ------------------------------
(***************************************************************************)
(* Part "ring": RingBuffer with a ring of three bytes, so that chunks      *)
(* wrap, fill and overflow it.  Part "frames": UartPkt, whose ring the     *)
(* serial line fills, with three frames on a line that may change one cell *)
(* or begin with junk.  Like the real one, the magic begins as it ends,    *)
(* and its second cell is no valid length.  Part "packs": UsbPack, with    *)
(* three packs whose payloads may look like their ends.  The parts that    *)
(* are not run keep a first state.                                         *)
(***************************************************************************)
EXTENDS RingBuffer

MCSize == 3
MCChunks == {<<>>, <<0>>, <<1>>, <<1, 0>>, <<0, 1, 1>>, <<1, 0, 0, 1>>}
MCLimits == {0, 1, 2, 5}
MCCounts == 0 .. 4

CONSTANTS LineSize, MaxPayload, Mod, Frames, Noise
Magic == <<5, 4, 5>>
Payloads == {<<1>>, <<5, 4>>}
Junks == {<<>>, <<2, 5, 4>>, <<4, 5, 0, 1, 5, 5>>}

CONSTANTS HeadByte, TailByte, Modulus, BufSz, Spare, MaxPacks
Contents == {<<1>>, <<HeadByte, 0>>, <<TailByte, 1>>}

VARIABLES part, junk, sent, line, came, rb, analyze_offset, new_pkt_offset, new_hdr_found,
          pc, search, out,
          reader, packs, stream, written, rxbuf, at, given, cut
frameVars == <<junk, sent, line, came, rb, analyze_offset, new_pkt_offset, new_hdr_found,
               pc, search, out>>

packVars == <<reader, packs, stream, written, rxbuf, at, given, cut>>

F == INSTANCE UartPkt WITH Size <- LineSize
K == INSTANCE UsbPack
ASSUME MagicAssumption == Magic \in Seq(0 .. Mod - 1) /\ Len(Magic) > 0
ASSUME LineAssumption == MaxPayload \in Nat /\ LineSize \in Nat /\ LineSize > F!H + MaxPayload
ASSUME SentAssumption == /\ \A p \in Payloads : Len(p) \in 1 .. MaxPayload
                         /\ Frames \in Nat /\ MaxPayload < Mod

NoRing ==
  /\ buffer = [i \in 0 .. Size - 1 |-> 0] /\ read = 0 /\ write = 0 /\ data_len = 0
  /\ last = Call("reset", <<>>, 0, 0, <<>>)
NoFrames == junk = <<>> /\ sent = [i \in 1 .. Frames |-> <<1>>] /\ line = <<>> /\ F!Quiet
NoPacks == K!PackInit /\ reader = "client"

PartsInit ==
  \/ part = "ring" /\ Init /\ NoFrames /\ NoPacks
  \/ part = "frames" /\ F!Init /\ NoRing /\ NoPacks
  \/ part = "packs" /\ K!PackInit /\ NoRing /\ NoFrames

PartsNext ==
  \/ part = "ring" /\ Next /\ UNCHANGED <<part, frameVars, packVars>>
  \/ part = "frames" /\ F!Next /\ UNCHANGED <<part, ringVars, packVars>>
  \/ part = "packs" /\ K!PackNext /\ UNCHANGED <<part, ringVars, frameVars>>

PartsSpec == PartsInit /\ [][PartsNext]_<<part, ringVars, frameVars, packVars>>

(* The offsets of the serial line agree with its ring, frames are handed   *)
(* over as sent and at once, and noise costs only the frames it reaches    *)
(* (OffsetsAgree, NothingHeldBack, CleanDelivery and Recovers of UartPkt,  *)
(* with its types).                                                        *)
FramesSafe ==
  /\ F!TypeOK /\ F!OffsetsAgree
  /\ part = "frames" => F!NothingHeldBack /\ F!CleanDelivery /\ F!Recovers
(* OnlyChecked of module UartPkt.                                          *)
OnlyChecked == F!OnlyChecked
(* PacksArrive of module UsbPack.                                          *)
PacksArrive == K!PacksArrive
(* LoopEnds of module UartPkt.                                             *)
LoopEnds == F!LoopEnds
=============================================================================
