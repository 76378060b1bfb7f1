------------------------------ MODULE UartPkt -------------------------------
(***************************************************************************)
(* How the daemon finds the frames of a device on a serial line            *)
(* (daemon/dev8030/uart8030/uart_pkt.c, uart_data_process, uart_data_get   *)
(* and uart_ev_loop of uart_dev.c): each read appends what came to a ring, *)
(* and uart_find_packet is then called until it has looked at everything.  *)
(*                                                                         *)
(* Cells stand for bytes.  A header is the magic, one cell for data_len    *)
(* and one for check_sum; its other fields are left out.  Cells are        *)
(* numbers below Mod, and so are the check sums.  One thread does all      *)
(* this, so a call of uart_find_packet and the ringbuffer_out that follows *)
(* are one step.  The line and what is sent on it are external.            *)
(***************************************************************************)
EXTENDS Integers, SequencesExt

CONSTANTS
  Magic,               \* frame_sync_head
  Size,                \* rb->size
  MaxPayload,          \* MSG_CMD_LENGTH_MAX
  Mod,                 \* cells are numbers below this one
  Junks,               \* what may come before the first frame
  Payloads, Frames,    \* what is sent, and how often
  Noise                \* what one cell of the line may turn into

H == Len(Magic) + 2    \* MSG_HEADER_SIZE
M == Len(Magic)        \* FRAME_SYNC_HEAD_LEN
(* Magic is a sequence of cells, payloads have 1 .. MaxPayload cells, and  *)
(* Size > H + MaxPayload.                                                  *)

VARIABLES
  junk, sent,          \* what the device sends
  line, came,          \* what comes out of the line, and how much of it came
  rb,                  \* the ring
  analyze_offset, new_pkt_offset, new_hdr_found,
  pc,                  \* "read": the next read; "find": process_done is not set
  search,              \* "on": the device is being looked for; "left": its first
                       \* packet just ended that; "off": uart_ev_loop reads
  out                  \* the packets handed over, header included

sending == <<junk, sent, line>>
vars == <<sending, came, rb, analyze_offset, new_pkt_offset, new_hdr_found, pc, search, out>>

CheckSum(data) == FoldSeq(LAMBDA c, sum : c + sum, 0, data) % Mod

\* uart_write and uart_add_sync_head
Packet(payload) == Magic \o <<Len(payload), CheckSum(payload)>> \o payload
Clean == junk \o FlattenSeq([i \in 1 .. Frames |-> Packet(sent[i])])

\* Nothing has been read yet.
Quiet ==
  /\ came = 0
  /\ rb = [buffer |-> [i \in 0 .. Size - 1 |-> 0], read |-> 0, write |-> 0, data_len |-> 0]
  /\ analyze_offset = 0 /\ new_pkt_offset = 0 /\ new_hdr_found = FALSE
  /\ pc = "read" /\ search = "on" /\ out = <<>>

Init ==
  /\ junk \in Junks /\ sent \in [1 .. Frames -> Payloads]
  /\ \/ line = Clean
     \/ \E i \in DOMAIN Clean, c \in Noise : line = [Clean EXCEPT ![i] = c]
  /\ Quiet

-----------------------------------------------------------------------------
(* Positions in the ring: RB_POS_MOV, RINGBUFFER_DISTANCE.                 *)
Mov(pos, n) == (pos + n) % Size
Distance(a, b) == (b + Size - a) % Size
Slice(pos, n) == [i \in 1 .. n |-> rb.buffer[Mov(pos, i - 1)]]

\* How much uart_ev_loop reads at most: up to the end of the array, not all.
Room ==
  IF Mov(rb.write, 1) = rb.read THEN 0
  ELSE IF rb.read > rb.write THEN rb.read - rb.write - 1
  ELSE IF rb.read = 0 THEN Size - rb.write - 1
  ELSE Size - rb.write

Read ==
  /\ pc = "read"
  /\ \E n \in 1 .. Room :
       /\ came + n <= Len(line)
       /\ came' = came + n
       /\ rb' = [rb EXCEPT !.write = Mov(@, n), !.data_len = @ + n,
                           !.buffer = [i \in 0 .. Size - 1 |->
                             IF i - rb.write \in 0 .. n - 1 THEN line[came + 1 + i - rb.write]
                             ELSE rb.buffer[i]]]
  /\ pc' = "find" /\ search' = IF search = "left" THEN "off" ELSE search
  /\ UNCHANGED <<sending, analyze_offset, new_pkt_offset, new_hdr_found, out>>

-----------------------------------------------------------------------------
(* uart_find_packet: one action per way through it.                        *)
Leave == Distance(analyze_offset, rb.write)               \* fifo_leave_size
FrameLen == rb.buffer[Mov(new_pkt_offset, M)]
ValidSum ==
  CheckSum(Slice(Mov(new_pkt_offset, H), FrameLen)) = rb.buffer[Mov(new_pkt_offset, M + 1)]

\* uart_find_sync_head: where the magic is found.
Hits(from, len) == {i \in 0 .. len - M : Slice(Mov(from, i), M) = Magic}

\* Slip: without it everything is skipped.
SkipAll(from, len) ==
  IF Hits(from, len) = {} THEN len
  ELSE CHOOSE i \in Hits(from, len) : \A j \in Hits(from, len) : i <= j

\* Without a magic all but M - 1 cells are skipped, and the analysis ends.
Skip(from, len) ==
  IF Hits(from, len) = {} THEN len - (M - 1)
  ELSE CHOOSE i \in Hits(from, len) : \A j \in Hits(from, len) : i <= j

\* ringbuffer_out, from the read index, wherever the packet was found.
Taken(n) == IF n > rb.data_len THEN rb.data_len ELSE n
\* Slip: the read index does not wrap.
RingOutNoWrap(n) == rb' = [rb EXCEPT !.read = @ + Taken(n), !.data_len = @ - Taken(n)]

RingOut(n) == rb' = [rb EXCEPT !.read = Mov(@, Taken(n)), !.data_len = @ - Taken(n)]

\* Slip: process_done is not set.
StopGoesOn(analyzed) ==
  /\ analyze_offset' = Mov(analyze_offset, analyzed)
  /\ pc' = "find" /\ UNCHANGED <<new_pkt_offset, rb, search, out>>

\* UART_ERROR_PKT_NOT_COMP: the loop ends.
Stop(analyzed) ==
  /\ analyze_offset' = Mov(analyze_offset, analyzed)
  /\ pc' = "read" /\ UNCHANGED <<new_pkt_offset, rb, search, out>>

\* UART_ERROR_PKT_DROP: n cells from the ring, and nobody gets them.
Drop(n, done) ==
  /\ RingOut(n)
  /\ analyze_offset' = Mov(analyze_offset, n) /\ new_pkt_offset' = Mov(new_pkt_offset, n)
  /\ pc' = IF done THEN "read" ELSE "find"
  /\ UNCHANGED <<search, out>>

\* UART_ERROR_NONE: the packet is handed over.  The loop goes on unless the
\* search took the packet, or the data ends with it.
Complete(done) ==
  /\ RingOut(FrameLen + H)
  /\ out' = Append(out, Slice(rb.read, Taken(FrameLen + H)))
  /\ new_pkt_offset' = Mov(new_pkt_offset, FrameLen + H)
  /\ analyze_offset' = new_pkt_offset'
  /\ new_hdr_found' = FALSE
  /\ search' = IF search = "on" THEN "left" ELSE search
  /\ pc' = IF done \/ search = "on" THEN "read" ELSE "find"

AtTheEnd == Mov(new_pkt_offset, FrameLen + H) = rb.write

\* A header was found by an earlier call.
StillIncomplete ==
  /\ pc = "find" /\ new_hdr_found
  /\ Distance(new_pkt_offset, analyze_offset) + Leave < FrameLen + H
  /\ Stop(Leave) /\ UNCHANGED <<sending, came, new_hdr_found>>

CompleteLater ==
  /\ pc = "find" /\ new_hdr_found
  /\ Distance(new_pkt_offset, analyze_offset) + Leave >= FrameLen + H
  /\ Complete(AtTheEnd) /\ UNCHANGED <<sending, came>>

\* Without a header yet.
Looking == pc = "find" /\ ~ new_hdr_found

TooShort ==
  /\ Looking /\ Leave < H
  /\ Stop(0) /\ UNCHANGED <<sending, came, new_hdr_found>>

SkipGap ==
  /\ Looking /\ Leave >= H /\ Skip(analyze_offset, Leave) /= 0
  /\ Drop(Skip(analyze_offset, Leave), Hits(analyze_offset, Leave) = {})
  /\ UNCHANGED <<sending, came, new_hdr_found>>

AtHeader == Looking /\ Leave >= H /\ Skip(analyze_offset, Leave) = 0
ValidLen == FrameLen \in 1 .. MaxPayload /\ FrameLen <= Size

\* A bad length, or a bad sum of a packet that is all there: up to the next magic.
DropMagic ==
  LET from == Mov(analyze_offset, M) IN
  /\ AtHeader /\ (ValidLen => Leave >= H + FrameLen /\ ~ ValidSum)
  /\ Drop(M + Skip(from, Leave - M), Hits(from, Leave - M) = {})
  /\ new_hdr_found' = FALSE
  /\ UNCHANGED <<sending, came>>

HeaderOnly ==
  /\ AtHeader /\ ValidLen /\ Leave < H + FrameLen
  /\ new_hdr_found' = TRUE
  /\ Stop(Leave) /\ UNCHANGED <<sending, came>>

CompleteAtOnce ==
  /\ AtHeader /\ ValidLen /\ Leave >= H + FrameLen /\ ValidSum
  /\ Complete(AtTheEnd) /\ UNCHANGED <<sending, came>>

-----------------------------------------------------------------------------
FindPacket ==
  \/ StillIncomplete \/ CompleteLater
  \/ TooShort \/ SkipGap \/ DropMagic \/ HeaderOnly \/ CompleteAtOnce

Next == Read \/ FindPacket

Spec == Init /\ [][Next]_vars

-----------------------------------------------------------------------------
TypeOK ==
  /\ came \in 0 .. Len(line)
  /\ rb \in [buffer : [0 .. Size - 1 -> 0 .. Mod - 1], read : 0 .. Size - 1,
             write : 0 .. Size - 1, data_len : 0 .. Size]
  /\ analyze_offset \in 0 .. Size - 1 /\ new_pkt_offset \in 0 .. Size - 1
  /\ new_hdr_found \in BOOLEAN
  /\ pc \in {"read", "find"} /\ search \in {"on", "left", "off"}
  /\ \A p \in ToSet(out) : Len(p) \in H + 1 .. H + MaxPayload

(***************************************************************************)
(* The offsets of the analysis, which the ring does not know, and the      *)
(* indices of the ring stay in step: ringbuffer_out takes from the read    *)
(* index what uart_find_packet found at new_pkt_offset.  The ring is never *)
(* full, which RINGBUFFER_DISTANCE would take for empty, and when it is    *)
(* time to read there is room.                                             *)
(***************************************************************************)
OffsetsAgree ==
  /\ new_pkt_offset = rb.read
  /\ Distance(rb.read, rb.write) = rb.data_len
  /\ Distance(rb.read, analyze_offset) <= rb.data_len
  /\ ~ new_hdr_found => analyze_offset = new_pkt_offset
  /\ pc = "read" => Room > 0

(***************************************************************************)
(* When the daemon goes back to reading, what it holds is not yet a        *)
(* packet: too short for a header, or for the packet of the header found.  *)
(* Only the search leaves the rest for the next read.                      *)
(***************************************************************************)
NothingHeldBack ==
  pc = "read" /\ search /= "left" =>
    rb.data_len < IF new_hdr_found THEN H + FrameLen ELSE H

(***************************************************************************)
(* On a line without noise every frame is handed over as it was sent, in   *)
(* order, and by the time the read with its last cell was processed,       *)
(* whatever reads it was cut into and whatever its payload looks like.     *)
(* Before the first frame there may be junk, unless it makes up a magic    *)
(* together with the frame.                                                *)
(***************************************************************************)
Start(i) == Len(junk) + Len(FlattenSeq([j \in 1 .. i - 1 |-> Packet(sent[j])]))
End(i) == Start(i) + H + Len(sent[i])

\* No magic begins before the frame and ends in its own magic.
NoFalseStart(i) ==
  \A c \in Start(i) - (M - 2) .. Start(i) : c > 0 => SubSeq(line, c, c + M - 1) /= Magic

CleanDelivery ==
  line = Clean /\ NoFalseStart(1) =>
    LET arrived == {i \in 1 .. Frames : End(i) <= came} IN
    /\ Len(out) <= Cardinality(arrived)
    /\ pc = "read" /\ search /= "left" => Len(out) = Cardinality(arrived)
    /\ \A i \in DOMAIN out : out[i] = Packet(sent[i])

(***************************************************************************)
(* Noise costs the frames that it hits or that begin in the longest packet *)
(* a header it spoilt could announce.  A later one is handed over, unless  *)
(* its magic seems to begin in the frame before.                           *)
(***************************************************************************)
Spared(i) ==
  /\ NoFalseStart(i)
  /\ \A c \in DOMAIN line : line[c] /= Clean[c] => Start(i) - c > H + MaxPayload

Recovers ==
  pc = "read" /\ search /= "left" =>
    \A i \in 1 .. Frames :
      End(i) <= came /\ Spared(i) => Packet(sent[i]) \in ToSet(out)

(***************************************************************************)
(* "Drop the pkt if checksum is invalid" (uart_pkt.c): no other is handed  *)
(* over.                                                                   *)
(***************************************************************************)
OnlyChecked ==
  \A p \in ToSet(out) : CheckSum(SubSeq(p, H + 1, Len(p))) = p[H]

(***************************************************************************)
(* The loop of uart_data_process ends, so that the line is read again: a   *)
(* turn that does not end it takes cells out of the ring.                  *)
(***************************************************************************)
LoopEnds ==
  [][pc = "find" /\ pc' = "find" => rb'.data_len < rb.data_len]_vars
=============================================================================
