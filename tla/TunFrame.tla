------------------------------ MODULE TunFrame ------------------------------
(***************************************************************************)
(* The frames of the network tunnel (app/tuntap/tuntap.cpp): the writer    *)
(* puts a header before each Ethernet packet, the reader finds the packets *)
(* in the bytes of the socket, one byte at a time.  Bytes in flight are    *)
(* lost when one of the two ends of the tunnel reconnects (module TunTap); *)
(* the reader starts anew when it is its own end.                          *)
(*                                                                         *)
(* A header has three sync bytes instead of five, one byte of length and   *)
(* one for the rest; its checksum is never looked at.  A byte carries the  *)
(* number of its packet and its place in it, which only the properties     *)
(* see.  A length of 0 has the reader write past the end of its buffer,    *)
(* until it starts anew; here it writes on.                                *)
(***************************************************************************)
EXTENDS Integers, Sequences, SequencesExt

CONSTANTS
  Cap,        \* BBCOM_RX_BUF_SIZE
  Packets,    \* what the TAP device gives: sequences of bytes
  MaxFrames,  \* bound: packets
  MaxLosses   \* bound: how often bytes are lost

VARIABLES
  wire,       \* bytes written and not read
  sent,       \* packets sent
  rx,         \* network_BB_ComRxFIFO
  out,        \* history: packets given to the TAP device
  since, losses, \* history: bytes read since the last loss, and how many losses
  owed,       \* history: packets that had to be given to the device
  odd         \* history: of what was sent and read, what may mislead the reader

vars == <<wire, sent, rx, out, since, losses, owed, odd>>

header == <<8, 9, 8>>
HEADER_SYNC_SIZE == Len(header)
PACKET_HEADER_SIZE == HEADER_SYNC_SIZE + 2
Far == 2 * PACKET_HEADER_SIZE + 2 * Cap   \* no loss matters any more

\* close_bb_connection clears the state of the reader.
Fresh == [rx_state |-> "HEADER", header_buf |-> << >>, data_length |-> 0, find_header |-> FALSE,
          receiving_data |-> FALSE, data |-> << >>]

Init ==
  /\ wire = << >> /\ sent = 0 /\ out = << >> /\ since = Far /\ losses = 0 /\ owed = {} /\ odd = {}
  /\ rx = Fresh

\* tun_2_bb_thread.
Frame(p) == header \o <<Len(p), 0>> \o p

Cell(p, i) == [v |-> Frame(p)[i], f |-> sent + 1, k |-> i - PACKET_HEADER_SIZE, n |-> Len(p)]

\* A packet that holds sync bytes, also one that is too long to be taken.
Oddities(p) == IF ToSet(p) \cap ToSet(header) = {} THEN {}
               ELSE IF Len(p) > Cap THEN {"sync", "long"} ELSE {"sync"}

Send ==
  /\ sent < MaxFrames /\ Len(wire) <= PACKET_HEADER_SIZE /\ sent' = sent + 1
  /\ \E p \in Packets :
       /\ wire' = wire \o [i \in 1 .. Len(Frame(p)) |-> Cell(p, i)]
       /\ odd' = odd \cup Oddities(p)
  /\ UNCHANGED <<rx, out, since, losses, owed>>

Lose ==
  /\ losses < MaxLosses /\ losses' = losses + 1 /\ since' = 0
  /\ \E k \in 1 .. Len(wire) : wire' = SubSeq(wire, k + 1, Len(wire))
  /\ rx' \in {rx, Fresh}
  /\ UNCHANGED <<sent, out, owed, odd>>

-----------------------------------------------------------------------------
(* Network_ComFindHeader, for a byte c.                                    *)
\* A byte that does not fit may be the first of a header.
FindSync(h, c) ==
  LET b == Append(h.header_buf, c) IN
  IF \E i \in 1 .. Len(b) : b[i] # header[i] THEN [h EXCEPT !.header_buf = <<c>>]
  ELSE [h EXCEPT !.header_buf = b, !.rx_state = IF Len(b) = HEADER_SYNC_SIZE THEN "LENGTH" ELSE @]

\* Slip: any length is taken.
FindRestAny(h, c) ==
  LET b == Append(h.header_buf, c) IN
  IF Len(b) < PACKET_HEADER_SIZE THEN [h EXCEPT !.header_buf = b]
  ELSE [h EXCEPT !.header_buf = << >>, !.rx_state = "HEADER",
                 !.data_length = b[HEADER_SYNC_SIZE + 1],
                 !.find_header = TRUE]

\* A packet that is too long for the buffer is skipped.
FindRest(h, c) ==
  LET b == Append(h.header_buf, c) IN
  IF Len(b) < PACKET_HEADER_SIZE THEN [h EXCEPT !.header_buf = b]
  ELSE [h EXCEPT !.header_buf = << >>, !.rx_state = "HEADER",
                 !.data_length = b[HEADER_SYNC_SIZE + 1],
                 !.find_header = b[HEADER_SYNC_SIZE + 1] <= Cap]

FindHeader(h, c) == IF h.rx_state = "HEADER" THEN FindSync(h, c) ELSE FindRest(h, c)

(* BB_ComPacketDataAnalyze, for a byte.                                    *)
\* The last byte of the header starts the packet.
Collect(h, cell) ==
  IF ~ h.receiving_data THEN [h EXCEPT !.receiving_data = TRUE, !.data = << >>]
                        ELSE [h EXCEPT !.data = Append(@, cell)]

Whole(h) == h.receiving_data /\ Len(h.data) > 0 /\ Len(h.data) = h.data_length

\* No number of bytes is the end of the packet.
Endless(h) == h.find_header /\ h.data_length = 0

Taken(cell) ==
  LET h == IF rx.find_header THEN rx ELSE FindHeader(rx, cell.v)
  IN IF h.find_header /\ h.data_length <= Cap THEN Collect(h, cell) ELSE h

Analyze ==
  LET cell == Head(wire)
      h == Taken(cell)
      passed == IF since < Far THEN since + 1 ELSE since
      due == cell.k = cell.n /\ cell.n <= Cap
               /\ passed >= 2 * (PACKET_HEADER_SIZE + Cap) - (Cap - cell.n)
  IN
  /\ wire # << >> /\ wire' = Tail(wire)
  /\ rx' = IF Whole(h)
             THEN [h EXCEPT !.find_header = FALSE, !.receiving_data = FALSE, !.data = << >>]
             ELSE h
  /\ out' = IF Whole(h) THEN Append(out, h.data) ELSE out
  /\ since' = passed /\ owed' = IF due THEN owed \cup {cell.f} ELSE owed
  /\ odd' = IF Endless(h) THEN odd \cup {"zero"} ELSE odd
  /\ UNCHANGED <<sent, losses>>

Next == Send \/ Lose \/ Analyze
FrameSpec == Init /\ [][Next]_vars
-----------------------------------------------------------------------------
Intact(p) == Len(p) = p[1].n /\ \A i \in 1 .. Len(p) : p[i].f = p[1].f /\ p[i].k = i

(* The packets that are whole come in order.  As long as nothing was lost, *)
(* whatever packets hold, every one that is small enough is given to the   *)
(* TAP device as it was sent, unless one that is too long holds sync       *)
(* bytes.  After a loss that is so again soon if no packet holds sync      *)
(* bytes, and one packet nobody sent is made of it at most.  The buffer    *)
(* never overflows, and the reader gets over every loss, unless it has     *)
(* read a length of 0, for which something must have been lost or the      *)
(* bytes of a packet must have been read as a header.                      *)
TunnelFrames ==
  /\ "zero" \in odd => losses > 0 \/ "long" \in odd
  /\ Len(rx.data) < Cap \/ "zero" \in odd
  /\ \A i, j \in 1 .. Len(out) :
       i < j /\ Intact(out[i]) /\ Intact(out[j]) => out[i][1].f < out[j][1].f
  /\ losses = 0 /\ "long" \notin odd => \A i \in 1 .. Len(out) : Intact(out[i])
  /\ odd = {} \/ (losses = 0 /\ odd = {"sync"}) =>
       \A f \in owed : \E i \in 1 .. Len(out) : Intact(out[i]) /\ out[i][1].f = f
  /\ odd = {} /\ losses = 1 =>
       \A i, j \in 1 .. Len(out) : ~ Intact(out[i]) /\ ~ Intact(out[j]) => i = j
=============================================================================
