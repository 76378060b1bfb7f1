------------------------------ MODULE UsbPack ------------------------------
(***************************************************************************)
(* Packs in a stream of bytes (com/usbpack.c and, for the datagrams of a   *)
(* client, session_socket_datagram_ext.c), and the four places that look   *)
(* for them more than once in what they read: the read thread of a client, *)
(* a socket in the daemon, the receive thread of a USB device, and         *)
(* bb_socket_read of a datagram socket.  Each keeps what is left in a way  *)
(* of its own.  What a datagram socket has not read is a ring (RingBuffer).*)
(*                                                                         *)
(* Cells stand for bytes.  A head is a magic cell, one for datalen, one    *)
(* for reqid, msgid and sta, and one for the xor; a cell knows its place   *)
(* in the stream, for the properties.  Left out: payloads that contain a   *)
(* whole pack, which is taken for one while the pack around it is not      *)
(* complete; a datagram cut off behind a head byte of its own; datagrams of *)
(* no bytes, after which bb_socket_read sleeps.                            *)
(***************************************************************************)
EXTENDS Integers, SequencesExt

CONSTANTS
  HeadByte, TailByte, \* 0xaa and 0xbb; 0xab and 0xbc
  Modulus,            \* cells are numbers below this one
  Contents,           \* payloads
  BufSz,              \* RX_BUF_SZ, RX_SAVEBUFFER_LEN
  Spare,              \* the 1024 of bb_read_thread
  MaxPacks            \* bound: packs

VARIABLES
  reader,  \* which of the four
  packs,   \* packs sent: where they begin, and what they say
  stream,  \* cells written and not read
  written, \* cells written
  rxbuf,   \* rd_buff, rx_savebuffer, the transfer, rx_rb
  at,      \* "recv" or "unpack"
  given,   \* packs handed over
  cut      \* the place where a writer gave up, or 0

packVars == <<reader, packs, stream, written, rxbuf, at, given, cut>>

data_offset == IF reader = "datagram" THEN 3 ELSE 4
fixpackbase == data_offset + 1

PackInit ==
  /\ reader \in {"client", "daemon", "device", "datagram"}
  /\ packs = << >> /\ stream = << >> /\ written = 0
  /\ rxbuf = << >> /\ at = "recv" /\ given = << >> /\ cut = 0

-----------------------------------------------------------------------------
(* The sender.                                                             *)
xor_check(fields) == FoldLeft(LAMBDA a, f : a + f, 1, fields) % Modulus
Framed(head, data) == Append(head, xor_check(head)) \o data \o <<TailByte>>

make_usbpack2buff(id, data) == Framed(<<HeadByte, Len(data), id>>, data)
make_datagram_pack2buff(data) == Framed(<<HeadByte, Len(data)>>, data)
Made(id, data) ==
  IF reader = "datagram" THEN make_datagram_pack2buff(data) ELSE make_usbpack2buff(id, data)

Put(cells) ==
  /\ stream' = stream \o [i \in 1 .. Len(cells) |-> [v |-> cells[i], place |-> written + i]]
  /\ written' = written + Len(cells)

SendPack ==
  /\ Len(packs) < MaxPacks
  /\ \E data \in Contents :
       LET id == Len(packs) + 1 IN
       /\ packs' = Append(packs, [first |-> written + 1, data |-> data])
       /\ Put(Made(id, data))
  /\ UNCHANGED <<reader, rxbuf, at, given, cut>>

\* bb_socket_write of a datagram: the time is up, or the daemon takes only a part.
GiveUp ==
  /\ reader = "datagram" /\ cut = 0 /\ cut' = written + 1
  /\ \E data \in {d \in Contents : ~ Contains(d, HeadByte)} : \E n \in 1 .. fixpackbase + Len(data) - 1 :
       Put(SubSeq(make_datagram_pack2buff(data), 1, n))
  /\ UNCHANGED <<reader, packs, rxbuf, at, given>>

-----------------------------------------------------------------------------
(* Where in b the first whole pack is, and what it says.                   *)
Cells(b, from, to) == [i \in 1 .. to - from + 1 |-> b[from + i - 1].v]
Total(b, o) == fixpackbase + b[o + 1].v
unpack_usb_pack(b, o) ==
  /\ b[o].v = HeadByte /\ o + Total(b, o) - 1 <= Len(b)
  /\ b[o + Total(b, o) - 1].v = TailByte
  /\ xor_check(Cells(b, o, o + 2)) = b[o + 3].v
unpack_datagram_pack(b, o) ==
  /\ b[o].v = HeadByte /\ o + Total(b, o) - 1 <= Len(b)
  /\ b[o + Total(b, o) - 1].v = TailByte
  /\ xor_check(Cells(b, o, o + 1)) = b[o + 2].v

Places(b) ==
  {o \in 1 .. Len(b) - fixpackbase + 1 :
     IF reader = "datagram" THEN unpack_datagram_pack(b, o) ELSE unpack_usb_pack(b, o)}
FirstPack(b) == Min(Places(b))
UsedLen(b) == FirstPack(b) + Total(b, FirstPack(b)) - 1
Unpacked(b) ==
  [place |-> b[FirstPack(b)].place, data |-> Cells(b, FirstPack(b) + data_offset, UsedLen(b) - 1)]
Dropped(b, n) == SubSeq(b, n + 1, Len(b))

-----------------------------------------------------------------------------
(* The readers.                                                            *)
\* rpc_socket_read: what is too much goes, from the oldest on.
Append2(b, cells) ==
  IF Len(b) + Len(cells) > BufSz THEN Dropped(b, Len(b) + Len(cells) - BufSz) \o cells ELSE b \o cells

\* recv, or a transfer; a transfer holds whole packs.
RoomFor ==
  IF reader = "daemon" THEN BufSz \div 2 ELSE IF reader = "device" THEN written ELSE BufSz - Len(rxbuf)
EndsPack(cells) ==
  \E i \in 1 .. Len(packs) :
    cells[Len(cells)].place = packs[i].first + fixpackbase + Len(packs[i].data) - 1

Receive ==
  /\ at = "recv" \/ reader = "datagram"
  /\ \E n \in 1 .. RoomFor :
       /\ n <= Len(stream)
       /\ LET cells == SubSeq(stream, 1, n) IN
          /\ reader = "device" => EndsPack(cells)
          /\ rxbuf' = IF reader = "daemon" THEN Append2(rxbuf, cells) ELSE rxbuf \o cells
       /\ stream' = Dropped(stream, n)
  /\ at' = "unpack" /\ UNCHANGED <<reader, packs, written, given, cut>>

\* rdcb, rpc_socket_read_proc, check_recv_pack, or the end of datagram_get_data.
Give ==
  /\ at = "unpack" /\ Places(rxbuf) # {}
  /\ given' = Append(given, Unpacked(rxbuf)) /\ rxbuf' = Dropped(rxbuf, UsedLen(rxbuf))
  /\ UNCHANGED <<reader, packs, stream, written, at, cut>>

\* Slip: the limit is the half of the buffer that goes.
ClientKeepsHalf ==
  IF Len(rxbuf) >= BufSz \div 2 - Spare THEN SubSeq(rxbuf, 1, Len(rxbuf) - (BufSz \div 2 - Spare)) ELSE rxbuf

\* bb_read_thread: of too much, the newer half goes.
ClientKeeps ==
  IF Len(rxbuf) > BufSz - Spare THEN SubSeq(rxbuf, 1, Len(rxbuf) - BufSz \div 2) ELSE rxbuf

NoMore ==
  /\ at = "unpack" /\ Places(rxbuf) = {} /\ at' = "recv"
  /\ rxbuf' = CASE reader = "client" -> ClientKeeps
                [] reader = "device" -> << >>
                [] OTHER -> rxbuf
  /\ UNCHANGED <<reader, packs, stream, written, given, cut>>

PackNext == SendPack \/ GiveUp \/ Receive \/ Give \/ NoMore
-----------------------------------------------------------------------------
LastOf(p) == p.first + fixpackbase + Len(p.data) - 1
Came(p) == LastOf(p) <= written - Len(stream)
GivenAs(g, p) == g.place = p.first /\ g.data = p.data
Longest == Max({Len(d) : d \in Contents})
(* In the reach of a pack of which only the beginning was written.         *)
Reached(p) == cut # 0 /\ p.first > cut /\ p.first < cut + fixpackbase + Longest

(* Whatever pieces the packs come in, each is handed over as it was sent,  *)
(* once and in order, as soon as its last byte is looked at.  A datagram   *)
(* that was written in part makes at most one wrong datagram, and costs    *)
(* only those in its reach.  No buffer overflows while packs are no longer *)
(* than half of it.                                                        *)
PacksArrive ==
  /\ Len(rxbuf) <= BufSz \/ reader = "device"
  /\ at = "recv" => \A i \in 1 .. Len(packs) :
       Came(packs[i]) /\ ~ Reached(packs[i]) =>
         \E j \in 1 .. Len(given) : GivenAs(given[j], packs[i])
  /\ \A i, j \in 1 .. Len(given) : i < j => given[i].place < given[j].place
  /\ \A j \in 1 .. Len(given) :
       \/ \E i \in 1 .. Len(packs) : GivenAs(given[j], packs[i])
       \/ cut # 0 /\ given[j].place = cut
=============================================================================
