---------------------------- MODULE SockStream ----------------------------
(***************************************************************************)
(* The transmit direction of one opened baseband socket in the daemon:     *)
(* daemon/sock_node.c with the so_write part of daemon/sock_node_rpc.c.    *)
(*                                                                         *)
(* Three threads and a device share the socket node:                       *)
(*   - the rpc thread of the application's connection stores what it gets  *)
(*     in the ring buf_dev and notes where each write ends;                *)
(*   - the send thread of the device node looks at the node without its    *)
(*     lock, then, under the lock, makes a packet from the ring;           *)
(*   - the receive thread handles the device's replies;                    *)
(*   - the device (external, modelled from the replies sock_node.c         *)
(*     handles) buffers the bytes it is sent, transmits them by radio and  *)
(*     reports both.                                                       *)
(* Positions are 64-bit in the code and never wrap here.  The ring is the  *)
(* queue of module Fifo.                                                   *)
(***************************************************************************)
EXTENDS Fifo

CONSTANTS
  Byte,                \* the values a byte may take
  Chunks,              \* the payloads of so_write messages
  BufSize,             \* sizeof(psock->_buf_dev)
  MaxPayload,          \* max_payload_len - sizeof(uint64_t)
  Limits,              \* the values so_set_tx_limit may set (0: no limit)
  DevCap,              \* bytes the device buffers for the socket
  Links,               \* the links: "usb", or "uart", which may drop a frame
  MaxStream,           \* bound: bytes accepted in a behaviour
  MaxWrites,           \* bound: writes outstanding at a time
  MaxFlight            \* bound: frames on the way in one direction

\* bb_socket_write (app/ar8030/session_socket.c) never sends an empty payload.
ASSUME ChunksAssumption == Chunks \subseteq Seq(Byte) \ {<<>>}
ASSUME SizesAssumption ==
  /\ BufSize \in Nat \ {0}
  /\ MaxPayload \in Nat \ {0}
  /\ DevCap \in Nat \ {0}
  /\ Limits \subseteq Nat
ASSUME BoundsAssumption ==
  /\ MaxStream \in Nat
  /\ MaxWrites \in Nat
  /\ MaxFlight \in Nat
ASSUME LinksAssumption == Links \subseteq {"usb", "uart"}

VARIABLES
  sock_sta,            \* "can_send_data" or "wait_usb_data"
  buf_dev,             \* ring of bytes not yet acknowledged, oldest first
  buf_dev_limit,       \* fill limit set by the application
  buf_head_index,      \* stream position of the oldest byte of buf_dev
  buf_wr_index,        \* stream position of the next byte to send
  sock_wr_list,        \* the writes not yet reported complete
  wr_cur_ptr,          \* stream position after the last write
  link,                \* the link of this behaviour; never changes
  sendpc,              \* the send thread: "scan", or "make" after need_write
  toDev, fromDev,      \* frames on their way to and from the device
  devRcv,              \* every byte the device accepted
  devSent,             \* how many of them it has transmitted
  accepted             \* history: every byte the ring took from the application

ringVars == <<buf_dev, buf_head_index, accepted>>
writeVars == <<sock_wr_list, wr_cur_ptr>>
devVars == <<devRcv, devSent>>
vars == <<sock_sta, buf_dev_limit, link, buf_wr_index, ringVars, writeVars,
          sendpc, toDev, fromDev, devVars>>

SockSta == {"can_send_data", "wait_usb_data"}
Write == [wr_init : Nat, wr_max : Nat]
Frame == [pos : Nat, data : Seq(Byte)]
Reply == [kind : {"ack"}, pos : Nat, sta : Nat]
           \cup [kind : {"ok", "pending", "poserr"}, pos : Nat]

Init ==
  /\ sock_sta = "can_send_data"
  /\ buf_dev = <<>> /\ buf_dev_limit = 0
  /\ link \in Links
  /\ buf_head_index = 0 /\ buf_wr_index = 0
  /\ sock_wr_list = <<>> /\ wr_cur_ptr = 0
  /\ sendpc = "scan"
  /\ toDev = <<>> /\ fromDev = <<>>
  /\ devRcv = <<>> /\ devSent = 0
  /\ accepted = <<>>

-----------------------------------------------------------------------------
(* The rpc thread.                                                         *)

(* so_write: store what the ring and the limit allow, remember where this  *)
(* write ends even when nothing was stored, and let the send thread go.    *)
PushData(data) ==
  LET n == Taken(buf_dev, BufSize, Len(data), buf_dev_limit) IN
  /\ Len(accepted) + Len(data) <= MaxStream
  /\ Len(sock_wr_list) < MaxWrites
  /\ buf_dev' = Pushed(buf_dev, data, n)
  /\ accepted' = Pushed(accepted, data, n)
  /\ sock_wr_list' = Append(sock_wr_list,
                            [wr_init |-> wr_cur_ptr, wr_max |-> wr_cur_ptr + n])
  /\ wr_cur_ptr' = wr_cur_ptr + n
  /\ sock_sta' = "can_send_data"
  /\ UNCHANGED <<buf_dev_limit, link, buf_head_index, buf_wr_index, sendpc,
                 toDev, fromDev, devVars>>

SetTxLimit(limit) ==
  /\ buf_dev_limit' = limit
  /\ UNCHANGED <<sock_sta, link, buf_wr_index, ringVars, writeVars, sendpc,
                 toDev, fromDev, devVars>>

-----------------------------------------------------------------------------
(* The send thread.                                                        *)

\* What the ring holds from the write position on, at most len bytes.
Unsent(len) == Peeked(buf_dev, buf_wr_index - buf_head_index, len)

NeedWrite ==
  /\ sendpc = "scan"
  /\ sock_sta = "can_send_data"
  /\ Unsent(1) /= <<>>
  /\ sendpc' = "make"
  /\ UNCHANGED <<sock_sta, buf_dev_limit, link, buf_wr_index, ringVars,
                 writeVars, toDev, fromDev, devVars>>

\* Slip: the ring is read at the stream position, not relative to its head.
PackMakeFromPosition ==
  LET data == Peeked(buf_dev, buf_wr_index, MaxPayload) IN
  /\ sendpc = "make" /\ Len(toDev) < MaxFlight
  /\ IF data = <<>>
       THEN sock_sta' = "wait_usb_data" /\ sendpc' = "scan" /\ UNCHANGED <<buf_wr_index, toDev>>
       ELSE /\ toDev' = Append(toDev, [pos |-> buf_wr_index, data |-> data])
            /\ buf_wr_index' = buf_wr_index + Len(data)
            /\ UNCHANGED <<sock_sta, sendpc>>
  /\ UNCHANGED <<buf_dev_limit, link, ringVars, writeVars, fromDev, devVars>>

(* The packet is made from the state now, not the one NeedWrite saw: the   *)
(* receive thread may have moved either position in between.  The thread   *)
(* makes packets of this node until there is none to make.                 *)
PackMake ==
  LET data == Unsent(MaxPayload) IN
  /\ sendpc = "make" /\ Len(toDev) < MaxFlight
  /\ \/ /\ sock_sta = "can_send_data" /\ data /= <<>>
        /\ toDev' = Append(toDev, [pos |-> buf_wr_index, data |-> data])
        /\ buf_wr_index' = buf_wr_index + Len(data)
        /\ UNCHANGED <<sock_sta, sendpc>>
     \/ /\ sock_sta = "wait_usb_data" \/ data = <<>>
        /\ sock_sta' = "wait_usb_data"
        /\ sendpc' = "scan"
        /\ UNCHANGED <<buf_wr_index, toDev>>
  /\ UNCHANGED <<buf_dev_limit, link, ringVars, writeVars, fromDev, devVars>>

-----------------------------------------------------------------------------
(* The receive thread.                                                     *)

\* Slip: a write is complete when it was sent, not when it was acknowledged.
CompletedWhenSent(k, head) ==
  /\ \A i \in 1 .. k : sock_wr_list[i].wr_max <= buf_wr_index
  /\ k < Len(sock_wr_list) => buf_wr_index < sock_wr_list[k + 1].wr_max

(* check_send_cpl_ptr: with the acknowledged position at `head`, exactly   *)
(* the first k outstanding writes are complete.                            *)
CompletedWrites(k, head) ==
  /\ \A i \in 1 .. k : sock_wr_list[i].wr_max <= head
  /\ k < Len(sock_wr_list) => head < sock_wr_list[k + 1].wr_max

\* Slip: an acknowledgement leaves a waiting node waiting.
RecvAckNoWake ==
  LET end == Head(fromDev).pos + Head(fromDev).sta IN
  /\ fromDev /= <<>> /\ Head(fromDev).kind = "ack"
  /\ fromDev' = Tail(fromDev)
  /\ buf_dev' = Dropped(buf_dev, end - buf_head_index)
  /\ buf_head_index' = end
  /\ \E k \in 0 .. Len(sock_wr_list) :
       /\ CompletedWrites(k, buf_head_index')
       /\ sock_wr_list' = SubSeq(sock_wr_list, k + 1, Len(sock_wr_list))
  /\ UNCHANGED <<sock_sta, accepted, wr_cur_ptr, buf_dev_limit, link,
                 buf_wr_index, sendpc, toDev, devVars>>

(* sta >= 0: the device transmitted `sta` bytes from `pos` on.  A position *)
(* outside what is outstanding is ignored; the completed writes are        *)
(* reported and a node waiting for the device may send again either way.   *)
RecvAck ==
  LET end == Head(fromDev).pos + Head(fromDev).sta IN
  /\ fromDev /= <<>> /\ Head(fromDev).kind = "ack"
  /\ fromDev' = Tail(fromDev)
  /\ IF end < buf_head_index \/ end > buf_wr_index
       THEN UNCHANGED <<buf_dev, buf_head_index>>
       ELSE /\ buf_dev' = Dropped(buf_dev, end - buf_head_index)
            /\ buf_head_index' = end
  /\ \E k \in 0 .. Len(sock_wr_list) :
       /\ CompletedWrites(k, buf_head_index')
       /\ sock_wr_list' = SubSeq(sock_wr_list, k + 1, Len(sock_wr_list))
  /\ sock_sta' = "can_send_data"
  /\ UNCHANGED <<accepted, wr_cur_ptr, buf_dev_limit, link, buf_wr_index,
                 sendpc, toDev, devVars>>

\* Slip: the node goes back to the acknowledged position.
RecvPendingToHead ==
  /\ fromDev /= <<>> /\ Head(fromDev).kind = "pending"
  /\ fromDev' = Tail(fromDev)
  /\ buf_wr_index' = buf_head_index
  /\ sock_sta' = "can_send_data"
  /\ UNCHANGED <<ringVars, writeVars, buf_dev_limit, link, sendpc, toDev,
                 devVars>>

(* -0x107: the device's buffer is full and it took the bytes below `pos`   *)
(* only.  The node goes back to that position and waits for an             *)
(* acknowledgement, unless none is outstanding.                            *)
RecvPending ==
  /\ fromDev /= <<>> /\ Head(fromDev).kind = "pending"
  /\ fromDev' = Tail(fromDev)
  /\ buf_wr_index' = Head(fromDev).pos
  /\ sock_sta' = IF buf_wr_index' = buf_head_index /\ buf_dev /= <<>>
                   THEN "can_send_data" ELSE "wait_usb_data"
  /\ UNCHANGED <<ringVars, writeVars, buf_dev_limit, link, sendpc, toDev,
                 devVars>>

(* -0x106 (taken) and -0x108 (not at the position the device expects) are  *)
(* only logged; the code that resent on -0x108 is compiled out.            *)
RecvLogged ==
  /\ fromDev /= <<>> /\ Head(fromDev).kind \in {"ok", "poserr"}
  /\ fromDev' = Tail(fromDev)
  /\ UNCHANGED <<sock_sta, buf_dev_limit, link, buf_wr_index, ringVars,
                 writeVars, sendpc, toDev, devVars>>

-----------------------------------------------------------------------------
(* The device and the link.                                                *)

Answer(reply) == fromDev' = Append(fromDev, reply)

DevTakes(frame, n) ==
  /\ devRcv' = devRcv \o SubSeq(frame.data, 1, n)
  /\ UNCHANGED devSent

(* The device takes a frame at the position it expects, as much as it has  *)
(* room for when it does not fit, and refuses any other.                   *)
DevReceive ==
  LET frame == Head(toDev)
      room == DevCap - (Len(devRcv) - devSent)
      fits == Len(frame.data) <= room
      next == Len(devRcv)
  IN  /\ toDev /= <<>> /\ Len(fromDev) < MaxFlight
      /\ toDev' = Tail(toDev)
      /\ \/ /\ frame.pos = next /\ fits
            /\ DevTakes(frame, Len(frame.data))
            /\ Answer([kind |-> "ok", pos |-> next])
         \/ /\ frame.pos = next /\ ~ fits
            /\ DevTakes(frame, room)
            /\ Answer([kind |-> "pending", pos |-> next + room])
         \/ /\ frame.pos /= next
            /\ Answer([kind |-> "poserr", pos |-> frame.pos])
            /\ UNCHANGED devVars
      /\ UNCHANGED <<sock_sta, buf_dev_limit, link, buf_wr_index, ringVars,
                     writeVars, sendpc>>

DevTransmit(n) ==
  /\ devSent + n <= Len(devRcv) /\ Len(fromDev) < MaxFlight
  /\ devSent' = devSent + n
  /\ Answer([kind |-> "ack", pos |-> devSent, sta |-> n])
  /\ UNCHANGED <<sock_sta, buf_dev_limit, link, buf_wr_index, ringVars,
                 writeVars, sendpc, toDev, devRcv>>

LoseToDev ==
  /\ link = "uart" /\ toDev /= <<>>
  /\ toDev' = Tail(toDev)
  /\ UNCHANGED <<sock_sta, buf_dev_limit, link, buf_wr_index, ringVars,
                 writeVars, sendpc, fromDev, devVars>>

LoseFromDev ==
  /\ link = "uart" /\ fromDev /= <<>>
  /\ fromDev' = Tail(fromDev)
  /\ UNCHANGED <<sock_sta, buf_dev_limit, link, buf_wr_index, ringVars,
                 writeVars, sendpc, toDev, devVars>>

-----------------------------------------------------------------------------
Recv == RecvAck \/ RecvPending \/ RecvLogged
Transmit == \E n \in 1 .. DevCap : DevTransmit(n)

Next ==
  \/ \E data \in Chunks : PushData(data)
  \/ \E limit \in Limits : SetTxLimit(limit)
  \/ NeedWrite \/ PackMake
  \/ Recv
  \/ DevReceive \/ Transmit
  \/ LoseToDev \/ LoseFromDev

Spec == Init /\ [][Next]_vars

(* The daemon's two device threads and the device keep working; nothing    *)
(* makes the application write or the link lose.                           *)
Fairness ==
  /\ WF_vars(NeedWrite \/ PackMake)
  /\ WF_vars(Recv)
  /\ WF_vars(DevReceive) /\ WF_vars(Transmit)

FairSpec == Spec /\ Fairness

-----------------------------------------------------------------------------
TypeOK ==
  /\ sock_sta \in SockSta
  /\ buf_dev \in Seq(Byte) /\ Len(buf_dev) <= BufSize
  /\ buf_dev_limit \in Nat /\ link \in Links
  /\ buf_head_index \in Nat /\ buf_wr_index \in Nat
  /\ sock_wr_list \in Seq(Write) /\ wr_cur_ptr \in Nat
  /\ sendpc \in {"scan", "make"}
  /\ toDev \in Seq(Frame) /\ fromDev \in Seq(Reply)
  /\ devRcv \in Seq(Byte) /\ devSent \in Nat
  /\ accepted \in Seq(Byte)

(* Everything reported written: the writes before the oldest outstanding.  *)
Completed == IF sock_wr_list = <<>> THEN wr_cur_ptr ELSE sock_wr_list[1].wr_init

\* s is a prefix of t, byte by byte.
Prefix(s, t) ==
  /\ Len(s) <= Len(t)
  /\ \A i \in 1 .. Len(s) : s[i] = t[i]

(***************************************************************************)
(* What the device gets is what the application wrote, in order, with      *)
(* nothing missing, repeated or altered, however rewinding after a         *)
(* "pending" reply interleaves with frames already on their way, with ring *)
(* pops and with new writes, and whether or not frames are lost.           *)
(***************************************************************************)
StreamIntegrity == Prefix(devRcv, accepted)

\* No write is reported before the device has transmitted all of it.
NoEarlyCompletion == Completed <= devSent

(***************************************************************************)
(* Without loss, the window check in the ack path never throws a genuine   *)
(* acknowledgement away: the position the node rewound to on "pending" is  *)
(* never below what the device goes on to acknowledge.                     *)
(***************************************************************************)
AckInWindow ==
  link /= "uart" /\ fromDev /= <<>> /\ Head(fromDev).kind = "ack" =>
    Head(fromDev).pos + Head(fromDev).sta \in buf_head_index .. buf_wr_index

(***************************************************************************)
(* Without loss, every byte the ring took is eventually transmitted and    *)
(* acknowledged: no interleaving leaves the node waiting for a reply that  *)
(* will not come.                                                          *)
(***************************************************************************)
EveryByteAcked ==
  \A n \in 1 .. MaxStream :
    link /= "uart" /\ wr_cur_ptr >= n ~> buf_head_index >= n

\* No write is left unreported once all its bytes are acknowledged.
NoOverdueWrite ==
  \A i \in DOMAIN sock_wr_list : buf_head_index < sock_wr_list[i].wr_max

(***************************************************************************)
(* The application is told that a write is complete when the device has    *)
(* transmitted all of it: not earlier, and, although reports are only made *)
(* while an acknowledgement is handled, not later than its last byte is    *)
(* acknowledged, even if a full ring took nothing of it.                   *)
(***************************************************************************)
CompletedExactly == NoEarlyCompletion /\ NoOverdueWrite

-----------------------------------------------------------------------------
(* The inductive invariant behind these properties.                        *)

\* The ring holds the accepted bytes from the acknowledged position on.
RingInv ==
  /\ Len(accepted) = wr_cur_ptr
  /\ buf_head_index + Len(buf_dev) = wr_cur_ptr
  /\ \A i \in 1 .. Len(buf_dev) : buf_dev[i] = accepted[buf_head_index + i]

\* A frame on its way carries the accepted bytes of its position.
FrameInv ==
  \A f \in 1 .. Len(toDev) :
    /\ toDev[f].pos + Len(toDev[f].data) <= Len(accepted)
    /\ \A i \in 1 .. Len(toDev[f].data) :
         toDev[f].data[i] = accepted[toDev[f].pos + i]

\* Only transmitted bytes are acknowledged; the device holds no more than fits.
AckInv ==
  /\ buf_head_index <= devSent /\ devSent <= Len(devRcv)
  /\ Len(devRcv) - devSent <= DevCap
  /\ \A r \in 1 .. Len(fromDev) :
       fromDev[r].kind = "ack" => fromDev[r].pos + fromDev[r].sta <= devSent

(* The outstanding writes tile the stream from a position at or below the  *)
(* acknowledged one up to its end.                                         *)
WriteInv ==
  /\ Completed <= buf_head_index
  /\ \A i \in 1 .. Len(sock_wr_list) : sock_wr_list[i].wr_init <= sock_wr_list[i].wr_max
  /\ \A i \in 1 .. Len(sock_wr_list) - 1 :
       sock_wr_list[i + 1].wr_init = sock_wr_list[i].wr_max
  /\ \A i, j \in 1 .. Len(sock_wr_list) :
       i < j => sock_wr_list[i].wr_max <= sock_wr_list[j].wr_init
  /\ sock_wr_list /= <<>> => sock_wr_list[Len(sock_wr_list)].wr_max = wr_cur_ptr

(* Everything stated above that the steps preserve together.               *)
IInv ==
  /\ TypeOK /\ StreamIntegrity /\ NoOverdueWrite
  /\ RingInv /\ FrameInv /\ AckInv /\ WriteInv

\* Acknowledgements come in the order of the bytes, the oldest of them at or
\* above the acknowledged position.
AckOrder ==
  \A i \in 1 .. Len(fromDev) : fromDev[i].kind = "ack" =>
    /\ buf_head_index <= fromDev[i].pos + fromDev[i].sta
    /\ \A j \in i .. Len(fromDev) : fromDev[j].kind = "ack" =>
         fromDev[i].pos + fromDev[i].sta <= fromDev[j].pos + fromDev[j].sta

\* Frame f is the one the device waits for: with those behind it, it brings
\* the bytes from there up to the write position.
Live(f) ==
  /\ \A i \in f .. Len(toDev) :
       /\ toDev[i].pos + Len(toDev[i].data) <= buf_wr_index
       /\ \A j \in i + 1 .. Len(toDev) : toDev[i].pos + Len(toDev[i].data) <= toDev[j].pos
       /\ i < Len(toDev) => toDev[i + 1].pos = toDev[i].pos + Len(toDev[i].data)
       /\ i = Len(toDev) => buf_wr_index = toDev[i].pos + Len(toDev[i].data)

\* While the device's "pending" is on its way, every frame is one it will
\* refuse; otherwise those it will refuse come first, and then what it waits for.
FlightInv ==
  LET next == Len(devRcv) IN
  /\ next <= buf_wr_index
  /\ \A f \in 1 .. Len(toDev) : toDev[f].pos >= next /\ toDev[f].data /= <<>>
  /\ \A r \in 1 .. Len(fromDev) : fromDev[r].kind = "pending" =>
       /\ fromDev[r].pos = next /\ next < buf_wr_index
       /\ \A f \in 1 .. Len(toDev) : toDev[f].pos > next
       /\ \A q \in 1 .. Len(fromDev) : fromDev[q].kind = "pending" => q = r
  /\ (\A r \in 1 .. Len(fromDev) : fromDev[r].kind /= "pending") =>
       /\ buf_wr_index = next \/ \E f \in 1 .. Len(toDev) : toDev[f].pos = next
       /\ \A f \in 1 .. Len(toDev) : toDev[f].pos = next => Live(f)

\* What no reply and no frame is lost for.
WindowInv == AckOrder /\ (link /= "uart" => FlightInv)

(* The daemon implements the byte stream.                                  *)
Stream == INSTANCE ByteStream WITH delivered <- devRcv, confirmed <- Completed
IsByteStream == Stream!Spec
=============================================================================
