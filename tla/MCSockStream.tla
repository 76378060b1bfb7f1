---------------------------- MODULE MCSockStream ----------------------------
(* Instances of SockStream for TLC: a ring smaller than the stream, a      *)
(* device buffer smaller than two packets, and packets smaller than the    *)
(* ring, so that rings and device fill up and "pending" replies overtake   *)
(* frames already on their way.                                            *)
EXTENDS SockStream

MCByte == {0, 1}
MCChunks == {<<0>>, <<1, 0, 1>>}
MCLimits == {0, 2}
MCLinks == {"usb", "uart"}
=============================================================================
