-------------------------------- MODULE Fifo --------------------------------
(***************************************************************************)
(* What the calls of com/ringbuffer.c and com/ringbuffer_ext.c do to the   *)
(* content of a ring, seen as a sequence of bytes, oldest first.           *)
(* RingBuffer shows that the array-and-indices code does exactly this; the *)
(* modules of the daemon and of the client use these operators.            *)
(***************************************************************************)
EXTENDS Integers, Sequences

Smaller(a, b) == IF a < b THEN a ELSE b

(* How many of `len` bytes ringbuffer_in_with_limit takes into q: a limit  *)
(* of 0 is no limit, and content already above the limit takes nothing.    *)
Taken(q, size, len, limit) ==
  Smaller(IF limit = 0 THEN len
          ELSE IF limit < Len(q) THEN 0
          ELSE Smaller(len, limit - Len(q)),
          size - Len(q))

\* q after its first n bytes of `data` were stored.
Pushed(q, data, n) == q \o SubSeq(data, 1, n)

\* q without its oldest n bytes (all of them when it has fewer).
Dropped(q, n) == SubSeq(q, Smaller(n, Len(q)) + 1, Len(q))

\* The bytes ringbuffer_out hands over.
Oldest(q, n) == SubSeq(q, 1, Smaller(n, Len(q)))

(* What ringbuffer_get_data copies: at most len bytes from offset start.   *)
(* A negative start is a uint32_t above 2^31 in the code, beyond any       *)
(* content, so it reads nothing.                                           *)
Peeked(q, start, len) ==
  IF start < 0 \/ start > Len(q) THEN <<>>
  ELSE SubSeq(q, start + 1, start + Smaller(len, Len(q) - start))
=============================================================================
