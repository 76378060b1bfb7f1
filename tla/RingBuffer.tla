----------------------------- MODULE RingBuffer -----------------------------
(***************************************************************************)
(* com/ringbuffer.c and com/ringbuffer_ext.c: the byte queue that both the *)
(* daemon (to-device data of a socket) and the client (received data) use. *)
(* Array, indices and fill count are those of ringbuffer_t; the one or two *)
(* memcpy's of a call are the array positions it writes or reads.  A ring  *)
(* is used under its owner's mutex, so each call is one step.              *)
(***************************************************************************)
EXTENDS Integers, Sequences

CONSTANTS
  Size,                \* ringbuffer_t.size
  Chunks,              \* the byte sequences callers store
  Limits,              \* the limits ringbuffer_in_with_limit is given (0: none)
  Counts               \* the lengths and offsets callers ask for

ASSUME SizeAssumption == Size \in Nat \ {0}
ASSUME ArgAssumption == Limits \subseteq Nat /\ Counts \subseteq Nat

Bytes == UNION {{data[i] : i \in DOMAIN data} : data \in Chunks}
ASSUME ChunksAssumption == Chunks \subseteq Seq(Bytes)

VARIABLES
  buffer,              \* the storage, indexed 0 .. Size-1
  read, write,         \* next index to read, next index to write
  data_len,            \* bytes held
  last                 \* history: the last call and what it copied to its caller

ringVars == <<buffer, read, write, data_len, last>>

Call(op, data, a, b, out) == [op |-> op, data |-> data, a |-> a, b |-> b, out |-> out]

Least(a, b) == IF a < b THEN a ELSE b

\* The n bytes found from index `from` on, wrapping at the end of the array.
Slice(from, n) == [i \in 1 .. n |-> buffer[(from + i - 1) % Size]]

\* What the ring holds, oldest byte first.
Content == Slice(read, data_len)

(* Slip: ringbuffer_out leaves the read index unwrapped.       *)
RingOutNoWrap(len) ==
  LET n == Least(len, data_len) IN
  /\ last' = Call("out", <<>>, len, 0, Slice(read, n))
  /\ read' = read + n
  /\ data_len' = data_len - n
  /\ UNCHANGED <<buffer, write>>

(* Slip: the second memcpy of a wrapping ringbuffer_in is left out.         *)
RingInNoWrap(data, len) ==
  LET n == Least(len, Size - data_len) IN
  /\ buffer' = [k \in 0 .. Size - 1 |->
                  IF k >= write /\ k - write < n THEN data[k - write + 1] ELSE buffer[k]]
  /\ write' = (write + n) % Size
  /\ data_len' = data_len + n
  /\ UNCHANGED read

(* ringbuffer_in: as much of the first len bytes of `data` as there is     *)
(* room for.                                                               *)
RingIn(data, len) ==
  LET n == Least(len, Size - data_len)
      offset(k) == (k - write + Size) % Size
  IN  /\ buffer' = [k \in 0 .. Size - 1 |->
                      IF offset(k) < n THEN data[offset(k) + 1] ELSE buffer[k]]
      /\ write' = (write + n) % Size
      /\ data_len' = data_len + n
      /\ UNCHANGED read

RingInWithLimit(data, limit) ==
  /\ RingIn(data, IF limit = 0 THEN Len(data)
                  ELSE IF limit - data_len < 0 THEN 0
                  ELSE Least(Len(data), limit - data_len))
  /\ last' = Call("in", data, limit, 0, <<>>)

(* ringbuffer_out: removes at most len of the oldest bytes.                *)
RingOut(len) ==
  LET n == Least(len, data_len) IN
  /\ last' = Call("out", <<>>, len, 0, Slice(read, n))
  /\ read' = (read + n) % Size
  /\ data_len' = data_len - n
  /\ UNCHANGED <<buffer, write>>

(* ringbuffer_get_data: at most len bytes from offset start, none removed. *)
RingGetData(start, len) ==
  /\ last' = Call("get", <<>>, start, len,
                  IF data_len = 0 \/ start > data_len THEN <<>>
                  ELSE Slice((read + start) % Size,
                             IF len + start > data_len THEN data_len - start ELSE len))
  /\ UNCHANGED <<buffer, read, write, data_len>>

RingReset ==
  /\ read' = 0 /\ write' = 0 /\ data_len' = 0
  /\ last' = Call("reset", <<>>, 0, 0, <<>>)
  /\ UNCHANGED buffer

(* The owner hands over storage with whatever bytes it had and calls reset. *)
Init ==
  /\ buffer \in [0 .. Size - 1 -> Bytes]
  /\ read = 0 /\ write = 0 /\ data_len = 0
  /\ last = Call("reset", <<>>, 0, 0, <<>>)

Next ==
  \/ \E data \in Chunks, limit \in Limits : RingInWithLimit(data, limit)
  \/ \E n \in Counts : RingOut(n)
  \/ \E start, n \in Counts : RingGetData(start, n)
  \/ RingReset

Spec == Init /\ [][Next]_ringVars

(***************************************************************************)
(* The indices stay inside the array and agree with the fill count: the    *)
(* distance from read to write is data_len, with equal indices meaning     *)
(* empty or full.                                                          *)
(***************************************************************************)
TypeOK ==
  /\ buffer \in [0 .. Size - 1 -> Bytes]
  /\ read \in 0 .. Size - 1
  /\ write = (read + data_len) % Size
  /\ data_len \in 0 .. Size

(* The array code is a bounded FIFO: whatever the wrap-around, each call   *)
(* adds, hands over, peeks at and drops exactly the bytes of the abstract  *)
(* queue.                                                                  *)
Queue == INSTANCE FifoSpec WITH content <- Content
IsFifo == Queue!Spec
=============================================================================
