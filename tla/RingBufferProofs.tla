-------------------------- MODULE RingBufferProofs --------------------------
(***************************************************************************)
(* The array-and-indices ring is a queue, for every size, whatever is      *)
(* stored, asked for or limited.                                           *)
(***************************************************************************)
EXTENDS RingBuffer, SequenceTheorems, TLAPS

-----------------------------------------------------------------------------
(* Positions.                                                              *)

(* Indices are taken modulo the size of the array, and never by more than  *)
(* one turn.                                                               *)
Turn(x) == IF x < Size THEN x ELSE x - Size

LEMMA Wrap ==
  \A x \in 0 .. 2 * Size - 1 : x % Size = Turn(x) /\ Turn(x) \in 0 .. Size - 1
<1> TAKE x \in 0 .. 2 * Size - 1
<1> USE SizeAssumption DEF Turn
<1>1. CASE x < Size
  BY <1>1
<1>2. CASE x >= Size
  BY <1>2
<1> QED
  BY <1>1, <1>2

(* The slice of n bytes from a position is a sequence of that length.      *)
LEMMA SliceFacts ==
  ASSUME TypeOK, NEW from \in 0 .. Size - 1, NEW n \in 0 .. Size
  PROVE  /\ Slice(from, n) \in Seq(Bytes)
         /\ Len(Slice(from, n)) = n
         /\ \A i \in 1 .. n :
              Slice(from, n)[i] = buffer[Turn(from + i - 1)]
<1> USE SizeAssumption
<1>1. \A i \in 1 .. n : from + i - 1 \in 0 .. 2 * Size - 1
  OBVIOUS
<1>2. \A i \in 1 .. n :
        (from + i - 1) % Size = Turn(from + i - 1)
  BY <1>1, Wrap
<1>3. \A i \in 1 .. n : (from + i - 1) % Size \in 0 .. Size - 1
  BY <1>1, Wrap
<1>4. \A i \in 1 .. n : buffer[(from + i - 1) % Size] \in Bytes
  BY <1>3 DEF TypeOK
<1>5. Slice(from, n) \in [1 .. n -> Bytes]
  BY <1>4 DEF Slice
<1>6. Slice(from, n) \in Seq(Bytes) /\ Len(Slice(from, n)) = n
  BY <1>5
<1> QED
  BY <1>2, <1>6 DEF Slice

-----------------------------------------------------------------------------
(* The calls.                                                              *)

(* How far an index is ahead of the write index.                           *)
Offset(k) == (k - write + Size) % Size

(* What ringbuffer_in does to the array: the bytes held stay where they    *)
(* are, the new ones follow them.                                          *)
LEMMA InFacts ==
  ASSUME TypeOK, NEW data \in Seq(Bytes), NEW len \in 0 .. Len(data), RingIn(data, len)
  PROVE  /\ TypeOK'
         /\ data_len' = data_len + Least(len, Size - data_len)
         /\ \A i \in 1 .. data_len : Content'[i] = Content[i]
         /\ \A i \in 1 .. Least(len, Size - data_len) : Content'[data_len + i] = data[i]
<1> USE SizeAssumption
<1> DEFINE n == Least(len, Size - data_len)
<1>1. n \in 0 .. len /\ n \in Nat /\ data_len + n \in 0 .. Size /\ read \in 0 .. Size - 1
      /\ data_len \in 0 .. Size /\ len \in 0 .. Len(data) /\ Len(data) \in Nat
  BY DEF TypeOK, Least
<1>2. write = Turn(read + data_len) /\ write \in 0 .. Size - 1
  <2>1. read + data_len \in 0 .. 2 * Size - 1
    BY <1>1
  <2>2. write = (read + data_len) % Size
    BY DEF TypeOK
  <2> QED
    BY <2>1, <2>2, Wrap
<1>3. \A k \in 0 .. Size - 1 : Offset(k) = Turn(k - write + Size) /\ Offset(k) \in 0 .. Size - 1
  <2> TAKE k \in 0 .. Size - 1
  <2>1. k - write + Size \in 0 .. 2 * Size - 1
    BY <1>2
  <2> QED
    BY <2>1, Wrap DEF Offset
<1>4. /\ read' = read
      /\ data_len' = data_len + n
      /\ write' = (write + n) % Size
      /\ buffer' = [k \in 0 .. Size - 1 |-> IF Offset(k) < n THEN data[Offset(k) + 1] ELSE buffer[k]]
  BY DEF RingIn, Offset
<1> HIDE DEF n
<1>5. write' = (read + data_len + n) % Size
  <2>1. write + n \in 0 .. 2 * Size - 1 /\ read + data_len + n \in 0 .. 2 * Size - 1
    BY <1>1, <1>2
  <2>2. (write + n) % Size = Turn(write + n)
        /\ (read + data_len + n) % Size = Turn(read + data_len + n)
    BY <2>1, Wrap
  <2>3. Turn(write + n) = Turn(read + data_len + n)
    BY <1>1, <1>2, <2>1 DEF Turn
  <2> QED
    BY <1>4, <2>2, <2>3
<1>6. buffer' \in [0 .. Size - 1 -> Bytes]
  <2> SUFFICES ASSUME NEW k \in 0 .. Size - 1
               PROVE  (IF Offset(k) < n THEN data[Offset(k) + 1] ELSE buffer[k]) \in Bytes
    BY <1>4
  <2>1. Offset(k) \in Nat
    BY <1>3
  <2>2. Offset(k) < n => Offset(k) + 1 \in 1 .. Len(data)
    BY <2>1, <1>1
  <2>3. buffer[k] \in Bytes
    BY DEF TypeOK
  <2>4. Offset(k) < n => data[Offset(k) + 1] \in Bytes
    BY <2>2
  <2> QED
    BY <2>3, <2>4
<1>7. TypeOK'
  <2>1. read' + data_len' = read + data_len + n
    BY <1>1, <1>4
  <2> QED
    BY <1>1, <1>4, <1>5, <1>6, <2>1 DEF TypeOK
<1>8. /\ \A i \in 1 .. data_len : Content[i] = buffer[Turn(read + i - 1)]
      /\ \A i \in 1 .. data_len + n : Content'[i] = buffer'[Turn(read + i - 1)]
  <2>1. \A i \in 1 .. data_len : Slice(read, data_len)[i] = buffer[Turn(read + i - 1)]
    BY <1>1, SliceFacts
  <2>2. /\ \A i \in 1 .. data_len + n : read + i - 1 \in 0 .. 2 * Size - 1
        /\ Content' = [i \in 1 .. data_len + n |-> buffer'[(read + i - 1) % Size]]
    BY <1>1, <1>4 DEF Content, Slice
  <2>3. \A i \in 1 .. data_len + n : (read + i - 1) % Size = Turn(read + i - 1)
    BY <2>2, Wrap
  <2>4. \A i \in 1 .. data_len + n : Content'[i] = buffer'[Turn(read + i - 1)]
    BY <2>2, <2>3
  <2> QED
    BY <2>1, <2>4 DEF Content
<1>9. ASSUME NEW i \in 1 .. data_len
      PROVE  Content'[i] = Content[i]
  <2> DEFINE k == Turn(read + i - 1)
  <2>1. k \in 0 .. Size - 1
    BY <1>1 DEF Turn
  <2>2. Offset(k) = Turn(k - write + Size) /\ Offset(k) \in Int
    BY <1>3, <2>1
  <2>3. Turn(k - write + Size) >= n
    BY <1>1, <1>2 DEF Turn
  <2> HIDE DEF k
  <2>4. ~ (Offset(k) < n)
    BY <1>1, <2>2, <2>3
  <2>5. buffer'[k] = buffer[k]
    BY <1>4, <2>1, <2>4
  <2>6. i \in 1 .. data_len + n
    BY <1>1
  <2> QED
    BY <1>8, <2>5, <2>6 DEF k
<1>10. ASSUME NEW i \in 1 .. n
       PROVE  Content'[data_len + i] = data[i]
  <2> DEFINE k == Turn(read + data_len + i - 1)
  <2>1. k \in 0 .. Size - 1 /\ data_len + i \in 1 .. data_len + n
    BY <1>1 DEF Turn
  <2>2. Turn(k - write + Size) = i - 1
    BY <1>1, <1>2 DEF Turn
  <2> HIDE DEF k
  <2>3. Offset(k) = i - 1
    BY <1>3, <2>1, <2>2
  <2>4. i - 1 < n /\ (i - 1) + 1 = i
    BY <1>1
  <2>5. buffer'[k] = data[i]
    BY <1>4, <2>1, <2>3, <2>4
  <2>6. read + (data_len + i) - 1 = read + data_len + i - 1
    BY <1>1
  <2> QED
    BY <1>8, <2>1, <2>5, <2>6 DEF k
<1> QED
  BY <1>4, <1>7, <1>9, <1>10 DEF n

(* What ringbuffer_out does: the bytes held but the oldest n stay.         *)
LEMMA OutFacts ==
  ASSUME TypeOK, NEW len \in Nat, RingOut(len)
  PROVE  LET n == Least(len, data_len) IN
         /\ TypeOK'
         /\ data_len' = data_len - n
         /\ \A i \in 1 .. data_len - n : Content'[i] = Content[n + i]
         /\ \A i \in 1 .. n : Slice(read, n)[i] = Content[i]
<1> USE SizeAssumption
<1> DEFINE n == Least(len, data_len)
<1>1. /\ n \in 0 .. data_len /\ data_len \in 0 .. Size /\ read \in 0 .. Size - 1
      /\ n \in 0 .. Size
  BY DEF TypeOK, Least
<1>2. /\ read' = (read + n) % Size /\ data_len' = data_len - n
      /\ write' = write /\ buffer' = buffer
  BY DEF RingOut
<1> HIDE DEF n
<1>3. read' = Turn(read + n) /\ read' \in 0 .. Size - 1
  <2>1. read + n \in 0 .. 2 * Size - 1
    BY <1>1
  <2> QED
    BY <1>2, <2>1, Wrap
<1>4. TypeOK'
  <2>1. /\ read + data_len \in 0 .. 2 * Size - 1
        /\ read' + data_len' \in 0 .. 2 * Size - 1
        /\ Turn(read' + data_len') = Turn(read + data_len)
    <3>1. CASE read + n < Size
      <4>1. read' = read + n
        BY <1>1, <1>3, <3>1 DEF Turn
      <4>2. read' + data_len' = read + data_len
        BY <1>1, <1>2, <4>1
      <4> QED
        BY <1>1, <4>2
    <3>2. CASE read + n >= Size
      <4>1. read' = read + n - Size
        BY <1>1, <1>3, <3>2 DEF Turn
      <4>2. read' + data_len' = (read + n - Size) + (data_len - n)
        BY <1>2, <4>1
      <4>3. read' + data_len' = read + data_len - Size
        BY <1>1, <4>2
      <4> QED
        BY <1>1, <3>2, <4>3 DEF Turn
    <3> QED
      BY <1>1, <3>1, <3>2
  <2>2. (read' + data_len') % Size = (read + data_len) % Size
    BY <2>1, Wrap
  <2> QED
    BY <1>1, <1>2, <1>3, <2>2 DEF TypeOK
<1>5. \A i \in 1 .. data_len : Slice(read, data_len)[i] = buffer[Turn(read + i - 1)]
  BY <1>1, SliceFacts
<1>6. ASSUME NEW i \in 1 .. data_len - n
      PROVE  Content'[i] = Content[n + i]
  <2>1. Content'[i] = buffer'[(read' + i - 1) % Size]
    BY <1>2 DEF Content, Slice
  <2>2. /\ read' + i - 1 \in 0 .. 2 * Size - 1
        /\ Turn(read' + i - 1) = Turn(read + (n + i) - 1)
        /\ n + i \in 1 .. data_len
    BY <1>1, <1>3 DEF Turn
  <2>3. Content'[i] = buffer[Turn(read + (n + i) - 1)]
    BY <1>2, <2>1, <2>2, Wrap
  <2> QED
    BY <1>5, <2>2, <2>3 DEF Content
<1>7. ASSUME NEW i \in 1 .. n
      PROVE  Slice(read, n)[i] = Content[i]
  <2>1. Slice(read, n)[i] = buffer[Turn(read + i - 1)]
    BY <1>1, SliceFacts
  <2>2. i \in 1 .. data_len
    BY <1>1
  <2> QED
    BY <1>5, <2>1, <2>2 DEF Content
<1> QED
  BY <1>2, <1>4, <1>6, <1>7 DEF n

-----------------------------------------------------------------------------
(* Type correctness.                                                       *)

\* The owner hands over an empty ring.
LEMMA InitType == Init => TypeOK
<1> USE SizeAssumption
<1>1. 0 % Size = Turn(0)
  BY Wrap
<1> QED
  BY <1>1 DEF Init, TypeOK, Turn

\* What ringbuffer_in_with_limit passes on to ringbuffer_in is no more than it got.
LEMMA LimitFacts ==
  ASSUME TypeOK, NEW data \in Chunks, NEW limit \in Limits, RingInWithLimit(data, limit)
  PROVE  \E len \in 0 .. Len(data) :
           /\ RingIn(data, len)
           /\ len = IF limit = 0 THEN Len(data)
                    ELSE IF limit - data_len < 0 THEN 0
                    ELSE Least(Len(data), limit - data_len)
<1> DEFINE len == IF limit = 0 THEN Len(data)
                  ELSE IF limit - data_len < 0 THEN 0
                  ELSE Least(Len(data), limit - data_len)
<1>1. Len(data) \in Nat /\ limit \in Nat /\ data_len \in Nat
  BY ChunksAssumption, ArgAssumption, SizeAssumption DEF TypeOK
<1>2. len \in 0 .. Len(data)
  BY <1>1 DEF Least
<1>3. RingIn(data, len)
  BY DEF RingInWithLimit
<1> QED
  BY <1>2, <1>3

LEMMA NextType == TypeOK /\ [Next]_ringVars => TypeOK'
<1> SUFFICES ASSUME TypeOK, [Next]_ringVars
             PROVE  TypeOK'
  OBVIOUS
<1>1. ASSUME NEW data \in Chunks, NEW limit \in Limits, RingInWithLimit(data, limit)
      PROVE  TypeOK'
  <2>1. data \in Seq(Bytes)
    BY ChunksAssumption
  <2>2. PICK len \in 0 .. Len(data) : RingIn(data, len)
    BY <1>1, LimitFacts
  <2> QED
    BY <2>1, <2>2, InFacts
<1>2. ASSUME NEW len \in Counts, RingOut(len)
      PROVE  TypeOK'
  <2>1. len \in Nat
    BY ArgAssumption
  <2> QED
    BY <1>2, <2>1, OutFacts
<1>3. CASE \E start, len \in Counts : RingGetData(start, len)
  BY <1>3 DEF RingGetData, TypeOK
<1>4. CASE RingReset
  <2>1. TypeOK' <=> (buffer' \in [0 .. Size - 1 -> Bytes] /\ 0 \in 0 .. Size - 1 /\ 0 = 0 % Size)
    BY <1>4, SizeAssumption DEF RingReset, TypeOK
  <2>2. 0 \in 0 .. 2 * Size - 1 /\ Turn(0) = 0
    BY SizeAssumption DEF Turn
  <2>3. 0 % Size = 0
    BY <2>2, Wrap
  <2> QED
    BY <1>4, <2>1, <2>3, SizeAssumption DEF RingReset, TypeOK
<1>5. CASE UNCHANGED ringVars
  BY <1>5 DEF ringVars, TypeOK
<1> QED
  BY <1>1, <1>2, <1>3, <1>4, <1>5 DEF Next

(* For every size of the ring, its indices stay inside the array and agree *)
(* with the fill count, however calls wrap, fill and overflow it.          *)
THEOREM TypeCorrect == Spec => []TypeOK
  BY InitType, NextType, PTL DEF Spec

-----------------------------------------------------------------------------
(* Refinement of the queue.                                                *)

(* A part of a sequence.                                                   *)
LEMMA PartFacts ==
  ASSUME NEW S, NEW q \in Seq(S), NEW a \in Nat, NEW n \in Nat, a + n <= Len(q)
  PROVE  /\ SubSeq(q, a + 1, a + n) \in Seq(S)
         /\ Len(SubSeq(q, a + 1, a + n)) = n
         /\ \A i \in 1 .. n : SubSeq(q, a + 1, a + n)[i] = q[a + i]
<1>1. PICK b, c \in Int : b = a + 1 /\ c = a + n
  OBVIOUS
<1>2. \A i \in b .. c : q[i] \in S
  BY <1>1
<1>3. /\ SubSeq(q, b, c) \in Seq(S)
      /\ Len(SubSeq(q, b, c)) = IF b <= c THEN c - b + 1 ELSE 0
      /\ \A i \in 1 .. c - b + 1 : SubSeq(q, b, c)[i] = q[b + i - 1]
  BY ONLY <1>2, b \in Int, c \in Int, SubSeqProperties
<1>4. (IF b <= c THEN c - b + 1 ELSE 0) = n /\ c - b + 1 = n
  BY <1>1
<1>5. \A i \in 1 .. n : b + i - 1 = a + i
  BY <1>1
<1> QED
  BY <1>1, <1>3, <1>4, <1>5

\* The content is a sequence of data_len bytes.
LEMMA ContentType == TypeOK => Content \in Seq(Bytes) /\ Len(Content) = data_len
<1> HAVE TypeOK
<1>1. read \in 0 .. Size - 1 /\ data_len \in 0 .. Size
  BY DEF TypeOK
<1> QED
  BY <1>1, SliceFacts DEF Content

LEMMA ContentTypeNext == TypeOK' => (Content \in Seq(Bytes) /\ Len(Content) = data_len)'
  BY ContentType, PTL

(* Storing is Put.                                                         *)
LEMMA PutStep ==
  ASSUME TypeOK, TypeOK', NEW data \in Chunks, NEW limit \in Limits, RingInWithLimit(data, limit)
  PROVE  Queue!Put(data, limit)
<1>1. data \in Seq(Bytes) /\ limit \in Nat /\ data_len \in Nat /\ Size \in Nat /\ Len(data) \in Nat
  BY ChunksAssumption, ArgAssumption, SizeAssumption DEF TypeOK
<1>2. PICK len \in 0 .. Len(data) :
        /\ RingIn(data, len)
        /\ len = IF limit = 0 THEN Len(data)
                 ELSE IF limit - data_len < 0 THEN 0
                 ELSE Least(Len(data), limit - data_len)
  BY LimitFacts
<1> DEFINE n == Least(len, Size - data_len)
<1>3. /\ Content \in Seq(Bytes) /\ Len(Content) = data_len
      /\ Content' \in Seq(Bytes) /\ Len(Content') = data_len'
  BY ContentType, ContentTypeNext
<1>4. Queue!Taken(Content, Size, Len(data), limit) = n
  BY <1>1, <1>2, <1>3 DEF Queue!Taken, Queue!Smaller, Least
<1>5. /\ data_len' = data_len + n
      /\ \A i \in 1 .. data_len : Content'[i] = Content[i]
      /\ \A i \in 1 .. n : Content'[data_len + i] = data[i]
  BY <1>1, <1>2, InFacts
<1>6. n \in 0 .. Len(data)
  BY <1>1, <1>2, SizeAssumption DEF Least, TypeOK
<1> HIDE DEF n
<1>7. /\ SubSeq(data, 1, n) \in Seq(Bytes) /\ Len(SubSeq(data, 1, n)) = n
      /\ \A i \in 1 .. n : SubSeq(data, 1, n)[i] = data[i]
  BY <1>1, <1>6
<1>8. Content' = Content \o SubSeq(data, 1, n)
  <2> DEFINE t == Content \o SubSeq(data, 1, n)
  <2>1. /\ t \in Seq(Bytes) /\ Len(t) = data_len + n
        /\ \A i \in 1 .. data_len + n :
             t[i] = IF i <= data_len THEN Content[i] ELSE SubSeq(data, 1, n)[i - data_len]
    BY <1>3, <1>7, ConcatProperties
  <2>2. ASSUME NEW i \in 1 .. data_len + n
        PROVE  Content'[i] = t[i]
    <3>1. CASE i <= data_len
      BY <1>1, <1>5, <2>1, <3>1
    <3>2. CASE i > data_len
      <4>1. i - data_len \in 1 .. n /\ data_len + (i - data_len) = i
        BY <1>1, <1>6, <3>2
      <4>2. Content'[i] = data[i - data_len]
        BY <1>5, <4>1
      <4>3. t[i] = data[i - data_len]
        BY <1>1, <1>7, <2>1, <3>2, <4>1
      <4> QED
        BY <4>2, <4>3
    <3>3. i \in Int /\ data_len \in Int
      BY <1>1, <1>6
    <3> HIDE DEF t
    <3> QED
      BY <3>1, <3>2, <3>3
  <2> HIDE DEF t
  <2>3. Content' = t
    BY <1>3, <1>5, <2>1, <2>2, SeqEqual
  <2> QED
    BY <2>3 DEF t
<1>9. last' = Queue!Call("in", data, limit, 0, <<>>)
  BY DEF RingInWithLimit, Call, Queue!Call
<1> QED
  BY <1>4, <1>8, <1>9 DEF Queue!Put, Queue!Pushed

(* Removing is Take, and hands over what Take does.                        *)
LEMMA TakeStep ==
  ASSUME TypeOK, TypeOK', NEW len \in Counts, RingOut(len)
  PROVE  Queue!Take(len)
<1>1. len \in Nat /\ data_len \in Nat /\ read \in 0 .. Size - 1 /\ data_len \in 0 .. Size
  BY ArgAssumption, SizeAssumption DEF TypeOK
<1> DEFINE n == Least(len, data_len)
<1>2. n \in 0 .. data_len /\ n \in 0 .. Size /\ n \in Nat
  BY <1>1, SizeAssumption DEF Least
<1>3. /\ Content \in Seq(Bytes) /\ Len(Content) = data_len
      /\ Content' \in Seq(Bytes) /\ Len(Content') = data_len'
  BY ContentType, ContentTypeNext
<1>4. Queue!Smaller(len, Len(Content)) = n
  BY <1>3 DEF Queue!Smaller, Least
<1>5. /\ data_len' = data_len - n
      /\ \A i \in 1 .. data_len - n : Content'[i] = Content[n + i]
      /\ \A i \in 1 .. n : Slice(read, n)[i] = Content[i]
  BY <1>1, OutFacts
<1>6. last' = Call("out", <<>>, len, 0, Slice(read, n))
  BY DEF RingOut
<1> HIDE DEF n
<1>7. Content' = SubSeq(Content, n + 1, Len(Content))
  <2>1. PICK m \in Nat : m = data_len - n
    BY <1>1, <1>2
  <2>2. n + m <= Len(Content) /\ n + m = Len(Content)
    BY <1>1, <1>2, <1>3, <2>1
  <2>3. /\ SubSeq(Content, n + 1, n + m) \in Seq(Bytes)
        /\ Len(SubSeq(Content, n + 1, n + m)) = m
        /\ \A i \in 1 .. m : SubSeq(Content, n + 1, n + m)[i] = Content[n + i]
    BY <1>2, <1>3, <2>1, <2>2, PartFacts
  <2> DEFINE t == SubSeq(Content, n + 1, n + m)
  <2>4. Len(Content') = Len(t)
    BY <1>3, <1>5, <2>1, <2>3
  <2>5. \A i \in 1 .. Len(Content') : Content'[i] = t[i]
    BY <1>3, <1>5, <2>1, <2>3
  <2> HIDE DEF t
  <2>6. t \in Seq(Bytes)
    BY <2>3 DEF t
  <2>7. Content' = t
    BY <1>3, <2>4, <2>5, <2>6, SeqEqual
  <2> QED
    BY <2>2, <2>7 DEF t
<1>8. Slice(read, n) = SubSeq(Content, 1, n)
  <2>1. Slice(read, n) \in Seq(Bytes) /\ Len(Slice(read, n)) = n
    BY <1>1, <1>2, SliceFacts
  <2>2. /\ SubSeq(Content, 1, n) \in Seq(Bytes) /\ Len(SubSeq(Content, 1, n)) = n
        /\ \A i \in 1 .. n : SubSeq(Content, 1, n)[i] = Content[i]
    BY <1>1, <1>2, <1>3
  <2> QED
    BY <1>5, <2>1, <2>2, SeqEqual
<1> QED
  BY <1>4, <1>6, <1>7, <1>8 DEF Queue!Take, Queue!Dropped, Queue!Oldest, Queue!Call, Call

(* Reading without removing is Look.                                       *)
LEMMA LookStep ==
  ASSUME TypeOK, NEW start \in Counts, NEW len \in Counts, RingGetData(start, len)
  PROVE  Queue!Look(start, len)
<1> DEFINE n == IF len + start > data_len THEN data_len - start ELSE len
<1>1. /\ start \in Nat /\ len \in Nat /\ Size \in Nat \ {0}
      /\ read \in 0 .. Size - 1 /\ data_len \in 0 .. Size
  BY ArgAssumption, SizeAssumption DEF TypeOK
<1>2. Content \in Seq(Bytes) /\ Len(Content) = data_len
  BY ContentType
<1>3. Content' = Content
  BY DEF RingGetData, Content, Slice
<1>4. last' = Call("get", <<>>, start, len, Queue!Peeked(Content, start, len))
  <2>1. CASE start > data_len
    <3>1. Queue!Peeked(Content, start, len) = <<>>
      BY <1>2, <2>1 DEF Queue!Peeked
    <3> QED
      BY <2>1, <3>1 DEF RingGetData
  <2>2. CASE data_len = 0 /\ start = 0
    <3>1. Queue!Smaller(len, Len(Content) - start) = 0
      BY <1>1, <1>2, <2>2 DEF Queue!Smaller
    <3>2. Queue!Peeked(Content, start, len) = SubSeq(Content, 1, 0)
      BY <1>1, <1>2, <2>2, <3>1 DEF Queue!Peeked
    <3>3. SubSeq(Content, 1, 0) = <<>>
      BY <1>2
    <3> QED
      BY <2>2, <3>2, <3>3 DEF RingGetData
  <2>3. CASE data_len /= 0 /\ start <= data_len
    <3>1. last' = Call("get", <<>>, start, len, Slice((read + start) % Size, n))
      BY <1>1, <2>3 DEF RingGetData
    <3>2. n \in Nat /\ start + n <= data_len /\ n \in 0 .. Size
      BY <1>1, <2>3
    <3>3. Queue!Smaller(len, Len(Content) - start) = n
      BY <1>1, <1>2, <2>3 DEF Queue!Smaller
    <3> HIDE DEF n
    <3>3a. ~ (start < 0 \/ start > Len(Content))
      BY <1>1, <1>2, <2>3
    <3>4. Queue!Peeked(Content, start, len) = SubSeq(Content, start + 1, start + n)
      BY <3>3, <3>3a DEF Queue!Peeked
    <3>5. /\ SubSeq(Content, start + 1, start + n) \in Seq(Bytes)
          /\ Len(SubSeq(Content, start + 1, start + n)) = n
          /\ \A i \in 1 .. n : SubSeq(Content, start + 1, start + n)[i] = Content[start + i]
      BY <1>1, <1>2, <3>2, PartFacts
    <3>6. PICK from \in 0 .. Size - 1 : from = (read + start) % Size /\ from = Turn(read + start)
      <4>1. read + start \in 0 .. 2 * Size - 1
        BY <1>1, <2>3
      <4> QED
        BY <4>1, Wrap
    <3>7. /\ Slice(from, n) \in Seq(Bytes) /\ Len(Slice(from, n)) = n
          /\ \A i \in 1 .. n : Slice(from, n)[i] = buffer[Turn(from + i - 1)]
      BY <3>2, <3>6, SliceFacts
    <3>8. \A i \in 1 .. data_len : Content[i] = buffer[Turn(read + i - 1)]
      BY <1>1, SliceFacts DEF Content
    <3>9. ASSUME NEW i \in 1 .. n
          PROVE  Slice(from, n)[i] = Content[start + i]
      <4>1. start + i \in 1 .. data_len
        BY <1>1, <3>2
      <4>2. Turn(from + i - 1) = Turn(read + (start + i) - 1)
        BY <1>1, <3>2, <3>6, <4>1 DEF Turn
      <4> QED
        BY <3>7, <3>8, <4>1, <4>2
    <3>10. Slice(from, n) = SubSeq(Content, start + 1, start + n)
      BY <3>2, <3>5, <3>7, <3>9, SeqEqual
    <3> QED
      BY <3>1, <3>4, <3>6, <3>10
  <2> QED
    BY <1>1, <2>1, <2>2, <2>3
<1> QED
  BY <1>3, <1>4 DEF Queue!Look, Queue!Call, Call

(* The empty ring is the empty queue.                                      *)
LEMMA EmptyContent == Slice(0, 0) = <<>>
  BY DEF Slice

LEMMA StepSimulation ==
  TypeOK /\ TypeOK' /\ [Next]_ringVars => [Queue!Next]_<<Content, last>>
<1> SUFFICES ASSUME TypeOK, TypeOK', [Next]_ringVars
             PROVE  [Queue!Next]_<<Content, last>>
  OBVIOUS
<1>1. CASE \E data \in Chunks, limit \in Limits : RingInWithLimit(data, limit)
  BY <1>1, PutStep DEF Queue!Next
<1>2. CASE \E n \in Counts : RingOut(n)
  BY <1>2, TakeStep DEF Queue!Next
<1>3. CASE \E start, n \in Counts : RingGetData(start, n)
  BY <1>3, LookStep DEF Queue!Next
<1>4. CASE RingReset
  <2>1. Content' = <<>>
    BY <1>4 DEF RingReset, Content, Slice
  <2> QED
    BY <1>4, <2>1 DEF RingReset, Queue!Clear, Queue!Next, Queue!Call, Call
<1>5. CASE UNCHANGED ringVars
  BY <1>5 DEF ringVars, Content, Slice
<1> QED
  BY <1>1, <1>2, <1>3, <1>4, <1>5 DEF Next

(* The array-and-indices ring implements the queue, for every size.        *)
THEOREM RingIsFifo == Spec => IsFifo
<1>1. Init => Queue!Init
  BY EmptyContent DEF Init, Queue!Init, Content, Queue!Call, Call
<1> QED
  BY <1>1, StepSimulation, TypeCorrect, PTL DEF Spec, IsFifo, Queue!Spec
=============================================================================
