-------------------------- MODULE SockStreamProofs --------------------------
(***************************************************************************)
(* The transmit direction of a socket, for every ring size, packet size,   *)
(* device buffer, limit, payload and bound, with and without loss.         *)
(***************************************************************************)
EXTENDS SockStream, SequenceTheorems, TLAPS

-----------------------------------------------------------------------------
(* The queue operators.                                                    *)

(* ringbuffer_in_with_limit never takes more than it is offered or than    *)
(* fits, and takes something when the ring is empty.                       *)
LEMMA TakenFacts ==
  ASSUME NEW S, NEW q \in Seq(S), NEW size \in Nat, NEW len \in Nat,
         NEW limit \in Nat, Len(q) <= size
  PROVE  /\ Taken(q, size, len, limit) \in 0 .. len
         /\ Len(q) + Taken(q, size, len, limit) <= size
         /\ size > 0 /\ len > 0 /\ Len(q) = 0 => Taken(q, size, len, limit) > 0
<1>1. Len(q) \in Nat
  OBVIOUS
<1> QED
  BY <1>1 DEF Taken, Smaller

(* Storing appends the first n bytes of the payload.                       *)
LEMMA PushedFacts ==
  \A q, data \in Seq(Byte) : \A n \in 0 .. Len(data) :
    /\ Pushed(q, data, n) \in Seq(Byte)
    /\ Len(Pushed(q, data, n)) = Len(q) + n
    /\ \A i \in 1 .. Len(q) : Pushed(q, data, n)[i] = q[i]
    /\ \A i \in 1 .. n : Pushed(q, data, n)[Len(q) + i] = data[i]
<1> TAKE q, data \in Seq(Byte)
<1> TAKE n \in 0 .. Len(data)
<1>1. /\ SubSeq(data, 1, n) \in Seq(Byte)
      /\ Len(SubSeq(data, 1, n)) = n
      /\ \A i \in 1 .. n : SubSeq(data, 1, n)[i] = data[i]
  OBVIOUS
<1> QED
  BY <1>1 DEF Pushed

(* Removing n bytes shifts the rest.                                       *)
LEMMA DroppedFacts ==
  ASSUME NEW S, NEW q \in Seq(S), NEW n \in 0 .. Len(q)
  PROVE  /\ Dropped(q, n) \in Seq(S)
         /\ Len(Dropped(q, n)) = Len(q) - n
         /\ \A i \in 1 .. Len(q) - n : Dropped(q, n)[i] = q[n + i]
<1>1. Smaller(n, Len(q)) = n
  BY DEF Smaller
<1>2. Dropped(q, n) = SubSeq(q, n + 1, Len(q))
  BY <1>1 DEF Dropped
<1> QED
  BY <1>2

(* What is read without removing lies inside the ring, at its offset.      *)
LEMMA PeekedFacts ==
  ASSUME NEW S, NEW q \in Seq(S), NEW start \in Int, NEW len \in Nat
  PROVE  /\ Peeked(q, start, len) \in Seq(S)
         /\ Len(Peeked(q, start, len)) <= len
         /\ Peeked(q, start, len) /= <<>> =>
              /\ start >= 0
              /\ start + Len(Peeked(q, start, len)) <= Len(q)
              /\ \A i \in 1 .. Len(Peeked(q, start, len)) :
                   Peeked(q, start, len)[i] = q[start + i]
<1>1. CASE start < 0 \/ start > Len(q)
  BY <1>1 DEF Peeked
<1>2. CASE ~ (start < 0 \/ start > Len(q))
  <2> DEFINE n == Smaller(len, Len(q) - start)
             p == Peeked(q, start, len)
  <2>1. n \in Nat /\ n <= len /\ start + n <= Len(q) /\ start \in Nat
    BY <1>2 DEF Smaller
  <2>2. p = SubSeq(q, start + 1, start + n)
    BY <1>2 DEF Peeked
  <2> HIDE DEF n, p
  <2>3. PICK a, b \in Int : a = start + 1 /\ b = start + n
    BY <2>1
  <2>4. p \in Seq(S) /\ Len(p) = n /\ \A i \in 1 .. n : p[i] = q[start + i]
    <3>1. \A i \in a .. b : q[i] \in S
      BY <2>1, <2>3
    <3>2. /\ SubSeq(q, a, b) \in Seq(S)
          /\ Len(SubSeq(q, a, b)) = IF a <= b THEN b - a + 1 ELSE 0
          /\ \A i \in 1 .. b - a + 1 : SubSeq(q, a, b)[i] = q[a + i - 1]
      BY ONLY <3>1, a \in Int, b \in Int, SubSeqProperties
    <3>3. p = SubSeq(q, a, b)
      BY <2>2, <2>3
    <3>4. p \in Seq(S) /\ Len(p) = n
      BY <3>2, <3>3, <2>1, <2>3
    <3>5. \A i \in 1 .. n : p[i] = q[a + i - 1] /\ a + i - 1 = start + i
      BY <3>2, <3>3, <2>1, <2>3
    <3> QED
      BY <3>4, <3>5
  <2>5. p \in Seq(S) /\ Len(p) <= len /\ start >= 0 /\ start + Len(p) <= Len(q)
    BY <2>1, <2>4
  <2>6. \A i \in 1 .. Len(p) : p[i] = q[start + i]
    BY <2>1, <2>4
  <2> QED
    BY <2>5, <2>6 DEF p
<1> QED
  BY <1>1, <1>2

-----------------------------------------------------------------------------
(* The inductive invariant, one lemma per action that changes state it     *)
(* speaks of.                                                              *)

(* A node starts empty, at position 0, with nothing on its way.            *)
LEMMA InitIInv == Init => IInv
<1> SUFFICES ASSUME Init PROVE IInv
  OBVIOUS
<1> USE DEF Init
<1>1. TypeOK
  BY SizesAssumption DEF TypeOK, SockSta
<1>2. StreamIntegrity /\ NoOverdueWrite
  BY DEF StreamIntegrity, Prefix, NoOverdueWrite
<1>3. RingInv /\ FrameInv /\ AckInv
  BY SizesAssumption DEF RingInv, FrameInv, AckInv
<1>4. WriteInv
  BY DEF WriteInv, Completed
<1> QED
  BY <1>1, <1>2, <1>3, <1>4 DEF IInv

(* What the type invariant says of every variable and element.            *)
LEMMA TypeFacts ==
  ASSUME TypeOK
  PROVE  /\ buf_dev \in Seq(Byte) /\ Len(buf_dev) \in Nat /\ Len(buf_dev) <= BufSize
         /\ accepted \in Seq(Byte) /\ Len(accepted) \in Nat
         /\ devRcv \in Seq(Byte) /\ Len(devRcv) \in Nat /\ devSent \in Nat
         /\ buf_dev_limit \in Nat /\ buf_head_index \in Nat /\ buf_wr_index \in Nat
         /\ sock_wr_list \in Seq(Write) /\ Len(sock_wr_list) \in Nat
         /\ wr_cur_ptr \in Nat
         /\ \A i \in 1 .. Len(sock_wr_list) :
              sock_wr_list[i].wr_init \in Nat /\ sock_wr_list[i].wr_max \in Nat
         /\ toDev \in Seq(Frame) /\ Len(toDev) \in Nat
         /\ \A f \in 1 .. Len(toDev) :
              /\ toDev[f].pos \in Nat /\ toDev[f].data \in Seq(Byte)
              /\ Len(toDev[f].data) \in Nat
         /\ fromDev \in Seq(Reply) /\ Len(fromDev) \in Nat
         /\ \A r \in 1 .. Len(fromDev) :
              /\ fromDev[r].pos \in Nat
              /\ fromDev[r].kind = "ack" => fromDev[r].sta \in Nat
         /\ sock_sta \in SockSta /\ sendpc \in {"scan", "make"}
<1>1. /\ buf_dev \in Seq(Byte) /\ Len(buf_dev) \in Nat /\ Len(buf_dev) <= BufSize
      /\ accepted \in Seq(Byte) /\ Len(accepted) \in Nat
      /\ devRcv \in Seq(Byte) /\ Len(devRcv) \in Nat /\ devSent \in Nat
      /\ buf_dev_limit \in Nat /\ buf_head_index \in Nat /\ buf_wr_index \in Nat
      /\ sock_wr_list \in Seq(Write) /\ Len(sock_wr_list) \in Nat
      /\ wr_cur_ptr \in Nat
      /\ toDev \in Seq(Frame) /\ Len(toDev) \in Nat
      /\ fromDev \in Seq(Reply) /\ Len(fromDev) \in Nat
      /\ sock_sta \in SockSta /\ sendpc \in {"scan", "make"}
  BY DEF TypeOK
<1>2. ASSUME NEW i \in 1 .. Len(sock_wr_list)
      PROVE  sock_wr_list[i].wr_init \in Nat /\ sock_wr_list[i].wr_max \in Nat
  <2>1. sock_wr_list[i] \in Write
    BY <1>1
  <2> QED
    BY <2>1 DEF Write
<1>3. ASSUME NEW f \in 1 .. Len(toDev)
      PROVE  /\ toDev[f].pos \in Nat /\ toDev[f].data \in Seq(Byte)
             /\ Len(toDev[f].data) \in Nat
  <2>1. toDev[f] \in Frame
    BY <1>1
  <2> QED
    BY <2>1 DEF Frame
<1>4. ASSUME NEW r \in 1 .. Len(fromDev)
      PROVE  /\ fromDev[r].pos \in Nat
             /\ fromDev[r].kind = "ack" => fromDev[r].sta \in Nat
  <2>1. fromDev[r] \in Reply
    BY <1>1
  <2> QED
    BY <2>1 DEF Reply
<1> QED
  BY <1>1, <1>2, <1>3, <1>4

(* A write extends the stream at its end: ring, stream and the list of     *)
(* writes grow by the same n bytes.                                        *)
LEMMA PushDataIInv ==
  ASSUME IInv, NEW data \in Chunks, PushData(data)
  PROVE  IInv'
<1> DEFINE n == Taken(buf_dev, BufSize, Len(data), buf_dev_limit)
<1>0. /\ TypeOK /\ StreamIntegrity /\ NoOverdueWrite
      /\ RingInv /\ FrameInv /\ AckInv /\ WriteInv
  BY DEF IInv
<1>1. data \in Seq(Byte) /\ Len(data) > 0
  BY ChunksAssumption
<1>2. /\ n \in 0 .. Len(data)
      /\ Len(buf_dev) + n <= BufSize
      /\ Len(buf_dev) = 0 => n > 0
  <2>1. buf_dev \in Seq(Byte) /\ Len(buf_dev) <= BufSize /\ buf_dev_limit \in Nat
    BY <1>0, TypeFacts
  <2>2. BufSize \in Nat /\ BufSize > 0
    BY SizesAssumption
  <2>3. Len(data) \in Nat
    BY <1>1
  <2> QED
    BY <1>1, <2>1, <2>2, <2>3, TakenFacts
<1>3. /\ buf_dev' = Pushed(buf_dev, data, n)
      /\ accepted' = Pushed(accepted, data, n)
      /\ sock_wr_list' = Append(sock_wr_list,
                                [wr_init |-> wr_cur_ptr, wr_max |-> wr_cur_ptr + n])
      /\ wr_cur_ptr' = wr_cur_ptr + n
      /\ sock_sta' = "can_send_data"
      /\ UNCHANGED <<buf_dev_limit, link, buf_head_index, buf_wr_index, sendpc, toDev,
                     fromDev, devRcv, devSent>>
  BY DEF PushData, devVars
<1> HIDE DEF n
<1>4. /\ buf_dev' \in Seq(Byte)
      /\ Len(buf_dev') = Len(buf_dev) + n
      /\ \A i \in 1 .. Len(buf_dev) : buf_dev'[i] = buf_dev[i]
      /\ \A i \in 1 .. n : buf_dev'[Len(buf_dev) + i] = data[i]
  <2>1. buf_dev \in Seq(Byte) /\ n \in 0 .. Len(data)
    BY <1>0, <1>2, TypeFacts
  <2>2. /\ Pushed(buf_dev, data, n) \in Seq(Byte)
        /\ Len(Pushed(buf_dev, data, n)) = Len(buf_dev) + n
        /\ \A i \in 1 .. Len(buf_dev) : Pushed(buf_dev, data, n)[i] = buf_dev[i]
        /\ \A i \in 1 .. n : Pushed(buf_dev, data, n)[Len(buf_dev) + i] = data[i]
    BY ONLY <2>1, <1>1, PushedFacts
  <2> QED
    BY <2>2, <1>3
<1>5. /\ accepted' \in Seq(Byte)
      /\ Len(accepted') = Len(accepted) + n
      /\ \A i \in 1 .. Len(accepted) : accepted'[i] = accepted[i]
      /\ \A i \in 1 .. n : accepted'[Len(accepted) + i] = data[i]
  <2>1. accepted \in Seq(Byte) /\ n \in 0 .. Len(data)
    BY <1>0, <1>2, TypeFacts
  <2>2. /\ Pushed(accepted, data, n) \in Seq(Byte)
        /\ Len(Pushed(accepted, data, n)) = Len(accepted) + n
        /\ \A i \in 1 .. Len(accepted) : Pushed(accepted, data, n)[i] = accepted[i]
        /\ \A i \in 1 .. n : Pushed(accepted, data, n)[Len(accepted) + i] = data[i]
    BY ONLY <2>1, <1>1, PushedFacts
  <2> QED
    BY <2>2, <1>3
<1>6. Len(buf_dev) \in Nat /\ Len(accepted) \in Nat /\ n \in Nat
  BY <1>0, <1>1, <1>2, TypeFacts
<1>7. TypeOK'
  <2>1. wr_cur_ptr \in Nat /\ sock_wr_list \in Seq(Write)
    BY <1>0, TypeFacts
  <2>2. wr_cur_ptr + n \in Nat
    BY <2>1, <1>6
  <2>3. [wr_init |-> wr_cur_ptr, wr_max |-> wr_cur_ptr + n] \in Write
    BY <2>1, <2>2 DEF Write
  <2>4. sock_wr_list' \in Seq(Write) /\ wr_cur_ptr' \in Nat
    BY <2>1, <2>2, <2>3, <1>3
  <2>5. Len(buf_dev') <= BufSize
    BY <1>2, <1>4
  <2> QED
    BY <1>0, <1>3, <1>4, <1>5, <2>4, <2>5 DEF TypeOK, SockSta
<1>8. StreamIntegrity'
  <2>1. Len(devRcv) <= Len(accepted) /\ \A i \in 1 .. Len(devRcv) : devRcv[i] = accepted[i]
    BY <1>0 DEF StreamIntegrity, Prefix
  <2>2. Len(devRcv) \in Nat
    BY <1>0, TypeFacts
  <2>3. Len(devRcv) <= Len(accepted') /\ \A i \in 1 .. Len(devRcv) : devRcv[i] = accepted'[i]
    BY <2>1, <2>2, <1>5, <1>6
  <2>4. devRcv' = devRcv
    BY <1>3
  <2>5. /\ Len(devRcv') <= Len(accepted')
        /\ \A i \in 1 .. Len(devRcv') : devRcv'[i] = accepted'[i]
    BY ONLY <2>3, <2>4
  <2> QED
    BY ONLY <2>5 DEF StreamIntegrity, Prefix
<1>9. RingInv'
  <2>1. Len(accepted') = wr_cur_ptr' /\ buf_head_index' + Len(buf_dev') = wr_cur_ptr'
    BY <1>0, <1>3, <1>4, <1>5, <1>6, TypeFacts DEF RingInv
  <2>2. ASSUME NEW i \in 1 .. Len(buf_dev') PROVE buf_dev'[i] = accepted'[buf_head_index' + i]
    <3>1. CASE i <= Len(buf_dev)
      <4>1. i \in 1 .. Len(buf_dev) /\ buf_head_index \in Nat
        BY <3>1, <1>0, <1>4, <1>6, TypeFacts
      <4>2. buf_head_index + i \in 1 .. Len(accepted)
        BY <4>1, <1>0, <1>6 DEF RingInv
      <4>3. buf_dev'[i] = buf_dev[i] /\ accepted'[buf_head_index + i] = accepted[buf_head_index + i]
        BY <4>1, <4>2, <1>4, <1>5
      <4>4. buf_dev[i] = accepted[buf_head_index + i]
        BY <4>1, <1>0 DEF RingInv
      <4> QED
        BY <4>3, <4>4, <1>3
    <3>2. CASE i > Len(buf_dev)
      <4>1. i - Len(buf_dev) \in 1 .. n
        BY <3>2, <1>4, <1>6
      <4>2. buf_dev'[i] = data[i - Len(buf_dev)]
        BY <4>1, <1>4, <1>6
      <4>3. buf_head_index + i = Len(accepted) + (i - Len(buf_dev))
        BY <1>0, <1>4, <1>6, TypeFacts DEF RingInv
      <4> QED
        BY <4>1, <4>2, <4>3, <1>3, <1>5
    <3> QED
      BY <3>1, <3>2, <1>4, <1>6
  <2> QED
    BY <2>1, <2>2 DEF RingInv
<1>10. FrameInv'
  <2> SUFFICES ASSUME NEW f \in 1 .. Len(toDev)
               PROVE  /\ toDev[f].pos + Len(toDev[f].data) <= Len(accepted')
                      /\ \A i \in 1 .. Len(toDev[f].data) :
                           toDev[f].data[i] = accepted'[toDev[f].pos + i]
    BY <1>3 DEF FrameInv
  <2>1. /\ toDev[f].pos + Len(toDev[f].data) <= Len(accepted)
        /\ \A i \in 1 .. Len(toDev[f].data) :
             toDev[f].data[i] = accepted[toDev[f].pos + i]
    BY <1>0 DEF FrameInv
  <2>2. toDev[f].pos \in Nat /\ Len(toDev[f].data) \in Nat
    BY <1>0, TypeFacts
  <2>3. toDev[f].pos + Len(toDev[f].data) <= Len(accepted')
    BY <2>1, <2>2, <1>5, <1>6
  <2>4. ASSUME NEW i \in 1 .. Len(toDev[f].data)
        PROVE  toDev[f].data[i] = accepted'[toDev[f].pos + i]
    <3>1. toDev[f].pos + i \in 1 .. Len(accepted)
      BY <2>1, <2>2, <1>6
    <3> QED
      BY <3>1, <2>1, <1>5
  <2> QED
    BY <2>3, <2>4
<1>11. AckInv'
  BY <1>0, <1>3 DEF AckInv
<1>12. WriteInv' /\ NoOverdueWrite'
  <2> DEFINE w == [wr_init |-> wr_cur_ptr, wr_max |-> wr_cur_ptr + n]
             l == Len(sock_wr_list)
  <2>1. sock_wr_list \in Seq(Write) /\ l \in Nat /\ wr_cur_ptr \in Nat /\ w \in Write
    <3>1. sock_wr_list \in Seq(Write) /\ l \in Nat /\ wr_cur_ptr \in Nat
      BY <1>0, TypeFacts
    <3>2. wr_cur_ptr + n \in Nat
      BY <3>1, <1>6
    <3> QED
      BY <3>1, <3>2 DEF Write
  <2>2. /\ Len(sock_wr_list') = l + 1
        /\ \A i \in 1 .. l : sock_wr_list'[i] = sock_wr_list[i]
        /\ sock_wr_list'[l + 1] = w
    BY <1>3, <2>1
  <2>3. w.wr_init = wr_cur_ptr /\ w.wr_max = wr_cur_ptr + n
    OBVIOUS
  <2>4. \A i \in 1 .. l : sock_wr_list[i].wr_max \in Nat /\ sock_wr_list[i].wr_init \in Nat
    BY <1>0, TypeFacts
  <2>5. \A i \in 1 .. l : sock_wr_list[i].wr_max <= wr_cur_ptr
    <3> SUFFICES ASSUME NEW i \in 1 .. l PROVE sock_wr_list[i].wr_max <= wr_cur_ptr
      OBVIOUS
    <3>0. sock_wr_list /= <<>>
      BY <2>1
    <3>1. sock_wr_list[l].wr_max = wr_cur_ptr
      BY <1>0, <2>1, <3>0 DEF WriteInv
    <3>2. CASE i = l
      BY <3>1, <3>2, <2>1
    <3>3. CASE i < l
      <4>1. l \in 1 .. l
        BY <2>1
      <4>2. sock_wr_list[i].wr_max <= sock_wr_list[l].wr_init
        BY <1>0, <3>3, <4>1 DEF WriteInv
      <4>3. sock_wr_list[l].wr_init <= sock_wr_list[l].wr_max
        BY <1>0, <4>1 DEF WriteInv
      <4> QED
        BY <4>1, <4>2, <4>3, <3>1, <2>4, <2>1
    <3> QED
      BY <3>2, <3>3, <2>1
  <2>6. buf_head_index <= wr_cur_ptr /\ (n = 0 => buf_head_index < wr_cur_ptr)
    BY <1>0, <1>2, <1>6, TypeFacts DEF RingInv
  <2>7. Completed' = Completed
    <3>1. CASE sock_wr_list = <<>>
      BY <3>1, <2>2, <2>3, <1>3 DEF Completed
    <3>2. CASE sock_wr_list /= <<>>
      <4>1. 1 \in 1 .. l
        BY <3>2, <2>1
      <4>2. sock_wr_list' /= <<>>
        BY <2>2, <2>1
      <4> QED
        BY <4>1, <4>2, <3>2, <2>2 DEF Completed
    <3> QED
      BY <3>1, <3>2
  <2> HIDE DEF w, l
  <2>8. Completed' <= buf_head_index'
    BY <1>0, <2>7, <1>3 DEF WriteInv
  <2>9. \A i \in 1 .. l + 1 : sock_wr_list'[i].wr_init <= sock_wr_list'[i].wr_max
    <3> SUFFICES ASSUME NEW i \in 1 .. l + 1
                 PROVE  sock_wr_list'[i].wr_init <= sock_wr_list'[i].wr_max
      OBVIOUS
    <3>1. CASE i = l + 1
      BY <3>1, <2>1, <2>2, <2>3, <1>6
    <3>2. CASE i <= l
      BY <3>2, <1>0, <2>1, <2>2 DEF WriteInv, l
    <3> QED
      BY <3>1, <3>2, <2>1
  <2>10. \A i \in 1 .. l : sock_wr_list'[i + 1].wr_init = sock_wr_list'[i].wr_max
    <3> SUFFICES ASSUME NEW i \in 1 .. l
                 PROVE  sock_wr_list'[i + 1].wr_init = sock_wr_list'[i].wr_max
      OBVIOUS
    <3>0. sock_wr_list /= <<>>
      BY <2>1 DEF l
    <3>1. CASE i = l
      BY <3>1, <3>0, <1>0, <2>1, <2>2, <2>3 DEF WriteInv, l
    <3>2. CASE i < l
      BY <3>2, <1>0, <2>1, <2>2 DEF WriteInv, l
    <3> QED
      BY <3>1, <3>2, <2>1
  <2>11. \A i, j \in 1 .. l + 1 :
           i < j => sock_wr_list'[i].wr_max <= sock_wr_list'[j].wr_init
    <3> SUFFICES ASSUME NEW i \in 1 .. l + 1, NEW j \in 1 .. l + 1, i < j
                 PROVE  sock_wr_list'[i].wr_max <= sock_wr_list'[j].wr_init
      OBVIOUS
    <3>1. CASE j = l + 1
      BY <3>1, <2>1, <2>2, <2>3, <2>5
    <3>2. CASE j <= l
      BY <3>2, <1>0, <2>1, <2>2 DEF WriteInv, l
    <3> QED
      BY <3>1, <3>2, <2>1
  <2>12. sock_wr_list'[Len(sock_wr_list')].wr_max = wr_cur_ptr'
    BY <2>2, <2>3, <1>3
  <2>13. NoOverdueWrite'
    <3>0. DOMAIN sock_wr_list' = 1 .. l + 1
      <4>1. sock_wr_list' \in Seq(Write)
        BY <1>7 DEF TypeOK
      <4> QED
        BY <4>1, <2>2
    <3> SUFFICES ASSUME NEW i \in 1 .. l + 1 PROVE buf_head_index < sock_wr_list'[i].wr_max
      BY <1>3, <2>2, <3>0 DEF NoOverdueWrite
    <3>1. CASE i = l + 1
      BY <3>1, <1>0, <2>1, <2>2, <2>3, <2>6, <1>6, TypeFacts
    <3>2. CASE i <= l
      BY <3>2, <1>0, <2>1, <2>2 DEF NoOverdueWrite, l
    <3> QED
      BY <3>1, <3>2, <2>1
  <2> QED
    BY <2>1, <2>2, <2>8, <2>9, <2>10, <2>11, <2>12, <2>13 DEF WriteInv
<1> QED
  BY <1>7, <1>8, <1>9, <1>10, <1>11, <1>12 DEF IInv

(* The steps that only move the send thread, set the limit or change       *)
(* sock_sta and the write position leave everything the invariant relates. *)
LEMMA QuietIInv ==
  ASSUME IInv,
         sock_sta' \in SockSta, sendpc' \in {"scan", "make"},
         buf_dev_limit' \in Nat, buf_wr_index' \in Nat,
         UNCHANGED <<link, ringVars, writeVars, toDev, fromDev, devVars>>
  PROVE  IInv'
<1> USE DEF ringVars, writeVars, devVars
<1>0. /\ TypeOK /\ StreamIntegrity /\ NoOverdueWrite
      /\ RingInv /\ FrameInv /\ AckInv /\ WriteInv
  BY DEF IInv
<1>1. TypeOK'
  BY <1>0 DEF TypeOK
<1>2. StreamIntegrity' /\ NoOverdueWrite'
  BY <1>0 DEF StreamIntegrity, NoOverdueWrite
<1>3. RingInv' /\ FrameInv' /\ AckInv'
  BY <1>0 DEF RingInv, FrameInv, AckInv
<1>4. WriteInv'
  BY <1>0 DEF WriteInv, Completed
<1> QED
  BY <1>1, <1>2, <1>3, <1>4 DEF IInv

(* The packet made carries accepted bytes: what the ring holds from the    *)
(* write position on.                                                      *)
LEMMA PackMakeIInv ==
  ASSUME IInv, PackMake
  PROVE  IInv'
<1> DEFINE data == Unsent(MaxPayload)
           frame == [pos |-> buf_wr_index, data |-> data]
<1>0. /\ TypeOK /\ StreamIntegrity /\ NoOverdueWrite
      /\ RingInv /\ FrameInv /\ AckInv /\ WriteInv
  BY DEF IInv
<1>1. CASE /\ sock_sta' = "wait_usb_data"
           /\ UNCHANGED <<buf_wr_index, toDev>>
  <2>1. /\ sendpc' \in {"scan", "make"}
        /\ UNCHANGED <<buf_dev_limit, link, ringVars, writeVars, fromDev, devVars>>
    BY DEF PackMake
  <2>2. buf_dev_limit \in Nat /\ buf_wr_index \in Nat
    BY <1>0, TypeFacts
  <2> QED
    BY <1>1, <2>1, <2>2, QuietIInv DEF SockSta
<1>2. CASE /\ sock_sta = "can_send_data" /\ data /= <<>>
           /\ toDev' = Append(toDev, frame)
           /\ buf_wr_index' = buf_wr_index + Len(data)
           /\ UNCHANGED sock_sta
  <2>1. /\ sendpc' \in {"scan", "make"}
        /\ UNCHANGED <<sock_sta, buf_dev_limit, link, ringVars, writeVars, fromDev, devVars>>
    BY <1>2 DEF PackMake
  <2>2. /\ data \in Seq(Byte)
        /\ buf_wr_index - buf_head_index >= 0
        /\ buf_wr_index - buf_head_index + Len(data) <= Len(buf_dev)
        /\ \A i \in 1 .. Len(data) :
             data[i] = buf_dev[buf_wr_index - buf_head_index + i]
    <3>1. buf_dev \in Seq(Byte) /\ buf_wr_index - buf_head_index \in Int
      BY <1>0, TypeFacts
    <3>2. MaxPayload \in Nat
      BY SizesAssumption
    <3> QED
      BY <3>1, <3>2, <1>2, PeekedFacts DEF Unsent
  <2> HIDE DEF data
  <2>3. frame.pos = buf_wr_index /\ frame.data = data /\ frame \in Frame
    BY <1>0, <2>2, TypeFacts DEF Frame
  <2> HIDE DEF frame
  <2>4. Len(data) \in Nat
    BY <2>2
  <2>5. TypeOK'
    <3>1. toDev' \in Seq(Frame)
      BY <1>0, <1>2, <2>3, TypeFacts
    <3>2. buf_wr_index' \in Nat
      BY <1>0, <1>2, <2>4, TypeFacts
    <3> QED
      BY <3>1, <3>2, <1>0, <2>1 DEF TypeOK, ringVars, writeVars, devVars
  <2>6. FrameInv'
    <3>1. /\ Len(toDev') = Len(toDev) + 1 /\ Len(toDev) \in Nat
          /\ \A f \in 1 .. Len(toDev) : toDev'[f] = toDev[f]
          /\ toDev'[Len(toDev) + 1] = frame
      BY <1>0, <1>2, <2>3, TypeFacts
    <3> SUFFICES ASSUME NEW f \in 1 .. Len(toDev) + 1
                 PROVE  /\ toDev'[f].pos + Len(toDev'[f].data) <= Len(accepted)
                        /\ \A i \in 1 .. Len(toDev'[f].data) :
                             toDev'[f].data[i] = accepted[toDev'[f].pos + i]
      BY <3>1, <2>1 DEF FrameInv, ringVars
    <3>2. CASE f <= Len(toDev)
      BY <3>1, <3>2, <1>0 DEF FrameInv
    <3>3. CASE f = Len(toDev) + 1
      <4>1. /\ buf_head_index \in Nat /\ buf_wr_index \in Nat /\ Len(buf_dev) \in Nat
            /\ Len(accepted) \in Nat /\ buf_head_index + Len(buf_dev) = Len(accepted)
        BY <1>0, TypeFacts DEF RingInv
      <4>2. buf_wr_index + Len(data) <= Len(accepted)
        BY <4>1, <2>2, <2>4
      <4>3. ASSUME NEW i \in 1 .. Len(data) PROVE data[i] = accepted[buf_wr_index + i]
        <5>1. buf_wr_index - buf_head_index + i \in 1 .. Len(buf_dev)
          BY <4>1, <2>2, <2>4
        <5>2. buf_head_index + (buf_wr_index - buf_head_index + i) = buf_wr_index + i
          BY <4>1, <2>4
        <5>3. buf_dev[buf_wr_index - buf_head_index + i]
                = accepted[buf_head_index + (buf_wr_index - buf_head_index + i)]
          BY <5>1, <1>0 DEF RingInv
        <5> QED
          BY <5>2, <5>3, <2>2
      <4> QED
        BY <3>1, <3>3, <4>2, <4>3, <2>3
    <3> QED
      BY <3>1, <3>2, <3>3
  <2>7. StreamIntegrity' /\ NoOverdueWrite' /\ RingInv' /\ AckInv'
    BY <1>0, <2>1 DEF StreamIntegrity, NoOverdueWrite, RingInv, AckInv, ringVars,
                      writeVars, devVars
  <2>8. WriteInv'
    BY <1>0, <2>1 DEF WriteInv, Completed, ringVars, writeVars
  <2> QED
    BY <2>5, <2>6, <2>7, <2>8 DEF IInv
<1> QED
  BY <1>1, <1>2 DEF PackMake

LEMMA TailFacts ==
  ASSUME NEW S, NEW q \in Seq(S), q /= <<>>
  PROVE  /\ Tail(q) \in Seq(S)
         /\ Len(Tail(q)) = Len(q) - 1
         /\ \A i \in 1 .. Len(q) - 1 : Tail(q)[i] = q[i + 1]
         /\ Head(q) = q[1] /\ 1 \in 1 .. Len(q)
  OBVIOUS

(* Taking a reply off the queue keeps what is known of the others.         *)
LEMMA FromDevTail ==
  ASSUME TypeOK, AckInv, fromDev /= <<>>, fromDev' = Tail(fromDev),
         UNCHANGED devVars, buf_head_index' <= devSent
  PROVE  fromDev' \in Seq(Reply) /\ AckInv'
<1>1. fromDev \in Seq(Reply) /\ Len(fromDev) \in Nat
  BY TypeFacts
<1>2. /\ fromDev' \in Seq(Reply)
      /\ Len(fromDev') = Len(fromDev) - 1
      /\ \A i \in 1 .. Len(fromDev) - 1 : fromDev'[i] = fromDev[i + 1]
  BY <1>1, TailFacts
<1>3. ASSUME NEW r \in 1 .. Len(fromDev'), fromDev'[r].kind = "ack"
      PROVE  fromDev'[r].pos + fromDev'[r].sta <= devSent
  <2>1. r + 1 \in 1 .. Len(fromDev) /\ fromDev'[r] = fromDev[r + 1]
    BY <1>1, <1>2
  <2> QED
    BY <2>1, <1>3 DEF AckInv
<1> QED
  BY <1>2, <1>3 DEF AckInv, devVars

(* A reply that changes at most the write position and sock_sta, or is     *)
(* lost.                                                                   *)
LEMMA ReplyIInv ==
  ASSUME IInv, fromDev /= <<>>, fromDev' = Tail(fromDev),
         sock_sta' \in SockSta, buf_wr_index' \in Nat,
         UNCHANGED <<buf_dev_limit, link, sendpc, ringVars, writeVars, toDev, devVars>>
  PROVE  IInv'
<1>0. /\ TypeOK /\ StreamIntegrity /\ NoOverdueWrite
      /\ RingInv /\ FrameInv /\ AckInv /\ WriteInv
  BY DEF IInv
<1>1. fromDev' \in Seq(Reply) /\ AckInv'
  BY <1>0, FromDevTail DEF AckInv, ringVars
<1>2. TypeOK'
  BY <1>0, <1>1 DEF TypeOK, ringVars, writeVars, devVars
<1>3. StreamIntegrity' /\ NoOverdueWrite' /\ RingInv' /\ FrameInv'
  BY <1>0 DEF StreamIntegrity, NoOverdueWrite, RingInv, FrameInv, ringVars,
              writeVars, devVars
<1>4. WriteInv'
  BY <1>0 DEF WriteInv, Completed, ringVars, writeVars
<1> QED
  BY <1>1, <1>2, <1>3, <1>4 DEF IInv

(* A frame lost on the way to the device.                                  *)
LEMMA ToDevTail ==
  ASSUME TypeOK, FrameInv, toDev /= <<>>, toDev' = Tail(toDev), UNCHANGED accepted
  PROVE  toDev' \in Seq(Frame) /\ FrameInv'
<1>1. toDev \in Seq(Frame) /\ Len(toDev) \in Nat
  BY TypeFacts
<1>2. /\ toDev' \in Seq(Frame)
      /\ Len(toDev') = Len(toDev) - 1
      /\ \A i \in 1 .. Len(toDev) - 1 : toDev'[i] = toDev[i + 1]
  BY <1>1, TailFacts
<1>3. ASSUME NEW f \in 1 .. Len(toDev')
      PROVE  /\ toDev'[f].pos + Len(toDev'[f].data) <= Len(accepted)
             /\ \A i \in 1 .. Len(toDev'[f].data) :
                  toDev'[f].data[i] = accepted[toDev'[f].pos + i]
  <2>1. f + 1 \in 1 .. Len(toDev) /\ toDev'[f] = toDev[f + 1]
    BY <1>1, <1>2
  <2> QED
    BY <2>1 DEF FrameInv
<1> QED
  BY <1>2, <1>3 DEF FrameInv

LEMMA LoseToDevIInv ==
  ASSUME IInv, LoseToDev
  PROVE  IInv'
<1> USE DEF LoseToDev, ringVars, writeVars, devVars
<1>0. /\ TypeOK /\ StreamIntegrity /\ NoOverdueWrite
      /\ RingInv /\ FrameInv /\ AckInv /\ WriteInv
  BY DEF IInv
<1>1. toDev' \in Seq(Frame) /\ FrameInv'
  BY <1>0, ToDevTail
<1>2. TypeOK'
  BY <1>0, <1>1 DEF TypeOK
<1>3. StreamIntegrity' /\ NoOverdueWrite' /\ RingInv' /\ AckInv'
  BY <1>0 DEF StreamIntegrity, NoOverdueWrite, RingInv, AckInv
<1>4. WriteInv'
  BY <1>0 DEF WriteInv, Completed
<1> QED
  BY <1>1, <1>2, <1>3, <1>4 DEF IInv

(* The device transmits: it acknowledges what it just counted.             *)
LEMMA DevTransmitIInv ==
  ASSUME IInv, NEW n \in 1 .. DevCap, DevTransmit(n)
  PROVE  IInv'
<1> DEFINE reply == [kind |-> "ack", pos |-> devSent, sta |-> n]
<1>0. /\ TypeOK /\ StreamIntegrity /\ NoOverdueWrite
      /\ RingInv /\ FrameInv /\ AckInv /\ WriteInv
  BY DEF IInv
<1>1. /\ fromDev' = Append(fromDev, reply)
      /\ devSent' = devSent + n /\ devSent + n <= Len(devRcv)
      /\ UNCHANGED <<sock_sta, buf_dev_limit, link, buf_wr_index, ringVars, writeVars,
                     sendpc, toDev, devRcv>>
  BY DEF DevTransmit, Answer
<1>2. n \in Nat /\ devSent \in Nat /\ fromDev \in Seq(Reply) /\ Len(fromDev) \in Nat
  BY <1>0, TypeFacts, SizesAssumption
<1>3. reply \in Reply /\ reply.pos + reply.sta = devSent'
  BY <1>1, <1>2 DEF Reply
<1> HIDE DEF reply
<1>4. /\ fromDev' \in Seq(Reply) /\ Len(fromDev') = Len(fromDev) + 1
      /\ \A r \in 1 .. Len(fromDev) : fromDev'[r] = fromDev[r]
      /\ fromDev'[Len(fromDev) + 1] = reply
  BY <1>1, <1>2, <1>3
<1>5. TypeOK'
  BY <1>0, <1>1, <1>2, <1>4 DEF TypeOK, ringVars, writeVars
<1>6. AckInv'
  <2>1. /\ buf_head_index' <= devSent' /\ devSent' <= Len(devRcv')
        /\ Len(devRcv') - devSent' <= DevCap
    <3>1. /\ buf_head_index <= devSent /\ Len(devRcv) - devSent <= DevCap
          /\ buf_head_index' = buf_head_index /\ devRcv' = devRcv
      BY <1>0, <1>1 DEF AckInv, ringVars
    <3>2. Len(devRcv) \in Nat /\ buf_head_index \in Nat /\ DevCap \in Nat
      BY <1>0, TypeFacts, SizesAssumption
    <3> QED
      BY <3>1, <3>2, <1>1, <1>2
  <2>2. ASSUME NEW r \in 1 .. Len(fromDev) + 1, fromDev'[r].kind = "ack"
        PROVE  fromDev'[r].pos + fromDev'[r].sta <= devSent'
    <3>1. CASE r = Len(fromDev) + 1
      BY <3>1, <1>1, <1>2, <1>3, <1>4
    <3>2. CASE r <= Len(fromDev)
      <4>1. /\ r \in 1 .. Len(fromDev) /\ fromDev'[r] = fromDev[r]
            /\ fromDev[r].kind = "ack"
        BY <3>2, <2>2, <1>2, <1>4
      <4>2. fromDev[r].pos + fromDev[r].sta <= devSent
        BY <4>1, <1>0 DEF AckInv
      <4>3. fromDev[r].pos \in Nat /\ fromDev[r].sta \in Nat
        BY <4>1, <1>0, TypeFacts
      <4> QED
        BY <4>1, <4>2, <4>3, <1>1, <1>2
    <3> QED
      BY <3>1, <3>2, <1>2
  <2> QED
    BY <2>1, <2>2, <1>4 DEF AckInv
<1>7. StreamIntegrity' /\ NoOverdueWrite' /\ RingInv' /\ FrameInv'
  BY <1>0, <1>1 DEF StreamIntegrity, NoOverdueWrite, RingInv, FrameInv, ringVars, writeVars
<1>8. WriteInv'
  BY <1>0, <1>1 DEF WriteInv, Completed, ringVars, writeVars
<1> QED
  BY <1>5, <1>6, <1>7, <1>8 DEF IInv

(* The device takes the first n bytes of a frame at the position it        *)
(* expects (or nothing) and answers anything but an acknowledgement.       *)
LEMMA DevAnswerIInv ==
  ASSUME IInv, toDev /= <<>>, toDev' = Tail(toDev),
         NEW n \in 0 .. Len(Head(toDev).data),
         n = 0 \/ Head(toDev).pos = Len(devRcv),
         devRcv' = devRcv \o SubSeq(Head(toDev).data, 1, n),
         Len(devRcv) + n - devSent <= DevCap,
         NEW reply \in Reply, reply.kind /= "ack",
         fromDev' = Append(fromDev, reply),
         UNCHANGED <<sock_sta, buf_dev_limit, link, buf_wr_index, ringVars, writeVars,
                     sendpc, devSent>>
  PROVE  IInv'
<1> DEFINE data == Head(toDev).data
<1> USE DEF ringVars, writeVars
<1>0. /\ TypeOK /\ StreamIntegrity /\ NoOverdueWrite
      /\ RingInv /\ FrameInv /\ AckInv /\ WriteInv
  BY DEF IInv
<1>1. Head(toDev) = toDev[1] /\ 1 \in 1 .. Len(toDev)
  BY <1>0, TypeFacts, TailFacts
<1>2. /\ data \in Seq(Byte) /\ Len(data) \in Nat
      /\ Head(toDev).pos + Len(data) <= Len(accepted)
      /\ \A i \in 1 .. Len(data) : data[i] = accepted[Head(toDev).pos + i]
  BY <1>0, <1>1, TypeFacts DEF FrameInv
<1> HIDE DEF data
<1>3. /\ SubSeq(data, 1, n) \in Seq(Byte)
      /\ Len(SubSeq(data, 1, n)) = n
      /\ \A i \in 1 .. n : SubSeq(data, 1, n)[i] = data[i]
  BY <1>2 DEF data
<1>4. devRcv \in Seq(Byte) /\ Len(devRcv) \in Nat /\ n \in Nat /\ n <= Len(data)
  BY <1>0, <1>2, TypeFacts DEF data
<1>5. /\ devRcv' \in Seq(Byte)
      /\ Len(devRcv') = Len(devRcv) + n
      /\ \A i \in 1 .. Len(devRcv) : devRcv'[i] = devRcv[i]
      /\ \A i \in 1 .. n : devRcv'[Len(devRcv) + i] = SubSeq(data, 1, n)[i]
  BY <1>3, <1>4 DEF data
<1>6. toDev' \in Seq(Frame) /\ FrameInv'
  BY <1>0, ToDevTail
<1>7. fromDev \in Seq(Reply) /\ Len(fromDev) \in Nat
  BY <1>0, TypeFacts
<1>8. /\ fromDev' \in Seq(Reply) /\ Len(fromDev') = Len(fromDev) + 1
      /\ \A r \in 1 .. Len(fromDev) : fromDev'[r] = fromDev[r]
      /\ fromDev'[Len(fromDev) + 1] = reply
  BY <1>7
<1>9. TypeOK'
  BY <1>0, <1>5, <1>6, <1>8 DEF TypeOK
<1>10. StreamIntegrity'
  <2>1. Len(devRcv) <= Len(accepted) /\ \A i \in 1 .. Len(devRcv) : devRcv[i] = accepted[i]
    BY <1>0 DEF StreamIntegrity, Prefix
  <2>2. Len(accepted) \in Nat
    BY <1>0, TypeFacts
  <2>3. Len(devRcv') <= Len(accepted)
    BY <2>1, <2>2, <1>2, <1>4, <1>5
  <2>4. ASSUME NEW i \in 1 .. Len(devRcv') PROVE devRcv'[i] = accepted[i]
    <3>1. CASE i <= Len(devRcv)
      BY <3>1, <2>1, <1>4, <1>5
    <3>2. CASE i > Len(devRcv)
      <4>1. i - Len(devRcv) \in 1 .. n /\ Len(devRcv) + (i - Len(devRcv)) = i
        BY <3>2, <1>4, <1>5
      <4>2. devRcv'[i] = data[i - Len(devRcv)]
        BY <4>1, <1>3, <1>5
      <4>3. i - Len(devRcv) \in 1 .. Len(data) /\ n /= 0
        BY <4>1, <1>4, <1>2
      <4>4. data[i - Len(devRcv)] = accepted[Head(toDev).pos + (i - Len(devRcv))]
        BY <4>3, <1>2
      <4> QED
        BY <4>1, <4>2, <4>3, <4>4
    <3> QED
      BY <3>1, <3>2, <1>4, <1>5
  <2> QED
    BY <2>3, <2>4 DEF StreamIntegrity, Prefix
<1>11. AckInv'
  <2>1. /\ buf_head_index <= devSent /\ devSent <= Len(devRcv)
        /\ \A r \in 1 .. Len(fromDev) :
             fromDev[r].kind = "ack" => fromDev[r].pos + fromDev[r].sta <= devSent
    BY <1>0 DEF AckInv
  <2>2. devSent \in Nat
    BY <1>0, TypeFacts
  <2>3. /\ buf_head_index' <= devSent' /\ devSent' <= Len(devRcv')
        /\ Len(devRcv') - devSent' <= DevCap
    BY <2>1, <2>2, <1>4, <1>5
  <2>4. ASSUME NEW r \in 1 .. Len(fromDev) + 1, fromDev'[r].kind = "ack"
        PROVE  fromDev'[r].pos + fromDev'[r].sta <= devSent
    <3>1. r /= Len(fromDev) + 1
      BY <2>4, <1>8
    <3>2. r \in 1 .. Len(fromDev) /\ fromDev'[r] = fromDev[r]
      BY <3>1, <1>7, <1>8
    <3> QED
      BY <3>2, <2>1, <2>4
  <2> QED
    BY <2>3, <2>4, <1>8 DEF AckInv
<1>12. NoOverdueWrite' /\ RingInv'
  BY <1>0 DEF NoOverdueWrite, RingInv
<1>13. WriteInv'
  BY <1>0 DEF WriteInv, Completed
<1> QED
  BY <1>6, <1>9, <1>10, <1>11, <1>12, <1>13 DEF IInv

LEMMA DevReceiveIInv ==
  ASSUME IInv, DevReceive
  PROVE  IInv'
<1> DEFINE data == Head(toDev).data
           room == DevCap - (Len(devRcv) - devSent)
           next == Len(devRcv)
<1>0. TypeOK /\ AckInv
  BY DEF IInv
<1>1. /\ toDev /= <<>> /\ toDev' = Tail(toDev)
      /\ UNCHANGED <<sock_sta, buf_dev_limit, link, buf_wr_index, ringVars, writeVars,
                     sendpc>>
  BY DEF DevReceive
<1>2. /\ next \in Nat /\ devSent \in Nat /\ DevCap \in Nat /\ room \in Nat
      /\ devRcv \in Seq(Byte)
  BY <1>0, TypeFacts, SizesAssumption DEF AckInv
<1>3. Head(toDev).pos \in Nat /\ data \in Seq(Byte) /\ Len(data) \in Nat
  <2>1. Head(toDev) = toDev[1] /\ 1 \in 1 .. Len(toDev)
    BY <1>0, <1>1, TypeFacts, TailFacts
  <2> QED
    BY <2>1, <1>0, TypeFacts
<1>4. CASE /\ Head(toDev).pos = next /\ Len(data) <= room
           /\ DevTakes(Head(toDev), Len(data))
           /\ Answer([kind |-> "ok", pos |-> next])
  <2>1. [kind |-> "ok", pos |-> next] \in Reply
    BY <1>2 DEF Reply
  <2>2. next + Len(data) - devSent <= DevCap /\ Len(data) \in 0 .. Len(data)
    BY <1>2, <1>3, <1>4
  <2> QED
    BY <1>1, <1>2, <1>4, <2>1, <2>2, DevAnswerIInv DEF DevTakes, Answer
<1>5. CASE /\ Head(toDev).pos = next /\ ~ (Len(data) <= room)
           /\ DevTakes(Head(toDev), room)
           /\ Answer([kind |-> "pending", pos |-> next + room])
  <2>1. [kind |-> "pending", pos |-> next + room] \in Reply
    BY <1>2 DEF Reply
  <2>2. next + room - devSent <= DevCap /\ room \in 0 .. Len(data)
    BY <1>2, <1>3, <1>5
  <2> HIDE DEF room
  <2> QED
    BY <1>1, <1>2, <1>5, <2>1, <2>2, DevAnswerIInv DEF DevTakes, Answer
<1>6. CASE /\ Answer([kind |-> "poserr", pos |-> Head(toDev).pos])
           /\ UNCHANGED devVars
  <2>1. [kind |-> "poserr", pos |-> Head(toDev).pos] \in Reply
    BY <1>3 DEF Reply
  <2>2. devRcv' = devRcv \o SubSeq(data, 1, 0) /\ UNCHANGED devSent
    <3>1. SubSeq(data, 1, 0) = <<>>
      BY <1>3
    <3>2. devRcv \o <<>> = devRcv
      BY <1>2
    <3> QED
      BY <3>1, <3>2, <1>6 DEF devVars
  <2>3. next + 0 - devSent <= DevCap /\ 0 \in 0 .. Len(data)
    BY <1>2, <1>3
  <2> QED
    BY <1>1, <1>2, <1>6, <2>1, <2>2, <2>3, DevAnswerIInv DEF Answer
<1> QED
  BY <1>4, <1>5, <1>6 DEF DevReceive

(* Reporting the first k writes moves Completed from the start of the      *)
(* first outstanding write to the start of the next one.                   *)
LEMMA ReportIInv ==
  ASSUME TypeOK, WriteInv,
         buf_head_index' \in Nat, buf_head_index <= buf_head_index',
         NEW k \in 0 .. Len(sock_wr_list), CompletedWrites(k, buf_head_index'),
         sock_wr_list' = SubSeq(sock_wr_list, k + 1, Len(sock_wr_list)),
         UNCHANGED wr_cur_ptr
  PROVE  /\ sock_wr_list' \in Seq(Write)
         /\ WriteInv' /\ NoOverdueWrite'
         /\ Completed <= Completed'
<1> DEFINE l == Len(sock_wr_list)
<1>1. /\ sock_wr_list \in Seq(Write) /\ l \in Nat /\ wr_cur_ptr \in Nat
      /\ buf_head_index \in Nat
      /\ \A i \in 1 .. l : sock_wr_list[i].wr_init \in Nat /\ sock_wr_list[i].wr_max \in Nat
  BY TypeFacts
<1>2. /\ \A i \in 1 .. k : sock_wr_list[i].wr_max <= buf_head_index'
      /\ k < l => buf_head_index' < sock_wr_list[k + 1].wr_max
  BY DEF CompletedWrites
<1>3. /\ Completed <= buf_head_index
      /\ \A i \in 1 .. l : sock_wr_list[i].wr_init <= sock_wr_list[i].wr_max
      /\ \A i \in 1 .. l - 1 : sock_wr_list[i + 1].wr_init = sock_wr_list[i].wr_max
      /\ \A i, j \in 1 .. l : i < j => sock_wr_list[i].wr_max <= sock_wr_list[j].wr_init
      /\ sock_wr_list /= <<>> => sock_wr_list[l].wr_max = wr_cur_ptr
  BY DEF WriteInv
<1> HIDE DEF l
<1>4. /\ sock_wr_list' \in Seq(Write)
      /\ Len(sock_wr_list') = l - k
      /\ \A i \in 1 .. l - k : sock_wr_list'[i] = sock_wr_list[i + k]
  BY <1>1 DEF l
<1>5. k \in Nat /\ k <= l
  BY <1>1 DEF l
<1>6. \A i \in 1 .. l - k : i + k \in 1 .. l
  BY <1>1, <1>5
<1>7. Completed' <= buf_head_index' /\ Completed <= Completed'
  <2>1. CASE k = 0
    <3>1. sock_wr_list' = sock_wr_list
      BY <2>1, <1>1
    <3> QED
      BY <3>1, <1>1, <1>3 DEF Completed, l
  <2>2. CASE k > 0
    <3>1. k \in 1 .. l /\ 1 \in 1 .. l /\ sock_wr_list /= <<>>
      BY <2>2, <1>1, <1>5 DEF l
    <3>2. Completed = sock_wr_list[1].wr_init
      BY <3>1 DEF Completed
    <3>3. sock_wr_list[1].wr_init <= sock_wr_list[k].wr_max
      <4>1. CASE k = 1
        BY <4>1, <3>1, <1>3
      <4>2. CASE k > 1
        <5>1. /\ sock_wr_list[1].wr_init <= sock_wr_list[1].wr_max
              /\ sock_wr_list[1].wr_max <= sock_wr_list[k].wr_init
              /\ sock_wr_list[k].wr_init <= sock_wr_list[k].wr_max
          BY <4>2, <3>1, <1>3
        <5> QED
          BY <5>1, <3>1, <1>1
      <4> QED
        BY <4>1, <4>2, <2>2, <1>5
    <3>4. Completed' = sock_wr_list[k].wr_max
      <4>1. CASE k = l
        <5>1. sock_wr_list' = <<>>
          BY <4>1, <1>1, <1>4
        <5> QED
          BY <5>1, <4>1, <3>1, <1>3 DEF Completed
      <4>2. CASE k < l
        <5>1. k \in 1 .. l - 1 /\ 1 \in 1 .. l - k
          BY <4>2, <3>1, <1>1
        <5>3. sock_wr_list' /= <<>>
          BY <5>1, <1>4
        <5>2. sock_wr_list'[1] = sock_wr_list[k + 1]
          BY <5>1, <1>4, <1>5
        <5> QED
          BY <5>1, <5>2, <5>3, <1>3 DEF Completed
      <4> QED
        BY <4>1, <4>2, <1>1, <1>5
    <3> QED
      BY <3>1, <3>2, <3>3, <3>4, <1>2
  <2> QED
    BY <2>1, <2>2, <1>5
<1>8. \A i \in 1 .. l - k : sock_wr_list'[i].wr_init <= sock_wr_list'[i].wr_max
  BY <1>3, <1>4, <1>6
<1>9. ASSUME NEW i \in 1 .. (l - k) - 1
      PROVE  sock_wr_list'[i + 1].wr_init = sock_wr_list'[i].wr_max
  <2>1. i + k \in 1 .. l - 1 /\ i \in 1 .. l - k /\ i + 1 \in 1 .. l - k
    BY <1>1, <1>5
  <2>2. sock_wr_list'[i + 1] = sock_wr_list[(i + k) + 1] /\ sock_wr_list'[i] = sock_wr_list[i + k]
    <3>1. (i + 1) + k = (i + k) + 1
      BY <1>5
    <3> QED
      BY <3>1, <2>1, <1>4
  <2> QED
    BY <2>1, <2>2, <1>3
<1>10. ASSUME NEW i \in 1 .. l - k, NEW j \in 1 .. l - k, i < j
       PROVE  sock_wr_list'[i].wr_max <= sock_wr_list'[j].wr_init
  <2>1. i + k \in 1 .. l /\ j + k \in 1 .. l /\ i + k < j + k
    BY <1>6, <1>5, <1>10
  <2> QED
    BY <2>1, <1>3, <1>4
<1>11. sock_wr_list' /= <<>> => sock_wr_list'[l - k].wr_max = wr_cur_ptr
  <2> SUFFICES ASSUME sock_wr_list' /= <<>> PROVE sock_wr_list'[l - k].wr_max = wr_cur_ptr
    OBVIOUS
  <2>1. l - k \in 1 .. l - k /\ (l - k) + k = l /\ l > 0
    BY <1>1, <1>4, <1>5
  <2>2. sock_wr_list'[l - k] = sock_wr_list[(l - k) + k]
    BY <2>1, <1>4
  <2>3. sock_wr_list /= <<>>
    BY <2>1 DEF l
  <2> QED
    BY <2>1, <2>2, <2>3, <1>3
<1>12. NoOverdueWrite'
  <2> SUFFICES ASSUME NEW i \in 1 .. l - k PROVE buf_head_index' < sock_wr_list'[i].wr_max
    BY <1>4 DEF NoOverdueWrite
  <2>1. /\ i + k \in 1 .. l /\ k + 1 \in 1 .. l /\ k < l
        /\ sock_wr_list'[i] = sock_wr_list[i + k]
    BY <1>1, <1>4, <1>5, <1>6
  <2>2. CASE i = 1
    <3>1. i + k = k + 1
      BY <2>2, <1>5
    <3>2. sock_wr_list'[i] = sock_wr_list[k + 1]
      BY <2>1, <3>1
    <3> QED
      BY <2>1, <3>2, <1>2
  <2>3. CASE i > 1
    <3>1. k + 1 < i + k
      BY <2>3, <1>5
    <3>2. /\ sock_wr_list[k + 1].wr_max <= sock_wr_list[i + k].wr_init
          /\ sock_wr_list[i + k].wr_init <= sock_wr_list[i + k].wr_max
      BY <3>1, <2>1, <1>3
    <3>3. buf_head_index' < sock_wr_list[k + 1].wr_max
      BY <2>1, <1>2
    <3>4. /\ sock_wr_list[k + 1].wr_max \in Nat /\ sock_wr_list[i + k].wr_init \in Nat
          /\ sock_wr_list[i + k].wr_max \in Nat
      BY <2>1, <1>1
    <3>5. buf_head_index' < sock_wr_list[i + k].wr_max
      BY <3>2, <3>3, <3>4
    <3> QED
      BY <3>5, <2>1
  <2>4. i = 1 \/ i > 1
    <3>1. l - k \in Int
      BY <1>1, <1>5
    <3> QED
      BY <3>1
  <2> QED
    BY <2>2, <2>3, <2>4
<1> QED
  BY <1>4, <1>7, <1>8, <1>9, <1>10, <1>11, <1>12 DEF WriteInv

(* An acknowledgement removes from the ring exactly the bytes below its    *)
(* end, or nothing.                                                        *)
LEMMA RecvAckStep ==
  ASSUME IInv, RecvAck
  PROVE  IInv' /\ Completed <= Completed'
<1> DEFINE end == Head(fromDev).pos + Head(fromDev).sta
<1>0. /\ TypeOK /\ StreamIntegrity /\ NoOverdueWrite
      /\ RingInv /\ FrameInv /\ AckInv /\ WriteInv
  BY DEF IInv
<1>1. /\ fromDev /= <<>> /\ Head(fromDev).kind = "ack" /\ fromDev' = Tail(fromDev)
      /\ sock_sta' = "can_send_data"
      /\ UNCHANGED <<accepted, wr_cur_ptr, buf_dev_limit, link, buf_wr_index, sendpc,
                     toDev, devVars>>
  BY DEF RecvAck
<1>2. /\ end \in Nat /\ end <= devSent
  <2>1. Head(fromDev) = fromDev[1] /\ 1 \in 1 .. Len(fromDev)
    BY <1>0, <1>1, TypeFacts, TailFacts
  <2>2. fromDev[1].pos \in Nat /\ fromDev[1].sta \in Nat
    BY <1>0, <1>1, <2>1, TypeFacts
  <2> QED
    BY <1>0, <1>1, <2>1, <2>2 DEF AckInv
<1>3. PICK k \in 0 .. Len(sock_wr_list) :
        /\ CompletedWrites(k, buf_head_index')
        /\ sock_wr_list' = SubSeq(sock_wr_list, k + 1, Len(sock_wr_list))
  BY DEF RecvAck
<1>4. \/ UNCHANGED <<buf_dev, buf_head_index>>
      \/ /\ buf_head_index <= end
         /\ buf_dev' = Dropped(buf_dev, end - buf_head_index)
         /\ buf_head_index' = end
  <2>1. buf_head_index \in Nat /\ buf_wr_index \in Nat
    BY <1>0, TypeFacts
  <2>2. CASE end < buf_head_index \/ end > buf_wr_index
    BY <2>2 DEF RecvAck
  <2>3. CASE ~ (end < buf_head_index \/ end > buf_wr_index)
    <3>1. buf_head_index <= end
      BY <2>1, <2>3, <1>2
    <3> QED
      BY <2>3, <3>1 DEF RecvAck
  <2> QED
    BY <2>2, <2>3
<1> HIDE DEF end
<1>5. /\ buf_head_index' \in Nat /\ buf_head_index <= buf_head_index'
      /\ buf_head_index' <= devSent
      /\ buf_dev' \in Seq(Byte) /\ Len(buf_dev') <= BufSize
      /\ RingInv'
  <2>1. /\ buf_head_index \in Nat /\ Len(buf_dev) \in Nat /\ wr_cur_ptr \in Nat
        /\ Len(accepted) \in Nat /\ Len(devRcv) \in Nat /\ devSent \in Nat
        /\ buf_dev \in Seq(Byte) /\ Len(buf_dev) <= BufSize /\ BufSize \in Nat
    BY <1>0, TypeFacts, SizesAssumption
  <2>2. /\ buf_head_index <= devSent /\ devSent <= Len(devRcv)
        /\ Len(devRcv) <= Len(accepted) /\ Len(accepted) = wr_cur_ptr
        /\ buf_head_index + Len(buf_dev) = wr_cur_ptr
        /\ \A i \in 1 .. Len(buf_dev) : buf_dev[i] = accepted[buf_head_index + i]
    BY <1>0 DEF AckInv, StreamIntegrity, Prefix, RingInv
  <2>3. CASE UNCHANGED <<buf_dev, buf_head_index>>
    BY <2>1, <2>2, <2>3, <1>1 DEF RingInv
  <2>4. CASE /\ buf_head_index <= end
             /\ buf_dev' = Dropped(buf_dev, end - buf_head_index)
             /\ buf_head_index' = end
    <3> DEFINE d == end - buf_head_index
    <3>1. d \in 0 .. Len(buf_dev)
      BY <2>1, <2>2, <2>4, <1>2
    <3>2. buf_dev' = Dropped(buf_dev, d) /\ end = buf_head_index + d
      BY <2>1, <2>4, <1>2
    <3> HIDE DEF d
    <3>3. /\ buf_dev' \in Seq(Byte)
          /\ Len(buf_dev') = Len(buf_dev) - d
          /\ \A i \in 1 .. Len(buf_dev) - d : buf_dev'[i] = buf_dev[d + i]
      BY <2>1, <3>1, <3>2, DroppedFacts
    <3>4. /\ Len(accepted') = wr_cur_ptr'
          /\ buf_head_index' + Len(buf_dev') = wr_cur_ptr'
      <4>1. accepted' = accepted /\ wr_cur_ptr' = wr_cur_ptr
        BY <1>1
      <4>2. buf_head_index + d + (Len(buf_dev) - d) = buf_head_index + Len(buf_dev)
        BY <2>1, <3>1
      <4>3. buf_head_index' + Len(buf_dev') = wr_cur_ptr
        BY <2>2, <2>4, <3>2, <3>3, <4>2
      <4> QED
        BY <2>2, <4>1, <4>3
    <3>5. ASSUME NEW i \in 1 .. Len(buf_dev')
          PROVE  buf_dev'[i] = accepted'[buf_head_index' + i]
      <4>1. d + i \in 1 .. Len(buf_dev) /\ buf_head_index + (d + i) = end + i
        BY <2>1, <3>1, <3>2, <3>3
      <4>2. buf_dev'[i] = buf_dev[d + i]
        BY <2>1, <3>1, <3>3
      <4> QED
        BY <4>1, <4>2, <2>2, <2>4, <1>1
    <3>6. Len(buf_dev') <= BufSize
      BY <2>1, <3>1, <3>3
    <3> QED
      BY <2>4, <3>3, <3>4, <3>5, <3>6, <1>2 DEF RingInv
  <2> QED
    BY <2>3, <2>4, <1>4
<1>6. /\ sock_wr_list' \in Seq(Write) /\ WriteInv' /\ NoOverdueWrite'
      /\ Completed <= Completed'
  BY <1>0, <1>1, <1>3, <1>5, ReportIInv
<1>7. fromDev' \in Seq(Reply) /\ AckInv'
  BY <1>0, <1>1, <1>5, FromDevTail
<1>8. TypeOK'
  BY <1>0, <1>1, <1>5, <1>6, <1>7 DEF TypeOK, SockSta, devVars
<1>9. StreamIntegrity' /\ FrameInv'
  BY <1>0, <1>1 DEF StreamIntegrity, FrameInv, devVars
<1> QED
  BY <1>5, <1>6, <1>7, <1>8, <1>9 DEF IInv

-----------------------------------------------------------------------------
(* Theorems.                                                               *)

(* Every step of the daemon, the device and the link keeps IInv.           *)
THEOREM Inductive == IInv /\ [Next]_vars => IInv'
<1> SUFFICES ASSUME IInv, [Next]_vars PROVE IInv'
  OBVIOUS
<1>0. TypeOK
  BY DEF IInv
<1>1. ASSUME NEW data \in Chunks, PushData(data) PROVE IInv'
  BY <1>1, PushDataIInv
<1>2. ASSUME NEW limit \in Limits, SetTxLimit(limit) PROVE IInv'
  <2>1. limit \in Nat
    BY SizesAssumption
  <2> QED
    BY <2>1, <1>0, <1>2, QuietIInv, TypeFacts DEF SetTxLimit
<1>3. CASE NeedWrite
  BY <1>0, <1>3, QuietIInv, TypeFacts DEF NeedWrite
<1>4. CASE PackMake
  BY <1>4, PackMakeIInv
<1>5. CASE RecvAck
  BY <1>5, RecvAckStep
<1>6. CASE RecvPending
  <2>1. Head(fromDev) = fromDev[1] /\ 1 \in 1 .. Len(fromDev)
    BY <1>0, <1>6, TypeFacts, TailFacts DEF RecvPending
  <2>2. Head(fromDev).pos \in Nat
    BY <2>1, <1>0, TypeFacts
  <2>3. sock_sta' \in SockSta
    BY <1>6 DEF RecvPending, SockSta
  <2> QED
    BY <2>2, <2>3, <1>6, ReplyIInv DEF RecvPending
<1>7. CASE RecvLogged
  BY <1>0, <1>7, ReplyIInv, TypeFacts DEF RecvLogged
<1>8. CASE DevReceive
  BY <1>8, DevReceiveIInv
<1>9. ASSUME NEW n \in 1 .. DevCap, DevTransmit(n) PROVE IInv'
  BY <1>9, DevTransmitIInv
<1>10. CASE LoseToDev
  BY <1>10, LoseToDevIInv
<1>11. CASE LoseFromDev
  BY <1>0, <1>11, ReplyIInv, TypeFacts DEF LoseFromDev
<1>12. CASE UNCHANGED vars
  BY <1>0, <1>12, QuietIInv, TypeFacts DEF vars
<1> QED
  BY <1>1, <1>2, <1>3, <1>4, <1>5, <1>6, <1>7, <1>8, <1>9, <1>10, <1>11, <1>12
     DEF Next, Recv, Transmit

(* The inductive invariant holds in every reachable state.                 *)
THEOREM Invariant == Spec => []IInv
  BY InitIInv, Inductive, PTL DEF Spec

(* The daemon's variables, the frames and the replies keep their types and *)
(* the ring never holds more than its size.                                *)
THEOREM TypeCorrect == Spec => []TypeOK
<1>1. IInv => TypeOK
  BY DEF IInv
<1> QED
  BY <1>1, Invariant, PTL

(* The device receives a prefix of what was written: rewinding, ring pops, *)
(* new writes and lost frames never skip, repeat or alter a byte.          *)
THEOREM StreamIntact == Spec => []StreamIntegrity
<1>1. IInv => StreamIntegrity
  BY DEF IInv
<1> QED
  BY <1>1, Invariant, PTL

LEMMA CompletedType == TypeOK => Completed \in Nat
<1> SUFFICES ASSUME TypeOK PROVE Completed \in Nat
  OBVIOUS
<1>1. CASE sock_wr_list = <<>>
  BY <1>1, TypeFacts DEF Completed
<1>2. CASE sock_wr_list /= <<>>
  <2>1. 1 \in 1 .. Len(sock_wr_list)
    BY <1>2, TypeFacts
  <2> QED
    BY <2>1, <1>2, TypeFacts DEF Completed
<1> QED
  BY <1>1, <1>2

(* A write is reported complete only after its bytes were transmitted, and *)
(* as soon as they are acknowledged.                                       *)
THEOREM CompletionExact == Spec => []CompletedExactly
<1>1. IInv => CompletedExactly
  <2> SUFFICES ASSUME IInv PROVE NoEarlyCompletion /\ NoOverdueWrite
    BY DEF CompletedExactly
  <2>1. TypeOK /\ AckInv /\ WriteInv /\ NoOverdueWrite
    BY DEF IInv
  <2>2. Completed \in Nat
    BY <2>1, CompletedType
  <2>3. Completed <= buf_head_index /\ buf_head_index <= devSent
    BY <2>1 DEF WriteInv, AckInv
  <2>4. buf_head_index \in Nat /\ devSent \in Nat
    BY <2>1, TypeFacts
  <2> QED
    BY <2>1, <2>2, <2>3, <2>4 DEF NoEarlyCompletion
<1> QED
  BY <1>1, Invariant, PTL

-----------------------------------------------------------------------------
(* The daemon implements the byte stream.                                  *)

(* A write extends the accepted stream and completes nothing.              *)
LEMMA PushDataStream ==
  ASSUME IInv, NEW data \in Chunks, PushData(data)
  PROVE  Prefix(accepted, accepted') /\ Completed' = Completed
<1> DEFINE n == Taken(buf_dev, BufSize, Len(data), buf_dev_limit)
           w == [wr_init |-> wr_cur_ptr, wr_max |-> wr_cur_ptr + n]
<1>0. TypeOK
  BY DEF IInv
<1>1. data \in Seq(Byte) /\ Len(data) \in Nat
  BY ChunksAssumption
<1>2. n \in 0 .. Len(data)
  <2>1. buf_dev \in Seq(Byte) /\ Len(buf_dev) <= BufSize /\ buf_dev_limit \in Nat
    BY <1>0, TypeFacts
  <2>2. BufSize \in Nat
    BY SizesAssumption
  <2> QED
    BY <1>1, <2>1, <2>2, TakenFacts
<1>3. accepted' = Pushed(accepted, data, n) /\ sock_wr_list' = Append(sock_wr_list, w)
  BY DEF PushData
<1>4. w.wr_init = wr_cur_ptr
  OBVIOUS
<1> HIDE DEF n, w
<1>5. Prefix(accepted, accepted')
  <2>1. accepted \in Seq(Byte) /\ Len(accepted) \in Nat
    BY <1>0, TypeFacts
  <2>2. /\ Pushed(accepted, data, n) \in Seq(Byte)
        /\ Len(Pushed(accepted, data, n)) = Len(accepted) + n
        /\ \A i \in 1 .. Len(accepted) : Pushed(accepted, data, n)[i] = accepted[i]
        /\ \A i \in 1 .. n : Pushed(accepted, data, n)[Len(accepted) + i] = data[i]
    <3>1. accepted \in Seq(Byte) /\ data \in Seq(Byte) /\ n \in 0 .. Len(data)
      BY <2>1, <1>1, <1>2
    <3> QED
      BY ONLY <3>1, PushedFacts
  <2> QED
    BY <2>1, <2>2, <1>1, <1>2, <1>3 DEF Prefix
<1>6. Completed' = Completed
  <2>1. sock_wr_list \in Seq(Write) /\ Len(sock_wr_list) \in Nat
    BY <1>0, TypeFacts
  <2>2. CASE sock_wr_list = <<>>
    <3>1. sock_wr_list' = <<w>>
      BY <2>2, <1>3
    <3> QED
      BY <2>2, <3>1, <1>4 DEF Completed
  <2>3. CASE sock_wr_list /= <<>>
    <3>1. 1 \in 1 .. Len(sock_wr_list)
      BY <2>1, <2>3
    <3>2. Append(sock_wr_list, w) /= <<>> /\ Append(sock_wr_list, w)[1] = sock_wr_list[1]
      BY <2>1, <3>1
    <3> QED
      BY <2>3, <3>2, <1>3 DEF Completed
  <2> QED
    BY <2>2, <2>3
<1> QED
  BY <1>5, <1>6

(* What the device has received only grows.                                *)
LEMMA DevReceiveStream ==
  ASSUME IInv, DevReceive
  PROVE  Prefix(devRcv, devRcv')
<1> DEFINE data == Head(toDev).data
           room == DevCap - (Len(devRcv) - devSent)
<1>0. TypeOK /\ AckInv
  BY DEF IInv
<1>1. /\ Len(devRcv) \in Nat /\ room \in Nat /\ devRcv \in Seq(Byte)
  BY <1>0, TypeFacts, SizesAssumption DEF AckInv
<1>2. data \in Seq(Byte) /\ Len(data) \in Nat
  <2>1. Head(toDev) = toDev[1] /\ 1 \in 1 .. Len(toDev)
    BY <1>0, TypeFacts, TailFacts DEF DevReceive
  <2> QED
    BY <2>1, <1>0, TypeFacts
<1>3. ASSUME NEW n \in 0 .. Len(data), devRcv' = devRcv \o SubSeq(data, 1, n)
      PROVE  Prefix(devRcv, devRcv')
  <2> HIDE DEF data
  <2>1. SubSeq(data, 1, n) \in Seq(Byte)
    BY <1>2
  <2>2. /\ Len(devRcv) <= Len(devRcv \o SubSeq(data, 1, n))
        /\ \A i \in 1 .. Len(devRcv) : (devRcv \o SubSeq(data, 1, n))[i] = devRcv[i]
    BY ONLY <2>1, <1>1
  <2> QED
    BY <2>2, <1>3 DEF Prefix
<1>4. CASE Len(data) <= room /\ DevTakes(Head(toDev), Len(data))
  <2>1. Len(data) \in 0 .. Len(data)
    BY <1>2
  <2> QED
    BY <1>3, <1>4, <2>1 DEF DevTakes
<1>5. CASE ~ (Len(data) <= room) /\ DevTakes(Head(toDev), room)
  <2>1. room \in 0 .. Len(data)
    BY <1>1, <1>2, <1>5
  <2> HIDE DEF room
  <2> QED
    BY <1>3, <1>5, <2>1 DEF DevTakes
<1>6. CASE UNCHANGED devVars
  BY <1>6, <1>1 DEF Prefix, devVars
<1> QED
  BY <1>4, <1>5, <1>6 DEF DevReceive

(* Every step of the daemon is a step of the byte stream or changes none   *)
(* of its variables.                                                       *)
LEMMA StepSimulation ==
  ASSUME IInv, IInv', [Next]_vars
  PROVE  [Stream!Next]_<<accepted, devRcv, Completed>>
<1> USE DEF Stream!Next
<1>1. /\ accepted' \in Seq(Byte) /\ devRcv' \in Seq(Byte)
      /\ Completed \in Nat /\ Completed' \in Nat
  <2>1. TypeOK /\ TypeOK'
    BY DEF IInv
  <2>2. Completed \in Nat
    BY <2>1, CompletedType
  <2>3. Completed' \in Nat
    <3>1. wr_cur_ptr' \in Nat /\ sock_wr_list' \in Seq(Write)
      BY <2>1 DEF TypeOK
    <3>2. CASE sock_wr_list' = <<>>
      BY <3>1, <3>2 DEF Completed
    <3>3. CASE sock_wr_list' /= <<>>
      <4>1. sock_wr_list'[1] \in Write
        BY <3>1, <3>3
      <4>2. sock_wr_list'[1].wr_init \in Nat
        BY <4>1 DEF Write
      <4> QED
        BY <4>2, <3>3 DEF Completed
    <3> QED
      BY <3>2, <3>3
  <2> QED
    BY <2>1, <2>2, <2>3 DEF TypeOK
<1>2. ASSUME NEW data \in Chunks, PushData(data) PROVE Stream!Accept
  <2>1. Prefix(accepted, accepted') /\ Completed' = Completed
    BY <1>2, PushDataStream
  <2>2. UNCHANGED devRcv
    BY <1>2 DEF PushData, devVars
  <2> QED
    BY <1>1, <2>1, <2>2 DEF Stream!Accept, Stream!Extends, Prefix
<1>3. CASE RecvAck
  <2>1. Completed <= Completed'
    BY <1>3, RecvAckStep
  <2>2. UNCHANGED <<accepted, devRcv>>
    BY <1>3 DEF RecvAck, devVars
  <2>3. Completed' <= Len(devRcv)
    <3>1. /\ Completed' <= buf_head_index' /\ buf_head_index' <= devSent'
          /\ devSent' <= Len(devRcv')
      BY DEF IInv, WriteInv, AckInv
    <3>2. buf_head_index' \in Nat /\ devSent' \in Nat
      BY DEF IInv, TypeOK
    <3>3. Len(devRcv') \in Nat
      BY <1>1
    <3> QED
      BY <3>1, <3>2, <3>3, <2>2, <1>1
  <2>4. Completed' \in Completed .. Len(devRcv)
    <3>1. Len(devRcv) \in Nat
      BY <2>2, <1>1
    <3> QED
      BY <2>1, <2>3, <3>1, <1>1
  <2> QED
    BY <2>2, <2>4 DEF Stream!Confirm
<1>4. CASE DevReceive
  <2>1. Prefix(devRcv, devRcv')
    BY <1>4, DevReceiveStream
  <2>2. accepted' = accepted /\ Completed' = Completed
    BY <1>4 DEF DevReceive, ringVars, writeVars, Completed
  <2>3. Prefix(devRcv', accepted')
    BY DEF IInv, StreamIntegrity, Prefix
  <2> QED
    BY <1>1, <2>1, <2>2, <2>3 DEF Stream!Deliver, Stream!Extends, Prefix
<1>5. CASE \/ \E limit \in Limits : SetTxLimit(limit)
           \/ NeedWrite \/ PackMake \/ RecvPending \/ RecvLogged
           \/ Transmit \/ LoseToDev \/ LoseFromDev \/ UNCHANGED vars
  <2>1. UNCHANGED <<accepted, devRcv, sock_wr_list, wr_cur_ptr>>
    BY <1>5 DEF SetTxLimit, NeedWrite, PackMake, RecvPending, RecvLogged, Transmit,
                DevTransmit, LoseToDev, LoseFromDev, vars, ringVars, writeVars, devVars
  <2> QED
    BY <2>1 DEF Completed
<1> QED
  BY <1>2, <1>3, <1>4, <1>5 DEF Next, Recv

(* The daemon's transmit path implements the byte stream of ByteStream,    *)
(* for every size, limit and payload, whether or not frames are lost.      *)
THEOREM Refinement == Spec => IsByteStream
<1>1. Init => Stream!Init
  BY DEF Init, Stream!Init, Completed
<1>2. IInv /\ IInv' /\ [Next]_vars => [Stream!Next]_<<accepted, devRcv, Completed>>
  BY StepSimulation
<1> QED
  BY <1>1, <1>2, Invariant, PTL DEF Spec, IsByteStream, Stream!Spec, Stream!streamVars
-----------------------------------------------------------------------------
(* The window of the acknowledgements.                                     *)

(* Where an acknowledgement ends is a position.                            *)
LEMMA AckEnds ==
  ASSUME TypeOK, NEW i \in 1 .. Len(fromDev), fromDev[i].kind = "ack"
  PROVE  fromDev[i].pos + fromDev[i].sta \in Nat
<1>1. fromDev[i].pos \in Nat /\ fromDev[i].sta \in Nat
  BY TypeFacts
<1> QED
  BY ONLY <1>1

(* Taking the oldest reply keeps the others in order, above the position   *)
(* it acknowledged.                                                        *)
LEMMA TailAckOrder ==
  ASSUME TypeOK, AckOrder, fromDev /= <<>>, fromDev' = Tail(fromDev),
         \/ buf_head_index' = buf_head_index
         \/ fromDev[1].kind = "ack" /\ buf_head_index' = fromDev[1].pos + fromDev[1].sta
  PROVE  AckOrder'
<1>1. /\ Len(fromDev) \in Nat /\ Len(fromDev') = Len(fromDev) - 1
      /\ \A i \in 1 .. Len(fromDev) - 1 : fromDev'[i] = fromDev[i + 1]
      /\ 1 \in 1 .. Len(fromDev)
  BY TypeFacts, TailFacts
<1>2. ASSUME NEW i \in 1 .. Len(fromDev'), fromDev'[i].kind = "ack"
      PROVE  /\ buf_head_index' <= fromDev'[i].pos + fromDev'[i].sta
             /\ \A j \in i .. Len(fromDev') : fromDev'[j].kind = "ack" =>
                  fromDev'[i].pos + fromDev'[i].sta <= fromDev'[j].pos + fromDev'[j].sta
  <2>1. i + 1 \in 1 .. Len(fromDev) /\ fromDev'[i] = fromDev[i + 1]
    BY <1>1
  <2>2. buf_head_index' <= fromDev[i + 1].pos + fromDev[i + 1].sta
    <3>1. CASE buf_head_index' = buf_head_index
      BY <2>1, <1>2, <3>1 DEF AckOrder
    <3>2. CASE fromDev[1].kind = "ack" /\ buf_head_index' = fromDev[1].pos + fromDev[1].sta
      <4>1. i + 1 \in 1 .. Len(fromDev)
        BY <2>1
      <4> QED
        BY <4>1, <2>1, <1>1, <1>2, <3>2 DEF AckOrder
    <3> QED
      BY <3>1, <3>2
  <2>3. ASSUME NEW j \in i .. Len(fromDev'), fromDev'[j].kind = "ack"
        PROVE  fromDev[i + 1].pos + fromDev[i + 1].sta <= fromDev'[j].pos + fromDev'[j].sta
    <3>1. j + 1 \in i + 1 .. Len(fromDev) /\ fromDev'[j] = fromDev[j + 1]
      BY <1>1, <2>1
    <3> QED
      BY <3>1, <2>1, <2>3, <1>2 DEF AckOrder
  <2> QED
    BY <2>1, <2>2, <2>3
<1> QED
  BY <1>2 DEF AckOrder

(* A reply put behind the others acknowledges nothing, or what the device  *)
(* transmitted last.                                                       *)
LEMMA AppendAckOrder ==
  ASSUME TypeOK, AckInv, AckOrder, NEW reply \in Reply, fromDev' = Append(fromDev, reply),
         reply.kind = "ack" => devSent <= reply.pos + reply.sta,
         UNCHANGED buf_head_index
  PROVE  AckOrder'
<1> DEFINE l == Len(fromDev)
<1>1. /\ l \in Nat /\ Len(fromDev') = l + 1
      /\ \A i \in 1 .. l : fromDev'[i] = fromDev[i]
      /\ fromDev'[l + 1] = reply
  BY TypeFacts, AppendProperties
<1>2. /\ buf_head_index \in Nat /\ devSent \in Nat /\ buf_head_index <= devSent
      /\ reply.kind = "ack" => reply.pos + reply.sta \in Nat
  BY TypeFacts DEF AckInv, Reply
<1>3. ASSUME NEW i \in 1 .. l + 1, fromDev'[i].kind = "ack"
      PROVE  /\ buf_head_index <= fromDev'[i].pos + fromDev'[i].sta
             /\ \A j \in i .. l + 1 : fromDev'[j].kind = "ack" =>
                  fromDev'[i].pos + fromDev'[i].sta <= fromDev'[j].pos + fromDev'[j].sta
  <2>1. CASE i = l + 1
    <3>1. fromDev'[i] = reply /\ \A j \in i .. l + 1 : j = i
      BY <2>1, <1>1
    <3> QED
      BY <3>1, <1>2, <1>3
  <2>2. CASE i <= l
    <3>1. i \in 1 .. l /\ fromDev'[i] = fromDev[i] /\ fromDev[i].kind = "ack"
      BY <2>2, <1>1, <1>3
    <3>2. /\ fromDev[i].pos + fromDev[i].sta <= devSent
          /\ fromDev[i].pos + fromDev[i].sta \in Nat
          /\ buf_head_index <= fromDev[i].pos + fromDev[i].sta
      BY <3>1, AckEnds DEF AckInv, AckOrder
    <3>3. ASSUME NEW j \in i .. l + 1, fromDev'[j].kind = "ack"
          PROVE  fromDev[i].pos + fromDev[i].sta <= fromDev'[j].pos + fromDev'[j].sta
      <4>1. CASE j = l + 1
        BY <4>1, <3>2, <3>3, <1>1, <1>2
      <4>2. CASE j <= l
        <5>1. j \in i .. l /\ fromDev'[j] = fromDev[j]
          BY <4>2, <3>1, <1>1
        <5> QED
          BY <5>1, <3>1, <3>3 DEF AckOrder
      <4> QED
        BY <4>1, <4>2, <1>1, <3>1
    <3> QED
      BY <3>1, <3>2, <3>3
  <2> QED
    BY <2>1, <2>2, <1>1
<1> QED
  BY <1>1, <1>3 DEF AckOrder

(* Every step keeps the acknowledgements in order.                         *)
LEMMA NextAckOrder ==
  ASSUME IInv, AckOrder, [Next]_vars
  PROVE  AckOrder'
<1>0. TypeOK /\ AckInv
  BY DEF IInv
<1>1. CASE UNCHANGED <<fromDev, buf_head_index>>
  BY <1>1 DEF AckOrder
<1>2. CASE fromDev /= <<>> /\ fromDev' = Tail(fromDev) /\ UNCHANGED buf_head_index
  BY <1>0, <1>2, TailAckOrder
<1>3. CASE RecvAck
  <2>1. Head(fromDev) = fromDev[1] /\ fromDev /= <<>> /\ fromDev' = Tail(fromDev)
    BY <1>0, <1>3, TypeFacts, TailFacts DEF RecvAck
  <2>2. \/ buf_head_index' = buf_head_index
        \/ fromDev[1].kind = "ack" /\ buf_head_index' = fromDev[1].pos + fromDev[1].sta
    BY <2>1, <1>3 DEF RecvAck
  <2> QED
    BY <1>0, <2>1, <2>2, TailAckOrder
<1>4. CASE DevReceive
  <2>1. PICK reply \in Reply : fromDev' = Append(fromDev, reply) /\ reply.kind /= "ack"
    <3>1. /\ Len(devRcv) \in Nat /\ DevCap - (Len(devRcv) - devSent) \in Nat
          /\ Head(toDev).pos \in Nat
      <4>1. Head(toDev) = toDev[1] /\ 1 \in 1 .. Len(toDev)
        BY <1>0, <1>4, TypeFacts, TailFacts DEF DevReceive
      <4> QED
        BY <4>1, <1>0, TypeFacts, SizesAssumption DEF AckInv
    <3>2. Len(devRcv) + (DevCap - (Len(devRcv) - devSent)) \in Nat
      BY <3>1
    <3>3. /\ [kind |-> "ok", pos |-> Len(devRcv)] \in Reply
          /\ [kind |-> "pending", pos |-> Len(devRcv) + (DevCap - (Len(devRcv) - devSent))] \in Reply
          /\ [kind |-> "poserr", pos |-> Head(toDev).pos] \in Reply
      BY <3>1, <3>2 DEF Reply
    <3> QED
      BY <1>4, <3>3 DEF DevReceive, Answer
  <2>2. UNCHANGED buf_head_index
    BY <1>4 DEF DevReceive, ringVars
  <2> QED
    BY <1>0, <2>1, <2>2, AppendAckOrder
<1>5. ASSUME NEW n \in 1 .. DevCap, DevTransmit(n) PROVE AckOrder'
  <2> DEFINE reply == [kind |-> "ack", pos |-> devSent, sta |-> n]
  <2>1. n \in Nat /\ devSent \in Nat
    BY <1>0, TypeFacts, SizesAssumption
  <2>2. reply \in Reply /\ devSent <= reply.pos + reply.sta
    BY <2>1 DEF Reply
  <2>3. fromDev' = Append(fromDev, reply) /\ UNCHANGED buf_head_index
    BY <1>5 DEF DevTransmit, Answer, ringVars
  <2> HIDE DEF reply
  <2> QED
    BY <1>0, <2>2, <2>3, AppendAckOrder
<1>6. ASSUME NEW data \in Chunks, PushData(data) PROVE UNCHANGED <<fromDev, buf_head_index>>
  BY <1>6 DEF PushData
<1>7. ASSUME NEW limit \in Limits, SetTxLimit(limit) PROVE UNCHANGED <<fromDev, buf_head_index>>
  BY <1>7 DEF SetTxLimit, ringVars
<1>8. CASE NeedWrite \/ PackMake \/ LoseToDev \/ UNCHANGED vars
  BY <1>1, <1>8 DEF NeedWrite, PackMake, LoseToDev, vars, ringVars
<1>9. CASE RecvPending \/ RecvLogged \/ LoseFromDev
  BY <1>2, <1>9 DEF RecvPending, RecvLogged, LoseFromDev, ringVars
<1> QED
  BY <1>1, <1>3, <1>4, <1>5, <1>6, <1>7, <1>8, <1>9 DEF Next, Recv, Transmit

(* The oldest reply is handled: after "pending" the node is back where the *)
(* device is.                                                              *)
LEMMA TailFlight ==
  ASSUME TypeOK, FlightInv, fromDev /= <<>>, fromDev' = Tail(fromDev),
         buf_wr_index' = IF fromDev[1].kind = "pending" THEN fromDev[1].pos ELSE buf_wr_index,
         UNCHANGED <<toDev, devRcv>>
  PROVE  FlightInv'
<1>1. /\ Len(fromDev) \in Nat /\ Len(fromDev') = Len(fromDev) - 1
      /\ \A i \in 1 .. Len(fromDev) - 1 : fromDev'[i] = fromDev[i + 1]
      /\ 1 \in 1 .. Len(fromDev)
  BY TypeFacts, TailFacts
<1>2. \A r \in 1 .. Len(fromDev') : r + 1 \in 1 .. Len(fromDev) /\ r + 1 /= 1
                                    /\ fromDev'[r] = fromDev[r + 1]
  BY <1>1
<1>3. Len(devRcv) \in Nat /\ buf_wr_index \in Nat
  BY TypeFacts
<1>4. \A f \in 1 .. Len(toDev) : toDev[f].pos >= Len(devRcv) /\ toDev[f].data /= <<>>
  BY DEF FlightInv
<1>5. CASE fromDev[1].kind = "pending"
  <2>1. /\ fromDev[1].pos = Len(devRcv)
        /\ \A f \in 1 .. Len(toDev) : toDev[f].pos > Len(devRcv)
        /\ \A q \in 1 .. Len(fromDev) : fromDev[q].kind = "pending" => q = 1
    BY <1>1, <1>5 DEF FlightInv
  <2>2. \A r \in 1 .. Len(fromDev') : fromDev'[r].kind /= "pending"
    BY <2>1, <1>2
  <2>3. \A f \in 1 .. Len(toDev) : toDev[f].pos /= Len(devRcv)
    BY <2>1, <1>3, TypeFacts
  <2>4. buf_wr_index' = Len(devRcv)
    BY <2>1, <1>5
  <2> QED
    BY <2>2, <2>3, <2>4, <1>3, <1>4 DEF FlightInv
<1>6. CASE fromDev[1].kind /= "pending"
  <2>1. buf_wr_index' = buf_wr_index
    BY <1>6
  <2>2. (\E r \in 1 .. Len(fromDev) : fromDev[r].kind = "pending") =>
          \E r \in 1 .. Len(fromDev') : fromDev'[r].kind = "pending"
    <3> SUFFICES ASSUME NEW r \in 1 .. Len(fromDev), fromDev[r].kind = "pending"
                 PROVE  \E q \in 1 .. Len(fromDev') : fromDev'[q].kind = "pending"
      OBVIOUS
    <3>1. r /= 1
      BY <1>6
    <3>2. r - 1 \in 1 .. Len(fromDev') /\ fromDev'[r - 1] = fromDev[r]
      BY <3>1, <1>1
    <3> QED
      BY <3>2
  <2>3. \A f \in 1 .. Len(toDev) : Live(f)' <=> Live(f)
    BY <2>1 DEF Live
  <2>4. ASSUME NEW r \in 1 .. Len(fromDev'), fromDev'[r].kind = "pending"
        PROVE  /\ fromDev'[r].pos = Len(devRcv) /\ Len(devRcv) < buf_wr_index
               /\ \A f \in 1 .. Len(toDev) : toDev[f].pos > Len(devRcv)
               /\ \A q \in 1 .. Len(fromDev') : fromDev'[q].kind = "pending" => q = r
    <3>1. r + 1 \in 1 .. Len(fromDev) /\ fromDev[r + 1] = fromDev'[r]
      BY <1>2
    <3>2. /\ fromDev[r + 1].pos = Len(devRcv) /\ Len(devRcv) < buf_wr_index
          /\ \A f \in 1 .. Len(toDev) : toDev[f].pos > Len(devRcv)
          /\ \A q \in 1 .. Len(fromDev) : fromDev[q].kind = "pending" => q = r + 1
      BY <3>1, <2>4 DEF FlightInv
    <3>3. ASSUME NEW q \in 1 .. Len(fromDev'), fromDev'[q].kind = "pending" PROVE q = r
      <4>1. q + 1 = r + 1
        BY <3>2, <3>3, <1>2
      <4> QED
        BY <4>1, <1>1
    <3> QED
      BY <3>1, <3>2, <3>3
  <2> QED
    BY <2>1, <2>2, <2>3, <2>4 DEF FlightInv
<1> QED
  BY <1>5, <1>6

(* The device reports what it transmitted.                                 *)
LEMMA AckFlight ==
  ASSUME TypeOK, FlightInv, NEW reply \in Reply, reply.kind /= "pending",
         fromDev' = Append(fromDev, reply), UNCHANGED <<toDev, devRcv, buf_wr_index>>
  PROVE  FlightInv'
<1> DEFINE l == Len(fromDev)
<1>1. /\ l \in Nat /\ Len(fromDev') = l + 1
      /\ \A i \in 1 .. l : fromDev'[i] = fromDev[i]
      /\ fromDev'[l + 1] = reply
  BY TypeFacts, AppendProperties
<1>2. ASSUME NEW r \in 1 .. l + 1, fromDev'[r].kind = "pending"
      PROVE  r \in 1 .. l /\ fromDev'[r] = fromDev[r]
  BY <1>1, <1>2
<1>3. \A r \in 1 .. l : r \in 1 .. l + 1
  BY <1>1
<1>4. \A f \in 1 .. Len(toDev) : Live(f)' <=> Live(f)
  BY DEF Live
<1>5. (\A r \in 1 .. l + 1 : fromDev'[r].kind /= "pending") =>
        \A r \in 1 .. l : fromDev[r].kind /= "pending"
  BY <1>1, <1>3
<1>6. ASSUME NEW r \in 1 .. l + 1, fromDev'[r].kind = "pending"
      PROVE  /\ fromDev'[r].pos = Len(devRcv) /\ Len(devRcv) < buf_wr_index
             /\ \A f \in 1 .. Len(toDev) : toDev[f].pos > Len(devRcv)
             /\ \A q \in 1 .. l + 1 : fromDev'[q].kind = "pending" => q = r
  <2>1. r \in 1 .. l /\ fromDev'[r] = fromDev[r] /\ fromDev[r].kind = "pending"
    BY <1>2, <1>6
  <2>2. /\ fromDev[r].pos = Len(devRcv) /\ Len(devRcv) < buf_wr_index
        /\ \A f \in 1 .. Len(toDev) : toDev[f].pos > Len(devRcv)
        /\ \A q \in 1 .. l : fromDev[q].kind = "pending" => q = r
    BY <2>1 DEF FlightInv
  <2> QED
    BY <2>1, <2>2, <1>2
<1> QED
  BY <1>1, <1>4, <1>5, <1>6 DEF FlightInv

(* A packet made continues what is on its way, or is the first that the    *)
(* device will not refuse.                                                 *)
LEMMA MakeFlight ==
  ASSUME TypeOK, FlightInv, NEW frame \in Frame, frame.data /= <<>>, frame.pos = buf_wr_index,
         toDev' = Append(toDev, frame), buf_wr_index' = buf_wr_index + Len(frame.data),
         UNCHANGED <<fromDev, devRcv>>
  PROVE  FlightInv'
<1> DEFINE l == Len(toDev)
           next == Len(devRcv)
<1>1. /\ l \in Nat /\ Len(toDev') = l + 1
      /\ \A i \in 1 .. l : toDev'[i] = toDev[i]
      /\ toDev'[l + 1] = frame
  BY TypeFacts, AppendProperties
<1>2. next \in Nat /\ buf_wr_index \in Nat /\ next <= buf_wr_index
  BY TypeFacts DEF FlightInv
<1>3. Len(frame.data) \in Nat /\ Len(frame.data) > 0
  <2>1. frame.data \in Seq(Byte)
    BY DEF Frame
  <2> QED
    BY <2>1
<1>4. /\ \A f \in 1 .. l : toDev[f].pos >= next /\ toDev[f].data /= <<>>
      /\ \A f \in 1 .. l : toDev[f].pos \in Nat /\ Len(toDev[f].data) \in Nat
  BY TypeFacts DEF FlightInv
<1>5. ASSUME NEW f \in 1 .. l + 1 PROVE toDev'[f].pos >= next /\ toDev'[f].data /= <<>>
  BY <1>1, <1>2, <1>4
<1>6. ASSUME NEW r \in 1 .. Len(fromDev), fromDev[r].kind = "pending"
      PROVE  /\ fromDev[r].pos = next /\ next < buf_wr_index'
             /\ \A f \in 1 .. l + 1 : toDev'[f].pos > next
             /\ \A q \in 1 .. Len(fromDev) : fromDev[q].kind = "pending" => q = r
  <2>1. /\ fromDev[r].pos = next /\ next < buf_wr_index
        /\ \A f \in 1 .. l : toDev[f].pos > next
        /\ \A q \in 1 .. Len(fromDev) : fromDev[q].kind = "pending" => q = r
    BY <1>6 DEF FlightInv
  <2> QED
    BY <2>1, <1>1, <1>2, <1>3
<1>7. ASSUME \A r \in 1 .. Len(fromDev) : fromDev[r].kind /= "pending"
      PROVE  /\ \E f \in 1 .. l + 1 : toDev'[f].pos = next
             /\ \A f \in 1 .. l + 1 : toDev'[f].pos = next => Live(f)'
  <2>1. /\ buf_wr_index = next \/ \E f \in 1 .. l : toDev[f].pos = next
        /\ \A f \in 1 .. l : toDev[f].pos = next => Live(f)
    BY <1>7 DEF FlightInv
  <2>2. ASSUME NEW f \in 1 .. l, toDev[f].pos = next PROVE Live(f)'
    <3>1. /\ \A i \in f .. l : toDev[i].pos + Len(toDev[i].data) <= buf_wr_index
          /\ \A i \in f .. l : \A j \in i + 1 .. l :
               toDev[i].pos + Len(toDev[i].data) <= toDev[j].pos
          /\ \A i \in f .. l : i < l => toDev[i + 1].pos = toDev[i].pos + Len(toDev[i].data)
          /\ buf_wr_index = toDev[l].pos + Len(toDev[l].data)
      <4>1. l \in f .. l
        BY <1>1
      <4> QED
        BY <4>1, <2>1, <2>2 DEF Live
    <3>2. ASSUME NEW i \in f .. l + 1
          PROVE  /\ toDev'[i].pos + Len(toDev'[i].data) <= buf_wr_index'
                 /\ \A j \in i + 1 .. l + 1 : toDev'[i].pos + Len(toDev'[i].data) <= toDev'[j].pos
                 /\ i < l + 1 => toDev'[i + 1].pos = toDev'[i].pos + Len(toDev'[i].data)
                 /\ i = l + 1 => buf_wr_index' = toDev'[i].pos + Len(toDev'[i].data)
      <4>1. CASE i = l + 1
        <5>1. toDev'[i] = frame /\ i + 1 .. l + 1 = {} /\ ~ (i < l + 1)
          BY <4>1, <1>1
        <5> QED
          BY <5>1, <1>2, <1>3
      <4>2. CASE i \in f .. l
        <5>1. i \in 1 .. l /\ toDev'[i] = toDev[i] /\ i /= l + 1
          BY <4>2, <1>1
        <5>2. PICK e \in Nat : e = toDev[i].pos + Len(toDev[i].data)
          BY <5>1, <1>4
        <5>3. e <= buf_wr_index /\ (i = l => e = buf_wr_index)
          BY <5>2, <4>2, <3>1
        <5>4. i \in Nat /\ l \in Nat /\ (i = l \/ i < l) /\ i < l + 1
          BY <4>2, <1>1
        <5>5. ASSUME NEW j \in i + 1 .. l + 1 PROVE e <= toDev'[j].pos
          <6>1. j = l + 1 \/ (j \in i + 1 .. l /\ j \in 1 .. l)
            BY ONLY <5>4
          <6>2. CASE j = l + 1
            BY <6>2, <5>3, <1>1
          <6>3. CASE j \in i + 1 .. l /\ j \in 1 .. l
            BY <6>3, <1>1, <4>2, <3>1, <5>2
          <6> QED
            BY ONLY <6>1, <6>2, <6>3
        <5>6. toDev'[i + 1].pos = e
          <6>1. CASE i = l
            BY <6>1, <5>3, <1>1
          <6>2. CASE i < l
            <7>1. i + 1 \in 1 .. l
              BY ONLY <6>2, <5>4
            <7> QED
              BY <7>1, <6>2, <1>1, <4>2, <3>1, <5>2
          <6> QED
            BY ONLY <5>4, <6>1, <6>2
        <5>7. e <= buf_wr_index'
          BY <5>3, <1>2, <1>3
        <5> QED
          BY <5>1, <5>2, <5>5, <5>6, <5>7
      <4>3. l \in Nat /\ f \in Nat /\ i \in f .. l + 1
        BY <1>1
      <4>4. i = l + 1 \/ i \in f .. l
        BY ONLY <4>3
      <4> QED
        BY ONLY <4>1, <4>2, <4>4
    <3> QED
      BY <3>2, <1>1 DEF Live
  <2>3. ASSUME NEW f \in 1 .. l + 1, f = l + 1 PROVE Live(f)'
    <3>1. \A i \in f .. Len(toDev') : i = l + 1
      BY <2>3, <1>1
    <3>2. /\ toDev'[l + 1].pos + Len(toDev'[l + 1].data) = buf_wr_index'
          /\ buf_wr_index' \in Nat
      BY <1>1, <1>2, <1>3
    <3>3. l + 1 + 1 .. Len(toDev') = {} /\ ~ (l + 1 < Len(toDev'))
      BY <1>1
    <3> QED
      BY <3>1, <3>2, <3>3 DEF Live
  <2>4. \E f \in 1 .. l + 1 : toDev'[f].pos = next
    <3>1. CASE buf_wr_index = next
      <4>1. l + 1 \in 1 .. l + 1 /\ toDev'[l + 1].pos = next
        BY <3>1, <1>1
      <4> QED
        BY <4>1
    <3>2. CASE \E f \in 1 .. l : toDev[f].pos = next
      <4>1. PICK f \in 1 .. l : toDev[f].pos = next
        BY <3>2
      <4>2. f \in 1 .. l + 1 /\ toDev'[f].pos = next
        BY <4>1, <1>1
      <4> QED
        BY <4>2
    <3> QED
      BY <2>1, <3>1, <3>2
  <2>5. ASSUME NEW f \in 1 .. l + 1, toDev'[f].pos = next PROVE Live(f)'
    <3>1. CASE f = l + 1
      BY <2>3, <3>1
    <3>2. CASE f \in 1 .. l
      <4>1. toDev[f].pos = next
        BY <2>5, <3>2, <1>1
      <4> QED
        BY <4>1, <2>2, <3>2
    <3> QED
      BY <3>1, <3>2, <1>1
  <2> QED
    BY <2>4, <2>5
<1>8. next <= buf_wr_index'
  BY <1>2, <1>3
<1> QED
  BY <1>1, <1>5, <1>6, <1>7, <1>8 DEF FlightInv

(* What was live behind the oldest frame stays so when that is gone.       *)
LEMMA TailLive ==
  ASSUME TypeOK, toDev /= <<>>, toDev' = Tail(toDev), UNCHANGED buf_wr_index,
         NEW g \in 1 .. Len(toDev), NEW f \in 1 .. Len(toDev'), g <= f + 1, Live(g)
  PROVE  Live(f)'
<1> DEFINE l == Len(toDev)
<1>1. /\ l \in Nat /\ Len(toDev') = l - 1 /\ g \in Nat /\ f \in Nat /\ f >= 1
      /\ \A i \in 1 .. l - 1 : toDev'[i] = toDev[i + 1]
  BY TypeFacts, TailFacts
<1>2. ASSUME NEW i \in f .. l - 1
      PROVE  /\ toDev'[i].pos + Len(toDev'[i].data) <= buf_wr_index
             /\ \A j \in i + 1 .. l - 1 : toDev'[i].pos + Len(toDev'[i].data) <= toDev'[j].pos
             /\ i < l - 1 => toDev'[i + 1].pos = toDev'[i].pos + Len(toDev'[i].data)
             /\ i = l - 1 => buf_wr_index = toDev'[i].pos + Len(toDev'[i].data)
  <2>1. /\ i \in 1 .. l - 1 /\ i + 1 \in g .. l
        /\ i < l - 1 => i + 1 < l /\ i + 1 \in 1 .. l - 1
        /\ i = l - 1 => i + 1 = l
        /\ \A j \in i + 1 .. l - 1 : j + 1 \in i + 1 + 1 .. l /\ j \in 1 .. l - 1
    <3>1. l \in Nat /\ g \in Nat /\ f \in Nat /\ f >= 1 /\ g <= f + 1 /\ i \in f .. l - 1
      BY <1>1
    <3> HIDE DEF l
    <3> QED
      BY ONLY <3>1
  <2>2. toDev'[i] = toDev[i + 1]
    BY ONLY <1>1, <2>1
  <2>3. /\ toDev[i + 1].pos + Len(toDev[i + 1].data) <= buf_wr_index
        /\ \A j \in i + 1 + 1 .. l :
             toDev[i + 1].pos + Len(toDev[i + 1].data) <= toDev[j].pos
        /\ i + 1 < l => toDev[i + 1 + 1].pos = toDev[i + 1].pos + Len(toDev[i + 1].data)
        /\ i + 1 = l => buf_wr_index = toDev[i + 1].pos + Len(toDev[i + 1].data)
    BY <2>1 DEF Live
  <2>4. ASSUME NEW j \in i + 1 .. l - 1
        PROVE  toDev'[i].pos + Len(toDev'[i].data) <= toDev'[j].pos
    <3>1. toDev'[j] = toDev[j + 1] /\ j + 1 \in i + 1 + 1 .. l
      BY ONLY <1>1, <2>1, j \in i + 1 .. l - 1
    <3> QED
      BY ONLY <3>1, <2>2, <2>3
  <2>5. i < l - 1 => toDev'[i + 1] = toDev[i + 1 + 1]
    BY ONLY <1>1, <2>1
  <2> QED
    BY <2>1, <2>2, <2>3, <2>4, <2>5
<1>3. buf_wr_index' = buf_wr_index
  OBVIOUS
<1> QED
  BY ONLY <1>1, <1>2, <1>3 DEF Live

(* The device answers the frame it was sent: it refuses it, takes it, or   *)
(* takes a part of it and says so.                                         *)
LEMMA AnswerFlight ==
  ASSUME TypeOK, FlightInv, toDev /= <<>>, toDev' = Tail(toDev),
         NEW reply \in Reply, fromDev' = Append(fromDev, reply), UNCHANGED buf_wr_index,
         Len(devRcv') \in Nat,
         \/ /\ toDev[1].pos /= Len(devRcv) /\ Len(devRcv') = Len(devRcv)
            /\ reply.kind /= "pending"
         \/ /\ toDev[1].pos = Len(devRcv)
            /\ Len(devRcv') = Len(devRcv) + Len(toDev[1].data) /\ reply.kind /= "pending"
         \/ /\ toDev[1].pos = Len(devRcv) /\ reply.kind = "pending"
            /\ Len(devRcv) <= Len(devRcv')
            /\ Len(devRcv') < Len(devRcv) + Len(toDev[1].data) /\ reply.pos = Len(devRcv')
  PROVE  FlightInv'
<1> DEFINE m == Len(fromDev)
           next == Len(devRcv)
<1>1. /\ m \in Nat /\ Len(fromDev') = m + 1
      /\ \A i \in 1 .. m : fromDev'[i] = fromDev[i]
      /\ fromDev'[m + 1] = reply
  BY TypeFacts, AppendProperties
<1>2. /\ Len(toDev) \in Nat /\ Len(toDev') = Len(toDev) - 1
      /\ \A i \in 1 .. Len(toDev) - 1 : toDev'[i] = toDev[i + 1]
      /\ 1 \in 1 .. Len(toDev)
  BY TypeFacts, TailFacts
<1>3. \A f \in 1 .. Len(toDev') : f + 1 \in 2 .. Len(toDev) /\ f + 1 \in 1 .. Len(toDev)
                                  /\ toDev'[f] = toDev[f + 1]
  BY <1>2
<1>4. next \in Nat /\ buf_wr_index \in Nat /\ next <= buf_wr_index
  BY TypeFacts DEF FlightInv
<1>5. /\ \A f \in 1 .. Len(toDev) : toDev[f].pos >= next /\ toDev[f].data /= <<>>
      /\ \A f \in 1 .. Len(toDev) : toDev[f].pos \in Nat /\ Len(toDev[f].data) \in Nat
  BY TypeFacts DEF FlightInv
<1>6. (\A r \in 1 .. m + 1 : fromDev'[r].kind /= "pending") =>
        \A r \in 1 .. m : fromDev[r].kind /= "pending"
  <2>1. \A r \in 1 .. m : r \in 1 .. m + 1
    BY <1>1
  <2> QED
    BY <2>1, <1>1
<1>7. CASE /\ toDev[1].pos /= next /\ Len(devRcv') = next
           /\ reply.kind /= "pending"
  <2>1. ASSUME NEW f \in 1 .. Len(toDev'), NEW g \in 1 .. Len(toDev), g = f + 1, Live(g)
        PROVE  Live(f)'
    <3>1. g <= f + 1
      BY <2>1, <1>2
    <3> QED
      BY <2>1, <3>1, TailLive
  <2>2. ASSUME NEW r \in 1 .. m + 1, fromDev'[r].kind = "pending"
        PROVE  /\ fromDev'[r].pos = next /\ next < buf_wr_index
               /\ \A f \in 1 .. Len(toDev') : toDev'[f].pos > next
               /\ \A q \in 1 .. m + 1 : fromDev'[q].kind = "pending" => q = r
    <3>1. \A q \in 1 .. m + 1 : fromDev'[q].kind = "pending" =>
            q \in 1 .. m /\ fromDev'[q] = fromDev[q]
      BY <1>1, <1>7
    <3>2. r \in 1 .. m /\ fromDev'[r] = fromDev[r] /\ fromDev[r].kind = "pending"
      BY <3>1, <2>2
    <3>3. /\ fromDev[r].pos = next /\ next < buf_wr_index
          /\ \A f \in 1 .. Len(toDev) : toDev[f].pos > next
          /\ \A q \in 1 .. m : fromDev[q].kind = "pending" => q = r
      BY <3>2 DEF FlightInv
    <3> QED
      BY <3>1, <3>2, <3>3, <1>3
  <2>3. ASSUME \A r \in 1 .. m : fromDev[r].kind /= "pending"
        PROVE  /\ buf_wr_index = next \/ \E f \in 1 .. Len(toDev') : toDev'[f].pos = next
               /\ \A f \in 1 .. Len(toDev') : toDev'[f].pos = next => Live(f)'
    <3>1. /\ buf_wr_index = next \/ \E f \in 1 .. Len(toDev) : toDev[f].pos = next
          /\ \A f \in 1 .. Len(toDev) : toDev[f].pos = next => Live(f)
      BY <2>3 DEF FlightInv
    <3>2. ASSUME NEW f \in 1 .. Len(toDev), toDev[f].pos = next
          PROVE  f - 1 \in 1 .. Len(toDev') /\ toDev'[f - 1] = toDev[f]
      <4>1. f /= 1
        BY <1>7, <3>2
      <4> QED
        BY <4>1, <1>2
    <3>3. ASSUME NEW f \in 1 .. Len(toDev'), toDev'[f].pos = next PROVE Live(f)'
      <4>1. PICK g \in 1 .. Len(toDev) : g = f + 1 /\ toDev[g].pos = next
        BY <3>3, <1>3
      <4> QED
        BY <4>1, <3>1, <2>1
    <3> QED
      BY <3>1, <3>2, <3>3
  <2>4. \A f \in 1 .. Len(toDev') : toDev'[f].pos >= next /\ toDev'[f].data /= <<>>
    BY <1>3, <1>5
  <2> QED
    BY <2>2, <2>3, <2>4, <1>1, <1>4, <1>6, <1>7 DEF FlightInv
<1>8. CASE toDev[1].pos = next /\ next <= Len(devRcv')
           /\ Len(devRcv') <= next + Len(toDev[1].data)
           /\ (Len(devRcv') < next + Len(toDev[1].data) <=> reply.kind = "pending")
           /\ (reply.kind = "pending" => reply.pos = Len(devRcv'))
  <2>1. ASSUME NEW r \in 1 .. m, fromDev[r].kind = "pending" PROVE FALSE
    <3>1. toDev[1].pos > next
      BY <2>1, <1>2 DEF FlightInv
    <3> QED
      BY <3>1, <1>4, <1>8
  <2>2. Live(1)
    BY <2>1, <1>2, <1>8 DEF FlightInv
  <2>3. PICK e \in Nat : e = toDev[1].pos + Len(toDev[1].data)
    BY <1>2, <1>5
  <2>4. /\ e <= buf_wr_index
        /\ \A j \in 2 .. Len(toDev) : e <= toDev[j].pos
        /\ 1 < Len(toDev) => toDev[2].pos = e
        /\ 1 = Len(toDev) => buf_wr_index = e
    <3>1. 1 \in 1 .. Len(toDev) /\ 1 + 1 = 2
      BY <1>2
    <3> QED
      BY <3>1, <2>2, <2>3 DEF Live
  <2>5. Len(devRcv') <= e /\ (Len(devRcv') < e <=> reply.kind = "pending")
    BY <2>3, <1>8
  <2>6. ASSUME NEW f \in 1 .. Len(toDev') PROVE toDev'[f].pos >= e /\ toDev'[f].data /= <<>>
    <3>1. f + 1 \in 2 .. Len(toDev) /\ f + 1 \in 1 .. Len(toDev) /\ toDev'[f] = toDev[f + 1]
      BY <1>3
    <3> QED
      BY <3>1, <2>3, <2>4, <1>5
  <2>7. \A f \in 1 .. Len(toDev') : toDev'[f].pos \in Nat
    BY <1>3, <1>5
  <2>8. CASE reply.kind = "pending"
    <3>1. \A q \in 1 .. m + 1 : fromDev'[q].kind = "pending" <=> q = m + 1
      BY <2>1, <2>8, <1>1
    <3>2. /\ Len(devRcv') < buf_wr_index /\ reply.pos = Len(devRcv')
          /\ \A f \in 1 .. Len(toDev') : toDev'[f].pos > Len(devRcv')
      <4>1. Len(devRcv') < e /\ Len(devRcv') \in Nat /\ reply.pos = Len(devRcv')
        BY <2>5, <2>8, <1>8
      <4>2. Len(devRcv') < buf_wr_index
        BY <4>1, <2>4, <1>4
      <4>3. ASSUME NEW f \in 1 .. Len(toDev') PROVE toDev'[f].pos > Len(devRcv')
        <5>1. toDev'[f].pos \in Nat /\ toDev'[f].pos >= e
          BY <2>6, <2>7
        <5> QED
          BY ONLY <4>1, <5>1, e \in Nat
      <4> QED
        BY <4>1, <4>2, <4>3
    <3>3. m + 1 \in 1 .. m + 1
      BY <1>1
    <3> QED
      BY <3>1, <3>2, <3>3, <2>6, <2>7, <1>1, <1>4 DEF FlightInv
  <2>9. CASE reply.kind /= "pending"
    <3>1. Len(devRcv') = e
      BY <2>3, <2>5, <2>9
    <3>2. \A q \in 1 .. m + 1 : fromDev'[q].kind /= "pending"
      BY <2>1, <2>9, <1>1
    <3>3. ASSUME NEW f \in 1 .. Len(toDev'), toDev'[f].pos = e PROVE Live(f)'
      <4>1. 1 <= f + 1
        BY <1>2
      <4> QED
        BY <4>1, <1>2, <2>2, TailLive
    <3>4. buf_wr_index = e \/ \E f \in 1 .. Len(toDev') : toDev'[f].pos = e
      <4>1. CASE Len(toDev) = 1
        BY <4>1, <2>4
      <4>2. CASE Len(toDev) > 1
        <5>1. 1 \in 1 .. Len(toDev') /\ toDev'[1] = toDev[2]
          BY <4>2, <1>2
        <5> QED
          BY <5>1, <4>2, <2>4
      <4> QED
        BY <4>1, <4>2, <1>2
    <3> QED
      BY <3>1, <3>2, <3>3, <3>4, <2>4, <2>6, <1>1 DEF FlightInv
  <2> QED
    BY <2>8, <2>9
<1> QED
  <2>1. Len(toDev[1].data) \in Nat /\ Len(toDev[1].data) > 0
    <3>1. toDev[1].data \in Seq(Byte) /\ toDev[1].data /= <<>>
      BY <1>2, <1>5, TypeFacts
    <3> QED
      BY ONLY <3>1
  <2>2. CASE Len(devRcv') = next + Len(toDev[1].data) /\ reply.kind /= "pending"
    <3>1. /\ next <= Len(devRcv') /\ Len(devRcv') <= next + Len(toDev[1].data)
          /\ ~ (Len(devRcv') < next + Len(toDev[1].data))
      BY ONLY <2>1, <2>2, <1>4
    <3> QED
      BY <3>1, <2>2, <1>7, <1>8
  <2>3. CASE reply.kind = "pending" /\ Len(devRcv') < next + Len(toDev[1].data)
    <3>1. Len(devRcv') <= next + Len(toDev[1].data)
      BY <2>1, <2>3, <1>4
    <3> QED
      BY <3>1, <2>3, <1>8
  <2> QED
    BY <2>2, <2>3, <1>7

(* Without loss every step keeps the frames and the replies in step.       *)
LEMMA NextFlight ==
  ASSUME IInv, WindowInv, [Next]_vars, link /= "uart"
  PROVE  FlightInv'
<1>0. TypeOK /\ AckInv /\ FlightInv
  BY DEF IInv, WindowInv
<1>1. CASE UNCHANGED <<toDev, fromDev, devRcv, buf_wr_index>>
  BY <1>0, <1>1 DEF FlightInv, Live
<1>2. ASSUME fromDev /= <<>>, fromDev' = Tail(fromDev), UNCHANGED <<toDev, devRcv>>,
             \/ Head(fromDev).kind = "pending" /\ buf_wr_index' = Head(fromDev).pos
             \/ Head(fromDev).kind /= "pending" /\ UNCHANGED buf_wr_index
      PROVE  FlightInv'
  <2>1. Head(fromDev) = fromDev[1]
    BY <1>0, <1>2, TypeFacts, TailFacts
  <2> QED
    BY <2>1, <1>0, <1>2, TailFlight
<1>3. CASE PackMake
  <2> DEFINE data == Unsent(MaxPayload)
             frame == [pos |-> buf_wr_index, data |-> data]
  <2>1. CASE UNCHANGED <<buf_wr_index, toDev>>
    BY <2>1, <1>1, <1>3 DEF PackMake, devVars
  <2>2. CASE data /= <<>> /\ toDev' = Append(toDev, frame)
             /\ buf_wr_index' = buf_wr_index + Len(data)
    <3>1. data \in Seq(Byte)
      <4>1. /\ buf_dev \in Seq(Byte) /\ buf_wr_index - buf_head_index \in Int
            /\ MaxPayload \in Nat
        BY <1>0, TypeFacts, SizesAssumption
      <4>2. Peeked(buf_dev, buf_wr_index - buf_head_index, MaxPayload) \in Seq(Byte)
        BY ONLY <4>1, PeekedFacts
      <4> QED
        BY <4>2 DEF Unsent
    <3> HIDE DEF data
    <3>2. frame \in Frame /\ frame.data = data /\ frame.pos = buf_wr_index
      BY <3>1, <1>0, TypeFacts DEF Frame
    <3> HIDE DEF frame
    <3>3. UNCHANGED <<fromDev, devRcv>>
      BY <1>3 DEF PackMake, devVars
    <3> QED
      BY <3>2, <3>3, <2>2, <1>0, MakeFlight
  <2> QED
    BY <2>1, <2>2, <1>3 DEF PackMake
<1>4. CASE DevReceive
  <2> DEFINE data == Head(toDev).data
             room == DevCap - (Len(devRcv) - devSent)
             next == Len(devRcv)
  <2>1. /\ toDev /= <<>> /\ toDev' = Tail(toDev) /\ UNCHANGED buf_wr_index
        /\ Head(toDev) = toDev[1] /\ 1 \in 1 .. Len(toDev)
    BY <1>0, <1>4, TypeFacts, TailFacts DEF DevReceive
  <2>2. /\ next \in Nat /\ room \in Nat /\ devRcv \in Seq(Byte)
        /\ data \in Seq(Byte) /\ Len(data) \in Nat /\ Head(toDev).pos \in Nat
    <3>1. /\ next \in Nat /\ devRcv \in Seq(Byte) /\ devSent \in Nat /\ DevCap \in Nat
          /\ next - devSent <= DevCap
      BY <1>0, TypeFacts, SizesAssumption DEF AckInv
    <3>2. room \in Nat
      BY <3>1
    <3>3. data \in Seq(Byte) /\ Len(data) \in Nat /\ Head(toDev).pos \in Nat
      BY <2>1, <1>0, TypeFacts
    <3> QED
      BY <3>1, <3>2, <3>3
  <2>3. ASSUME NEW n \in 0 .. Len(data), DevTakes(Head(toDev), n)
        PROVE  Len(devRcv') = next + n /\ Len(devRcv') \in Nat
    <3> HIDE DEF data
    <3>1. SubSeq(data, 1, n) \in Seq(Byte) /\ Len(SubSeq(data, 1, n)) = n
      BY <2>2
    <3> QED
      BY <3>1, <2>2, <2>3 DEF DevTakes, data
  <2>4. CASE /\ Head(toDev).pos = next /\ Len(data) <= room
             /\ DevTakes(Head(toDev), Len(data))
             /\ Answer([kind |-> "ok", pos |-> next])
    <3>1. [kind |-> "ok", pos |-> next] \in Reply
      BY <2>2 DEF Reply
    <3>2. Len(devRcv') = next + Len(data) /\ Len(devRcv') \in Nat
      BY <2>2, <2>3, <2>4
    <3> QED
      BY <3>1, <3>2, <2>1, <2>4, <1>0, AnswerFlight DEF Answer
  <2>5. CASE /\ Head(toDev).pos = next /\ ~ (Len(data) <= room)
             /\ DevTakes(Head(toDev), room)
             /\ Answer([kind |-> "pending", pos |-> next + room])
    <3>1. [kind |-> "pending", pos |-> next + room] \in Reply
      BY <2>2 DEF Reply
    <3>2. /\ Len(devRcv') = next + room /\ Len(devRcv') \in Nat
          /\ next <= next + room /\ next + room < next + Len(data)
      BY <2>2, <2>3, <2>5
    <3> HIDE DEF room
    <3> QED
      BY <3>1, <3>2, <2>1, <2>5, <1>0, AnswerFlight DEF Answer
  <2>6. CASE /\ Head(toDev).pos /= next
             /\ Answer([kind |-> "poserr", pos |-> Head(toDev).pos])
             /\ UNCHANGED devVars
    <3>1. [kind |-> "poserr", pos |-> Head(toDev).pos] \in Reply
      BY <2>2 DEF Reply
    <3>2. Len(devRcv') = next /\ Len(devRcv') \in Nat
      BY <2>2, <2>6 DEF devVars
    <3> QED
      BY <3>1, <3>2, <2>1, <2>6, <1>0, AnswerFlight DEF Answer
  <2> QED
    BY <2>4, <2>5, <2>6, <1>4 DEF DevReceive
<1>5. ASSUME NEW n \in 1 .. DevCap, DevTransmit(n) PROVE FlightInv'
  <2> DEFINE reply == [kind |-> "ack", pos |-> devSent, sta |-> n]
  <2>1. n \in Nat /\ devSent \in Nat
    BY <1>0, TypeFacts, SizesAssumption
  <2>2. reply \in Reply /\ reply.kind /= "pending"
    BY <2>1 DEF Reply
  <2>3. fromDev' = Append(fromDev, reply) /\ UNCHANGED <<toDev, devRcv, buf_wr_index>>
    BY <1>5 DEF DevTransmit, Answer
  <2> HIDE DEF reply
  <2> QED
    BY <1>0, <2>2, <2>3, AckFlight
<1>6. ASSUME NEW data \in Chunks, PushData(data) PROVE FlightInv'
  BY <1>1, <1>6 DEF PushData, devVars
<1>7. ASSUME NEW limit \in Limits, SetTxLimit(limit) PROVE FlightInv'
  BY <1>1, <1>7 DEF SetTxLimit, devVars
<1>8. CASE NeedWrite \/ UNCHANGED vars
  BY <1>1, <1>8 DEF NeedWrite, vars, devVars
<1>9. CASE Recv
  BY <1>2, <1>9 DEF Recv, RecvAck, RecvPending, RecvLogged, devVars
<1>10. ~ LoseToDev /\ ~ LoseFromDev
  BY DEF LoseToDev, LoseFromDev
<1> QED
  BY <1>3, <1>4, <1>5, <1>6, <1>7, <1>8, <1>9, <1>10 DEF Next, Transmit

(* Every step keeps what the window check relies on.                       *)
LEMMA NextWindow == IInv /\ WindowInv /\ [Next]_vars => WindowInv'
<1> SUFFICES ASSUME IInv, WindowInv, [Next]_vars PROVE WindowInv'
  OBVIOUS
<1>1. AckOrder'
  BY NextAckOrder DEF WindowInv
<1>2. link' = link
  BY DEF Next, PushData, SetTxLimit, NeedWrite, PackMake, Recv, RecvAck, RecvPending, RecvLogged,
         DevReceive, Transmit, DevTransmit, LoseToDev, LoseFromDev, vars
<1> QED
  BY <1>1, <1>2, NextFlight DEF WindowInv

(* Without loss, an acknowledgement the receive thread takes lies between  *)
(* the acknowledged position and the write position, wherever "pending"    *)
(* has moved that back to: the window check ignores no genuine one.        *)
THEOREM AcksInWindow == Spec => []AckInWindow
<1>1. Init => WindowInv
  BY DEF Init, WindowInv, AckOrder, FlightInv
<1>2. (IInv /\ WindowInv) /\ [Next]_vars => (IInv /\ WindowInv)'
  BY Inductive, NextWindow
<1>3. IInv /\ WindowInv => AckInWindow
  <2> SUFFICES ASSUME IInv, WindowInv, link /= "uart", fromDev /= <<>>, Head(fromDev).kind = "ack"
               PROVE  Head(fromDev).pos + Head(fromDev).sta \in buf_head_index .. buf_wr_index
    BY DEF AckInWindow
  <2>0. TypeOK /\ AckInv /\ AckOrder /\ FlightInv
    BY DEF IInv, WindowInv
  <2>1. Head(fromDev) = fromDev[1] /\ 1 \in 1 .. Len(fromDev)
    BY <2>0, TypeFacts, TailFacts
  <2>2. PICK e \in Nat : e = Head(fromDev).pos + Head(fromDev).sta
    BY <2>0, <2>1, AckEnds
  <2>3. buf_head_index <= e /\ e <= devSent /\ devSent <= Len(devRcv)
    BY <2>0, <2>1, <2>2 DEF AckOrder, AckInv
  <2>4. Len(devRcv) <= buf_wr_index
    BY <2>0 DEF FlightInv
  <2>5. /\ buf_head_index \in Nat /\ buf_wr_index \in Nat /\ devSent \in Nat
        /\ Len(devRcv) \in Nat
    BY <2>0, TypeFacts
  <2> QED
    BY <2>2, <2>3, <2>4, <2>5
<1> QED
  BY <1>1, <1>2, <1>3, InitIInv, PTL DEF Spec

=============================================================================
