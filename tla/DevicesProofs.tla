--------------------------- MODULE DevicesProofs ----------------------------
(***************************************************************************)
(* The two drivers of the daemon.  One USB port, for every number of       *)
(* transfers, of devices plugged in and of replies a device keeps: what a  *)
(* device is torn down with is back, and what clients are shown is ready.  *)
(* The serial lines, for every set of lines and number of devices: the     *)
(* lists, the ids and the events agree.                                    *)
(***************************************************************************)
EXTENDS MCDevices, SequenceTheorems, FiniteSetTheorems, TLAPS

-----------------------------------------------------------------------------
(* The inductive invariant.                                                *)

\* The poll thread between two devices, or looking at one that is listed;
\* and taking one down.
Loop == {"scan", "host", "close", "start"}
Down == {"exit", "nodes", "join", "cancel", "free_tx", "free_rx", "free_rx_wait", "free"}

\* What TypeOK leaves open.
KindsInv ==
  /\ mode \in {"scan", "host"} /\ ret \in {"list", "start"}
  /\ poll \in Loop \cup {"alive"} \cup Down
  /\ sdpack \in 0 .. 2 /\ id \in Nat
  /\ told \in [id : Nat, status : {0, 1}]

\* At most one usb8030_info exists, and the interface is claimed for it; a
\* scan opens a device only when there is none.
PhaseInv ==
  /\ poll \in {"scan", "close"} => mode = "scan"
  /\ poll = "host" => mode = "host"
  /\ poll = "close" => ret = "list"
  /\ poll \in Loop => (dev <=> listed)
  /\ poll \notin Loop => dev /\ ~ listed /\ claimed
  /\ poll \in {"scan", "host"} => (claimed <=> dev)
  /\ poll \in {"close", "start"} => IF openable THEN ~ dev /\ claimed ELSE claimed <=> dev
  /\ poll \in Down /\ ret = "list" /\ mode = "scan" => ~ openable

\* How far the tear-down is.
StepsInv ==
  /\ plist <=> dev /\ poll \notin {"cancel", "free_tx", "free_rx", "free_rx_wait", "free"}
  /\ listed \/ poll = "alive" => ~ exitflg /\ run /\ ~ cancelled
  /\ dev => (drop_step <=> poll # "alive")
  /\ poll \in {"free_rx", "free_rx_wait", "free"} => txpop = TxSize
  /\ poll = "free" => rcv_release_cnt = RxSize

\* The last hotplug event says what the list says.
ToldInv ==
  /\ poll \in Loop \cup {"alive"} => (told.status = 1 <=> listed)
  /\ poll \in Down /\ told.status = 1 => ret = "list"
  /\ listed => told.id = id

\* Every transfer is in one place, and nothing is left when the memory is.
TransferInv ==
  /\ dev => /\ txq + Len(toDev) + txpop + N(snd = "submit") = TxSize
            /\ rxfly + rxlost + rcv_release_cnt + N(rcv = "alive") = RxSize
  /\ ~ dev => toDev = <<>> /\ rxfly = 0
  /\ ~ plist => snd = "end" /\ rcv = "end"

IInv == TypeOK /\ KindsInv /\ PhaseInv /\ StepsInv /\ ToldInv /\ TransferInv

\* The packets on their way or about to be.
Sending == snd \in {"write", "gap", "wait", "submit"}

(* The handshake goes forward once the buffer length was asked for: until  *)
(* the send thread reads "get_len", and while it may still write           *)
(* "keep_alive" over it, no query of the length (0) is anywhere, so that   *)
(* what then arrives cannot end the handshake behind its back.             *)
OrderInv ==
  /\ snd = "mark" => sdpack = 1 /\ init_seq # "normal"
  /\ init_seq = "normal" => len
  /\ rcv = "alive" \/ (dev /\ alive_flg) \/ listed => init_seq = "normal"
  /\ ~ dev => replies = <<>>
  /\ snd = "mark" \/ init_seq \in {"not_init", "keep_alive"} =>
       /\ \A k \in DOMAIN toDev : toDev[k] # 0
       /\ \A k \in DOMAIN replies : replies[k] # 0
       /\ Sending => sdpack # 0

-----------------------------------------------------------------------------
(* Queues of packets.                                                      *)

(* The first of a queue and the rest of it.                                *)
LEMMA QueueFacts ==
  ASSUME NEW q \in Seq(0 .. 2), q # <<>>
  PROVE  /\ Head(q) \in 0 .. 2 /\ Head(q) = q[1] /\ 1 \in DOMAIN q
         /\ Tail(q) \in Seq(0 .. 2) /\ Len(Tail(q)) = Len(q) - 1 /\ Len(q) > 0
         /\ \A k \in DOMAIN Tail(q) : k + 1 \in DOMAIN q /\ Tail(q)[k] = q[k + 1]
<1> QED
  OBVIOUS

(* A queue with one packet more.                                           *)
LEMMA AppendFacts ==
  ASSUME NEW q \in Seq(0 .. 2), NEW p \in 0 .. 2
  PROVE  /\ Append(q, p) \in Seq(0 .. 2) /\ Len(Append(q, p)) = Len(q) + 1
         /\ \A k \in DOMAIN Append(q, p) :
              IF k = Len(q) + 1 THEN Append(q, p)[k] = p
                                ELSE k \in DOMAIN q /\ Append(q, p)[k] = q[k]
<1> QED
  OBVIOUS

-----------------------------------------------------------------------------
(* The steps that disturb several parts of the invariant.                  *)

(* The device goes with its replies.                                       *)
LEMMA VanishIInv == IInv /\ Vanish => IInv'
<1> SUFFICES ASSUME IInv, Vanish PROVE IInv'
  OBVIOUS
<1>1. TypeOK'
  <2>1. <<>> \in Seq(0 .. 2)
    OBVIOUS
  <2> QED
    BY <2>1 DEF IInv, TypeOK, Vanish, ctl, life, tx, rx, shake, alive, list
<1> USE SizesAssumption, BoundsAssumption, ModesAssumption DEF IInv, TypeOK, KindsInv, PhaseInv,
      StepsInv, ToldInv,
      TransferInv, N, Loop, Down, Kinds, Goto
<1>2. KindsInv'
  BY DEF Vanish, port, bus, ctl, life, tx, rx, shake, alive, list
<1>3. PhaseInv'
  BY DEF Vanish, port, bus, ctl, life, tx, rx, shake, alive, list
<1>4. StepsInv'
  BY DEF Vanish, port, bus, ctl, life, tx, rx, shake, alive, list
<1>5. ToldInv'
  BY DEF Vanish, port, bus, ctl, life, tx, rx, shake, alive, list
<1>6. TransferInv'
  BY DEF Vanish, port, bus, ctl, life, tx, rx, shake, alive, list
<1> QED
  BY <1>1, <1>2, <1>3, <1>4, <1>5, <1>6 DEF IInv

(* A listed device that the scan did not see is taken from the list.       *)
LEMMA CheckCloseIInv == IInv /\ CheckClose => IInv'
<1> SUFFICES ASSUME IInv, CheckClose PROVE IInv'
  OBVIOUS
<1>1. TypeOK'
  BY DEF IInv, TypeOK, CheckClose, port, bus, life, tx, rx, shake, alive
<1> USE SizesAssumption, BoundsAssumption, ModesAssumption DEF IInv, TypeOK, KindsInv, PhaseInv,
      StepsInv, ToldInv,
      TransferInv, N, Loop, Down, Kinds, Goto
<1>2. KindsInv'
  BY DEF CheckClose, port, bus, ctl, life, tx, rx, shake, alive, list
<1>3. PhaseInv'
  BY DEF CheckClose, port, bus, ctl, life, tx, rx, shake, alive, list
<1>4. StepsInv'
  BY DEF CheckClose, port, bus, ctl, life, tx, rx, shake, alive, list
<1>5. ToldInv'
  BY DEF CheckClose, port, bus, ctl, life, tx, rx, shake, alive, list
<1>6. TransferInv'
  BY DEF CheckClose, port, bus, ctl, life, tx, rx, shake, alive, list
<1> QED
  BY <1>1, <1>2, <1>3, <1>4, <1>5, <1>6 DEF IInv

(* The host takes a device away.                                           *)
LEMMA HostDelIInv == IInv /\ HostDel => IInv'
<1> SUFFICES ASSUME IInv, HostDel PROVE IInv'
  OBVIOUS
<1> USE SizesAssumption, BoundsAssumption, ModesAssumption DEF IInv, TypeOK, KindsInv, PhaseInv,
      StepsInv, ToldInv,
      TransferInv, N, Loop, Down, Kinds, Goto
<1>1. TypeOK'
  BY DEF HostDel, port, bus, ctl, life, tx, rx, shake, alive, list
<1>2. KindsInv'
  BY DEF HostDel, port, bus, ctl, life, tx, rx, shake, alive, list
<1>3. PhaseInv'
  BY DEF HostDel, port, bus, ctl, life, tx, rx, shake, alive, list
<1>4. StepsInv'
  BY DEF HostDel, port, bus, ctl, life, tx, rx, shake, alive, list
<1>5. ToldInv'
  BY DEF HostDel, port, bus, ctl, life, tx, rx, shake, alive, list
<1>6. TransferInv'
  BY DEF HostDel, port, bus, ctl, life, tx, rx, shake, alive, list
<1> QED
  BY <1>1, <1>2, <1>3, <1>4, <1>5, <1>6 DEF IInv

(* A device that was opened is set up: every transfer waits or is          *)
(* submitted.                                                              *)
LEMMA StartIInv == IInv /\ Start => IInv'
<1> SUFFICES ASSUME IInv, Start PROVE IInv'
  OBVIOUS
<1>1. TypeOK'
  <2>1. CASE openable
    <3>1. /\ present' \in BOOLEAN /\ kind' \in Kinds /\ plugs' \in 0 .. MaxPlugs
          /\ toDev' \in Seq(0 .. 2) /\ replies' \in Seq(0 .. 2)
      BY DEF IInv, TypeOK, Start, port, bus
    <3>2. {seen, openable, claimed, dev, plist, exitflg, run, cancelled}' \subseteq BOOLEAN
      BY <2>1 DEF IInv, TypeOK, Start, SetUsbInfo
    <3>3. {len, once, nodes, alive_flg, drop_step, listed}' \subseteq BOOLEAN
      BY <2>1 DEF IInv, TypeOK, Start, BaseAdd, list
    <3>4. /\ txq' \in 0 .. TxSize /\ txpop' \in 0 .. TxSize
          /\ rxfly' \in 0 .. RxSize /\ rxlost' \in 0 .. RxSize /\ rcv_release_cnt' \in 0 .. RxSize
      BY <2>1, SizesAssumption DEF IInv, TypeOK, Start, SetUsbInfo
    <3>5. snd' = "scan" /\ rcv' = "loop" /\ init_seq' = "not_init"
      BY <2>1 DEF Start, ListInit, BaseAdd
    <3> QED
      BY <3>1, <3>2, <3>3, <3>4, <3>5 DEF TypeOK
  <2>2. CASE ~ openable
    BY <2>2, SizesAssumption
    DEF IInv, TypeOK, Start, Goto, port, bus, life, tx, rx, alive, list
  <2> QED
    BY <2>1, <2>2
<1>6. TransferInv'
  <2>1. CASE openable
    <3>1. toDev' = <<>> /\ dev' = TRUE /\ plist' = TRUE /\ snd' = "scan" /\ rcv' = "loop"
      BY <2>1 DEF IInv, PhaseInv, TransferInv, Start, SetUsbInfo, ListInit, bus
    <3>2. txq' = TxSize /\ txpop' = 0 /\ rcv_release_cnt' = 0
      BY <2>1, SizesAssumption DEF Start, SetUsbInfo
    <3>4. Len(toDev') = 0
      BY <3>1
    <3>5. txq' + Len(toDev') + txpop' + N(snd' = "submit") = TxSize
      BY <3>1, <3>2, <3>4, SizesAssumption DEF N
    <3>6. rxfly' + rxlost' + rcv_release_cnt' + N(rcv' = "alive") = RxSize
      <4>1. RxSize \in Nat /\ RxSize - 0 = RxSize /\ RxSize - RxSize = 0 /\ 0 + RxSize = RxSize
        BY SizesAssumption
      <4>2. \/ rxfly' = RxSize /\ rxlost' = RxSize - RxSize
            \/ rxfly' = 0 /\ rxlost' = RxSize - 0
        BY <2>1 DEF Start, SetUsbInfo
      <4>3. N(rcv' = "alive") = 0
        BY <3>1 DEF N
      <4>4. CASE rxfly' = RxSize /\ rxlost' = RxSize - RxSize
        BY <4>4, <4>1, <4>3, <3>2
      <4>5. CASE rxfly' = 0 /\ rxlost' = RxSize - 0
        BY <4>5, <4>1, <4>3, <3>2
      <4> QED
        BY <4>2, <4>4, <4>5
    <3> QED
      BY <3>1, <3>5, <3>6 DEF TransferInv
  <2>2. CASE ~ openable
    BY <2>2 DEF IInv, TransferInv, N, Start, bus, life, tx, rx
  <2> QED
    BY <2>1, <2>2
<1> USE SizesAssumption, BoundsAssumption, ModesAssumption DEF IInv, TypeOK, KindsInv, PhaseInv,
      StepsInv, ToldInv,
      TransferInv, N, Loop, Down, Kinds, Goto
<1>2. KindsInv'
  BY DEF Start, SetUsbInfo, ListInit, BaseAdd, port, bus, ctl, life, tx, rx, shake, alive, list
<1>3. PhaseInv'
  BY DEF Start, SetUsbInfo, ListInit, BaseAdd, port, bus, ctl, life, tx, rx, shake, alive, list
<1>4. StepsInv'
  BY DEF Start, SetUsbInfo, ListInit, BaseAdd, port, bus, ctl, life, tx, rx, shake, alive, list
<1>5. ToldInv'
  BY DEF Start, SetUsbInfo, ListInit, BaseAdd, port, bus, ctl, life, tx, rx, shake, alive, list
<1> QED
  BY <1>1, <1>2, <1>3, <1>4, <1>5, <1>6 DEF IInv

(* The wait for the handshake ends.                                        *)
LEMMA JudgeIInv == IInv /\ Judge => IInv'
<1> SUFFICES ASSUME IInv, Judge PROVE IInv'
  OBVIOUS
<1> USE SizesAssumption, BoundsAssumption, ModesAssumption DEF IInv, TypeOK, KindsInv, PhaseInv,
      StepsInv, ToldInv,
      TransferInv, N, Loop, Down, Kinds, Goto
<1>1. TypeOK'
  <2>1. UNCHANGED <<port, bus, mode, seen, openable, claimed, life, tx, rx, snd, rcv>>
    BY DEF Judge
  <2>2. drop_step' = TRUE /\ UNCHANGED <<sdpack, shake, alive_flg>> /\ listed' \in BOOLEAN
    BY DEF Judge, PlugIn, list
  <2> QED
    BY <2>1, <2>2 DEF port, bus, ctl, life, tx, rx, shake, alive
<1>2. KindsInv'
  BY DEF Judge, PlugIn, port, bus, ctl, life, tx, rx, shake, alive, list
<1>3. PhaseInv'
  BY DEF Judge, PlugIn, port, bus, ctl, life, tx, rx, shake, alive, list
<1>4. StepsInv'
  BY DEF Judge, PlugIn, port, bus, ctl, life, tx, rx, shake, alive, list
<1>5. ToldInv'
  BY DEF Judge, PlugIn, port, bus, ctl, life, tx, rx, shake, alive, list
<1>6. TransferInv'
  BY DEF Judge, PlugIn, port, bus, ctl, life, tx, rx, shake, alive, list
<1> QED
  BY <1>1, <1>2, <1>3, <1>4, <1>5, <1>6 DEF IInv

(* The nodes are gone.                                                     *)
LEMMA ForceExitIInv == IInv /\ ForceExit => IInv'
<1> SUFFICES ASSUME IInv, ForceExit PROVE IInv'
  OBVIOUS
<1>1. TypeOK'
  BY DEF IInv, TypeOK, ForceExit, port, bus, tx, rx, shake, alive, list
<1> USE SizesAssumption, BoundsAssumption, ModesAssumption DEF IInv, TypeOK, KindsInv, PhaseInv,
      StepsInv, ToldInv,
      TransferInv, N, Loop, Down, Kinds, Goto
<1>2. KindsInv'
  BY DEF ForceExit, DelWorkNod, port, bus, ctl, life, tx, rx, shake, alive, list
<1>3. PhaseInv'
  BY DEF ForceExit, DelWorkNod, port, bus, ctl, life, tx, rx, shake, alive, list
<1>4. StepsInv'
  BY DEF ForceExit, DelWorkNod, port, bus, ctl, life, tx, rx, shake, alive, list
<1>5. ToldInv'
  BY DEF ForceExit, DelWorkNod, port, bus, ctl, life, tx, rx, shake, alive, list
<1>6. TransferInv'
  BY DEF ForceExit, DelWorkNod, port, bus, ctl, life, tx, rx, shake, alive, list
<1> QED
  BY <1>1, <1>2, <1>3, <1>4, <1>5, <1>6 DEF IInv

(* The threads have ended; their list is freed.                            *)
LEMMA JoinIInv == IInv /\ Join => IInv'
<1> SUFFICES ASSUME IInv, Join PROVE IInv'
  OBVIOUS
<1> USE SizesAssumption, BoundsAssumption, ModesAssumption DEF IInv, TypeOK, KindsInv, PhaseInv,
      StepsInv, ToldInv,
      TransferInv, N, Loop, Down, Kinds, Goto
<1>1. TypeOK'
  BY DEF Join, port, bus, ctl, life, tx, rx, shake, alive, list
<1>2. KindsInv'
  BY DEF Join, port, bus, ctl, life, tx, rx, shake, alive, list
<1>3. PhaseInv'
  BY DEF Join, port, bus, ctl, life, tx, rx, shake, alive, list
<1>4. StepsInv'
  BY DEF Join, port, bus, ctl, life, tx, rx, shake, alive, list
<1>5. ToldInv'
  BY DEF Join, port, bus, ctl, life, tx, rx, shake, alive, list
<1>6. TransferInv'
  BY DEF Join, port, bus, ctl, life, tx, rx, shake, alive, list
<1> QED
  BY <1>1, <1>2, <1>3, <1>4, <1>5, <1>6 DEF IInv

(* The device is freed: every transfer is back, and no thread runs.        *)
LEMMA FreeIInv == IInv /\ Free => IInv'
<1> SUFFICES ASSUME IInv, Free PROVE IInv'
  OBVIOUS
<1> USE SizesAssumption DEF IInv, Free
<1>1. txq = 0 /\ Len(toDev) = 0 /\ rxfly = 0 /\ ~ plist /\ dev /\ ~listed
  BY DEF TypeOK, PhaseInv, StepsInv, Loop, TransferInv, N
<1>2. toDev = <<>>
  BY <1>1 DEF TypeOK
<1>3. replies' \in Seq(0 .. 2)
  BY DEF TypeOK
<1>4. TypeOK'
  BY <1>3 DEF TypeOK, port, tx, rx, shake, alive
<1>5. KindsInv' /\ PhaseInv'
  BY <1>1 DEF KindsInv, PhaseInv, Goto, Unplugged, Loop, Down, TypeOK
<1>6. StepsInv' /\ ToldInv'
  BY <1>1 DEF KindsInv, PhaseInv, StepsInv, ToldInv, Goto, Unplugged, Loop, Down, alive
<1>7. TransferInv'
  BY <1>1, <1>2 DEF TransferInv, rx
<1> QED
  BY <1>4, <1>5, <1>6, <1>7

(* The send thread makes a packet.                                         *)
LEMMA SendMakeIInv == IInv /\ SendMake => IInv'
<1> SUFFICES ASSUME IInv, SendMake PROVE IInv'
  OBVIOUS
<1>1. TypeOK'
  <2>1. snd' \in {"write", "mark", "scan"} /\ once' \in BOOLEAN
    BY DEF IInv, TypeOK, SendMake, Sends
  <2> QED
    BY <2>1 DEF IInv, TypeOK, SendMake, port, bus, ctl, life, tx, rx, alive, list
<1> USE SizesAssumption, BoundsAssumption, ModesAssumption DEF IInv, TypeOK, KindsInv, PhaseInv,
      StepsInv, ToldInv,
      TransferInv, N, Loop, Down, Kinds, Goto
<1>2. KindsInv'
  BY DEF SendMake, Sends, port, bus, ctl, life, tx, rx, shake, alive, list
<1>3. PhaseInv'
  BY DEF SendMake, Sends, port, bus, ctl, life, tx, rx, shake, alive, list
<1>4. StepsInv'
  BY DEF SendMake, Sends, port, bus, ctl, life, tx, rx, shake, alive, list
<1>5. ToldInv'
  BY DEF SendMake, Sends, port, bus, ctl, life, tx, rx, shake, alive, list
<1>6. TransferInv'
  BY DEF SendMake, Sends, port, bus, ctl, life, tx, rx, shake, alive, list
<1> QED
  BY <1>1, <1>2, <1>3, <1>4, <1>5, <1>6 DEF IInv

(* A node is deleted.                                                      *)
LEMMA SendDeleteIInv == IInv /\ SendDelete => IInv'
<1> SUFFICES ASSUME IInv, SendDelete PROVE IInv'
  OBVIOUS
<1> USE SizesAssumption, BoundsAssumption, ModesAssumption DEF IInv, TypeOK, KindsInv, PhaseInv,
      StepsInv, ToldInv,
      TransferInv, N, Loop, Down, Kinds, Goto
<1>1. TypeOK'
  BY DEF SendDelete, NeedWrite, Sends, port, bus, ctl, life, tx, rx, shake, alive, list
<1>2. KindsInv'
  BY DEF SendDelete, NeedWrite, Sends, port, bus, ctl, life, tx, rx, shake, alive, list
<1>3. PhaseInv'
  BY DEF SendDelete, NeedWrite, Sends, port, bus, ctl, life, tx, rx, shake, alive, list
<1>4. StepsInv'
  BY DEF SendDelete, NeedWrite, Sends, port, bus, ctl, life, tx, rx, shake, alive, list
<1>5. ToldInv'
  BY DEF SendDelete, NeedWrite, Sends, port, bus, ctl, life, tx, rx, shake, alive, list
<1>6. TransferInv'
  BY DEF SendDelete, NeedWrite, Sends, port, bus, ctl, life, tx, rx, shake, alive, list
<1> QED
  BY <1>1, <1>2, <1>3, <1>4, <1>5, <1>6 DEF IInv

(* A transfer is submitted, or the submission fails and it is back.        *)
LEMMA WriteSubmitIInv == IInv /\ WriteSubmit => IInv'
<1> SUFFICES ASSUME IInv, WriteSubmit PROVE IInv'
  OBVIOUS
<1>1. dev /\ txq + Len(toDev) + txpop + 1 = TxSize /\ Len(toDev) \in Nat
  BY DEF IInv, WriteSubmit, Sends, TypeOK, StepsInv, TransferInv, N
<1>2. /\ toDev' \in Seq(0 .. 2) /\ txq' \in 0 .. TxSize
      /\ txq' + Len(toDev') + txpop = TxSize
  <2>1. toDev \in Seq(0 .. 2) /\ sdpack \in 0 .. 2
    BY DEF IInv, TypeOK, KindsInv
  <2>2. Append(toDev, sdpack) \in Seq(0 .. 2) /\ Len(Append(toDev, sdpack)) = Len(toDev) + 1
    BY <2>1, AppendFacts
  <2>3. txq \in Nat /\ txpop \in Nat
    BY SizesAssumption DEF IInv, TypeOK
  <2>4. /\ toDev' \in Seq(0 .. 2)
        /\ \/ Len(toDev') = Len(toDev) + 1 /\ txq' = txq
           \/ Len(toDev') = Len(toDev) /\ txq' = txq + 1
    BY <2>1, <2>2 DEF WriteSubmit
  <2> QED
    BY <1>1, <2>3, <2>4, SizesAssumption
<1>3. TypeOK'
  BY <1>2 DEF IInv, TypeOK, WriteSubmit, Sends, port, ctl, life, rx, shake, alive, list
<1>4. KindsInv' /\ PhaseInv' /\ StepsInv' /\ ToldInv'
  BY DEF IInv, KindsInv, PhaseInv, StepsInv, ToldInv, Loop, Down, WriteSubmit, port, ctl, life, rx,
         shake, alive, list
<1>5. TransferInv'
  BY <1>1, <1>2 DEF IInv, TypeOK, WriteSubmit, Sends, TransferInv, N, life, rx
<1> QED
  BY <1>3, <1>4, <1>5 DEF IInv

(* The callback of a tx transfer puts it back and wakes the writer.        *)
LEMMA TxBackIInv == IInv /\ (TxDone \/ TxAborted) => IInv'
<1> SUFFICES ASSUME IInv, TxDone \/ TxAborted PROVE IInv'
  OBVIOUS
<1>0. /\ toDev \in Seq(0 .. 2) /\ toDev # <<>> /\ toDev' = Tail(toDev)
      /\ replies \in Seq(0 .. 2) /\ Released /\ txpop' = txpop /\ dev' = dev
  BY DEF IInv, TypeOK, TxDone, TxAborted, life
<1>1. dev
  BY <1>0 DEF IInv, TransferInv
<1>2. /\ toDev' \in Seq(0 .. 2) /\ Head(toDev) \in 0 .. 2
      /\ Len(toDev) = Len(toDev') + 1 /\ Len(toDev') \in Nat
  BY <1>0, QueueFacts
<1>3. replies' \in Seq(0 .. 2)
  <2>1. Append(replies, Head(toDev)) \in Seq(0 .. 2)
    BY <1>0, <1>2
  <2> QED
    BY <1>0, <2>1 DEF TxDone, TxAborted
<1>4. /\ snd' \in {"scan", "make", "mark", "write", "gap", "wait", "submit", "end"}
      /\ (snd = "end" => snd' = "end") /\ (snd' = "submit" <=> snd = "submit")
  BY <1>0 DEF IInv, TypeOK, Released, Woken
<1>5. /\ txq' = txq + 1 /\ txq' \in 0 .. TxSize
      /\ txq' + Len(toDev') + txpop + N(snd' = "submit") = TxSize
  <2>1. /\ txq \in Nat /\ txpop \in Nat
        /\ N(snd' = "submit") = N(snd = "submit") /\ N(snd = "submit") \in {0, 1}
    BY <1>4, SizesAssumption DEF IInv, TypeOK, N
  <2>2. txq + Len(toDev) + txpop + N(snd = "submit") = TxSize
    BY <1>1 DEF IInv, TransferInv
  <2> QED
    BY <1>0, <1>2, <2>1, <2>2, SizesAssumption DEF Released
<1>6. TransferInv'
  BY <1>0, <1>1, <1>4, <1>5, <1>2 DEF IInv, TransferInv, TxDone, TxAborted, life, rx
<1>7. TypeOK'
  BY <1>2, <1>3, <1>4, <1>5 DEF IInv, TypeOK, TxDone, TxAborted, Released, port, ctl, life, rx,
     shake, alive, list
<1>8. KindsInv' /\ PhaseInv' /\ StepsInv' /\ ToldInv'
  BY DEF IInv, KindsInv, PhaseInv, ToldInv, StepsInv, Loop, Down, TxDone, TxAborted, port, ctl,
     life,
         rx, shake, alive, list
<1> QED
  BY <1>6, <1>7, <1>8 DEF IInv

(* A reply is read; its transfer is submitted again, lost or kept.         *)
LEMMA RxDataIInv == IInv /\ RxData => IInv'
<1> SUFFICES ASSUME IInv, RxData PROVE IInv'
  OBVIOUS
<1>1. dev /\ rxfly > 0
  BY DEF IInv, RxData, TransferInv
<1>2. /\ rxfly + rxlost + rcv_release_cnt + N(rcv = "alive") = RxSize
      /\ N(rcv = "alive") \in {0, 1} /\ rxfly \in Nat /\ rxlost \in Nat /\ rcv_release_cnt \in Nat
  BY <1>1, SizesAssumption DEF IInv, TypeOK, TransferInv, N
<1>3. /\ replies' \in Seq(0 .. 2) /\ present' \in BOOLEAN
  <2>1. replies \in Seq(0 .. 2) /\ replies # <<>> /\ present \in BOOLEAN
    BY DEF IInv, TypeOK, RxData
  <2>2. Tail(replies) \in Seq(0 .. 2) /\ <<>> \in Seq(0 .. 2)
    BY <2>1, QueueFacts
  <2> QED
    BY <2>1, <2>2 DEF RxData, SetUpRd, port
<1>7. /\ rxfly' \in 0 .. RxSize /\ rxlost' \in 0 .. RxSize /\ rcv_release_cnt' \in 0 .. RxSize
      /\ rxfly' + rxlost' + rcv_release_cnt' + N(rcv' = "alive") = RxSize
      /\ poll = "free" => rcv_release_cnt' = RxSize
      /\ ~ plist => rcv' = "end"
  <2>1. CASE init_seq = "get_len" /\ init_seq' = "normal" /\ ~ drop_step
    <3>1. plist /\ rcv # "alive" /\ poll # "free"
      BY <2>1, <1>1 DEF IInv, RxData, StepsInv, Events
    <3>2. rcv' = "alive" /\ rxfly' = rxfly - 1 /\ rxlost' = rxlost /\ rcv_release_cnt' = rcv_release_cnt
      BY <2>1 DEF RxData
    <3> QED BY <3>1, <3>2, <1>1, <1>2 DEF N
  <2>2. CASE ~ (init_seq = "get_len" /\ init_seq' = "normal" /\ ~ drop_step)
    <3>1. /\ rcv' = rcv /\ rcv_release_cnt' = rcv_release_cnt
          /\ \/ rxfly' = rxfly /\ rxlost' = rxlost
             \/ rxfly' = rxfly - 1 /\ rxlost' = rxlost + 1
      BY <2>2 DEF RxData, SetUpRd
    <3> QED BY <3>1, <1>1, <1>2 DEF N, IInv, TransferInv, StepsInv
  <2> QED BY <2>1, <2>2
<1>4. /\ snd' \in {"scan", "make", "mark", "write", "gap", "wait", "submit", "end"}
      /\ rcv' \in {"loop", "alive", "end"}
      /\ (snd = "end" => snd' = "end") /\ (snd' = "submit" <=> snd = "submit")
  BY DEF IInv, RxData, TypeOK
<1>5. init_seq' \in {"not_init", "keep_alive", "get_len", "normal"}
  BY DEF IInv, RxData, TypeOK, Proc
<1>6. {len, nodes}' \subseteq BOOLEAN
  BY DEF IInv, RxData, TypeOK, Proc
<1>8. TypeOK'
  BY <1>3, <1>4, <1>5, <1>6, <1>7 DEF IInv, RxData, TypeOK, ctl, life, tx, alive, list
<1>9. KindsInv' /\ PhaseInv' /\ StepsInv' /\ ToldInv'
  BY <1>1, <1>7 DEF IInv, RxData, KindsInv, PhaseInv, ToldInv, StepsInv, Loop, Down, ctl, life, tx,
                    alive, list
<1>10. TransferInv'
  BY <1>1, <1>4, <1>7 DEF IInv, RxData, TransferInv, N, life, tx
<1> QED
  BY <1>8, <1>9, <1>10 DEF IInv

(* The handshake is noticed; the transfer that brought it is submitted     *)
(* again.                                                                  *)
LEMMA AliveCbIInv == IInv /\ AliveCb => IInv'
<1> SUFFICES ASSUME IInv, AliveCb PROVE IInv'
  OBVIOUS
<1>1. dev /\ rxfly + rxlost + rcv_release_cnt + 1 = RxSize
  BY DEF IInv, AliveCb, TypeOK, PhaseInv, Loop, TransferInv, N
<1>2. /\ rxfly' \in 0 .. RxSize /\ rxlost' \in 0 .. RxSize
      /\ rxfly' + rxlost' + rcv_release_cnt = RxSize /\ rcv_release_cnt \in Nat
  <2>1. rxfly \in Nat /\ rxlost \in Nat /\ rcv_release_cnt \in Nat
    BY SizesAssumption DEF IInv, TypeOK
  <2>2. \/ rxfly' = rxfly + 1 /\ rxlost' = rxlost
        \/ rxfly' = rxfly /\ rxlost' = rxlost + 1
    BY DEF AliveCb
  <2> QED
    BY <1>1, <2>1, <2>2, SizesAssumption
<1>3. TransferInv'
  BY <1>1, <1>2 DEF IInv, AliveCb, TransferInv, N, life, bus, tx
<1>4. TypeOK'
  BY <1>2 DEF IInv, AliveCb, TypeOK, port, bus, ctl, life, tx, shake, list
<1>5. KindsInv' /\ PhaseInv' /\ StepsInv' /\ ToldInv'
  BY DEF IInv, AliveCb, KindsInv, PhaseInv, StepsInv, ToldInv, Loop, Down, port, bus, ctl, life, tx,
         shake, list
<1> QED
  BY <1>3, <1>4, <1>5 DEF IInv

(* Every step of the port, of the three threads and of libusb preserves    *)
(* the invariant.                                                          *)
LEMMA NextIInv == IInv /\ [Next]_vars => IInv'
<1> SUFFICES ASSUME IInv, [Next]_vars PROVE IInv'
  OBVIOUS
<1> USE SizesAssumption, BoundsAssumption, ModesAssumption DEF IInv, TypeOK, KindsInv, PhaseInv,
      StepsInv, ToldInv,
      TransferInv, N, Loop, Down, Kinds, Goto
<1>1. CASE Plug
  BY <1>1 DEF Plug, port, bus, ctl, life, tx, rx, shake, alive, list
<1>2. CASE Vanish
  BY <1>2, VanishIInv
<1>3. CASE Scan
  BY <1>3 DEF Scan, Probe, port, bus, ctl, life, tx, rx, shake, alive, list
<1>4. CASE CheckClose
  BY <1>4, CheckCloseIInv
<1>5. CASE HostAdd
  BY <1>5 DEF HostAdd, port, bus, ctl, life, tx, rx, shake, alive, list
<1>6. CASE HostDel
  BY <1>6, HostDelIInv
<1>7. CASE Start
  BY <1>7, StartIInv
<1>8. CASE Judge
  BY <1>8, JudgeIInv
<1>9. CASE Exit
  BY <1>9 DEF Exit, Woken, port, bus, ctl, life, tx, rx, shake, alive, list
<1>10. CASE ForceExit
  BY <1>10, ForceExitIInv
<1>11. CASE Join
  BY <1>11, JoinIInv
<1>12. CASE Cancel
  BY <1>12 DEF Cancel, port, bus, ctl, life, tx, rx, shake, alive, list
<1>13. CASE FreeTx
  BY <1>13 DEF FreeTx, port, bus, ctl, life, tx, rx, shake, alive, list
<1>14. CASE FreeRx
  BY <1>14 DEF FreeRx, AllReleased, port, bus, ctl, life, tx, rx, shake, alive, list
<1>15. CASE Free
  BY <1>15, FreeIInv
<1>16. CASE SendTick
  BY <1>16 DEF SendTick, NeedWrite, Sends, port, bus, ctl, life, tx, rx, shake, alive, list
<1>17. CASE SendScan
  BY <1>17 DEF SendScan, NeedWrite, Sends, port, bus, ctl, life, tx, rx, shake, alive, list
<1>18. CASE SendDelete
  BY <1>18, SendDeleteIInv
<1>19. CASE SendMake
  BY <1>19, SendMakeIInv
<1>20. CASE SendMark
  BY <1>20 DEF SendMark, Sends, port, bus, ctl, life, tx, rx, shake, alive, list
<1>21. CASE WriteTake
  BY <1>21 DEF WriteTake, Sends, port, bus, ctl, life, tx, rx, shake, alive, list
<1>22. CASE WriteFull
  BY <1>22 DEF WriteFull, Sends, port, bus, ctl, life, tx, rx, shake, alive, list
<1>23. CASE WriteSleep
  BY <1>23 DEF WriteSleep, Sends, port, bus, ctl, life, tx, rx, shake, alive, list
<1>24. CASE WriteExit
  BY <1>24 DEF WriteExit, Sends, port, bus, ctl, life, tx, rx, shake, alive, list
<1>25. CASE WriteSubmit
  BY <1>25, WriteSubmitIInv
<1>26. CASE SendEnd
  BY <1>26 DEF SendEnd, port, bus, ctl, life, tx, rx, shake, alive, list
<1>27. CASE TxDone
  BY <1>27, TxBackIInv
<1>28. CASE TxAborted
  BY <1>28, TxBackIInv
<1>29. CASE RxData
  BY <1>29, RxDataIInv
<1>30. CASE AliveCb
  BY <1>30, AliveCbIInv
<1>31. CASE RxAborted
  BY <1>31 DEF RxAborted, Events, RdRelease, Woken, port, bus, ctl, life, tx, rx, shake, alive, list
<1>32. CASE RecvEnd
  BY <1>32 DEF RecvEnd, port, bus, ctl, life, tx, rx, shake, alive, list
<1>33. CASE UNCHANGED vars
  BY <1>33 DEF vars, port, bus, ctl, life, tx, rx, shake, alive, list
<1> QED
  BY <1>1, <1>2, <1>3, <1>4, <1>5, <1>6, <1>7, <1>8, <1>9, <1>10, <1>11, <1>12, <1>13, <1>14,
     <1>15, <1>16, <1>17, <1>18, <1>19, <1>20, <1>21, <1>22, <1>23, <1>24, <1>25, <1>26, <1>27,
     <1>28, <1>29, <1>30, <1>31, <1>32, <1>33
  DEF Next, Poll, Send, Recv

-----------------------------------------------------------------------------
(* Results.                                                                *)

(* No device is there when the daemon starts.                              *)
LEMMA InitIInv == Init => IInv
<1> SUFFICES ASSUME Init PROVE IInv
  OBVIOUS
<1>1. TypeOK
  <2>1. toDev \in Seq(0 .. 2) /\ replies \in Seq(0 .. 2)
    BY DEF Init
  <2>2. /\ {seen, openable, claimed, dev, plist, exitflg, run, cancelled} \subseteq BOOLEAN
        /\ {len, once, nodes, alive_flg, drop_step, listed} \subseteq BOOLEAN
    BY DEF Init
  <2>3. /\ txq \in 0 .. TxSize /\ txpop \in 0 .. TxSize /\ plugs \in 0 .. MaxPlugs
        /\ rxfly \in 0 .. RxSize /\ rxlost \in 0 .. RxSize /\ rcv_release_cnt \in 0 .. RxSize
    BY SizesAssumption, BoundsAssumption DEF Init
  <2> QED
    BY <2>1, <2>2, <2>3 DEF Init, TypeOK, Kinds
<1>2. KindsInv /\ PhaseInv
  BY ModesAssumption DEF Init, KindsInv, PhaseInv, Loop, Down
<1>3. StepsInv
  BY ModesAssumption DEF Init, StepsInv
<1>4. ToldInv
  BY ModesAssumption DEF Init, ToldInv, Down
<1>5. TransferInv
  BY DEF Init, TransferInv, N
<1> QED
  BY <1>1, <1>2, <1>3, <1>4, <1>5 DEF IInv

(* What the poll thread knows, how far a tear-down is and where the        *)
(* transfers are agree in every reachable state.                           *)
THEOREM Invariant == Spec => []IInv
<1> QED
  BY InitIInv, NextIInv, PTL DEF Spec

(* usb_8030_free_all_transfer: whatever the order in which transfers       *)
(* return, fail and are submitted, when the device is freed libusb has     *)
(* none of its transfers, and its threads have ended when their list is.   *)
THEOREM TearDown == Spec => []TearDownSafe
<1>1. IInv => TearDownSafe
  BY DEF IInv, TransferInv, TearDownSafe
<1> QED
  BY <1>1, Invariant, PTL

-----------------------------------------------------------------------------
(* The handshake, of devices that forget what nobody read.                 *)

(* At the start nothing is on its way.                                     *)
LEMMA InitOrder == Init => OrderInv
  BY DEF Init, OrderInv, Sending

(* A transfer that is done takes a packet to the device, and its answer is *)
(* to that packet.                                                         *)
LEMMA TxDoneOrder ==
  ASSUME IInv, OrderInv, TxDone \/ TxAborted
  PROVE  OrderInv'
<1>1. /\ toDev \in Seq(0 .. 2) /\ toDev # <<>> /\ toDev' = Tail(toDev) /\ replies \in Seq(0 .. 2)
      /\ replies' = Append(replies, Head(toDev)) \/ replies' = replies
      /\ dev' = dev /\ init_seq' = init_seq /\ sdpack' = sdpack /\ dev
      /\ Released
  BY DEF IInv, TypeOK, TransferInv, TxDone, TxAborted, life, shake
<1>2. (\A k \in DOMAIN toDev : toDev[k] # 0) =>
        (\A k \in DOMAIN toDev' : toDev'[k] # 0) /\ Head(toDev) # 0
  BY <1>1, QueueFacts
<1>3. (\A k \in DOMAIN replies : replies[k] # 0) /\ Head(toDev) # 0 =>
        \A k \in DOMAIN replies' : replies'[k] # 0
  <2>1. Head(toDev) \in 0 .. 2
    BY <1>1, QueueFacts
  <2>2. ASSUME NEW k \in DOMAIN Append(replies, Head(toDev)),
               \A j \in DOMAIN replies : replies[j] # 0, Head(toDev) # 0
        PROVE  Append(replies, Head(toDev))[k] # 0
    BY <1>1, <2>1, <2>2, AppendFacts
  <2> QED
    BY <1>1, <2>2
<1>4. (snd' = "mark" <=> snd = "mark") /\ (Sending' <=> Sending)
  BY <1>1 DEF Released, Woken, Sending
<1> QED
  BY <1>1, <1>2, <1>3, <1>4
  DEF OrderInv, TxDone, TxAborted, life, rx, shake, alive, list

(* The send thread decides what to send from init_seq, and writes          *)
(* "keep_alive" after it has let the receive thread run.                   *)
LEMMA SendOrder ==
  ASSUME IInv, OrderInv, Send
  PROVE  OrderInv'
<1>1. CASE WriteSubmit
  <2>1. /\ toDev \in Seq(0 .. 2) /\ sdpack \in 0 .. 2
        /\ toDev' = Append(toDev, sdpack) \/ toDev' = toDev
    BY <1>1 DEF IInv, TypeOK, KindsInv, WriteSubmit
  <2>2. (\A k \in DOMAIN toDev : toDev[k] # 0) /\ sdpack # 0 =>
          \A k \in DOMAIN toDev' : toDev'[k] # 0
    <3>1. ASSUME NEW k \in DOMAIN Append(toDev, sdpack),
                 \A j \in DOMAIN toDev : toDev[j] # 0, sdpack # 0
          PROVE  Append(toDev, sdpack)[k] # 0
      BY <2>1, <3>1, AppendFacts
    <3> QED
      BY <2>1, <3>1
  <2> QED
    BY <1>1, <2>2
    DEF OrderInv, Sending, WriteSubmit, Sends, port, ctl, life, rx, shake, alive, list
<1>2. CASE SendMake \/ SendMark
  BY <1>2 DEF OrderInv, Sending, SendMake, SendMark, Sends, port, bus, ctl, life, tx, rx, shake,
     alive, list, IInv, TypeOK
<1>3. CASE SendTick \/ SendScan \/ SendDelete \/ SendEnd
  BY <1>3 DEF OrderInv, Sending, SendTick, SendScan, SendDelete, SendEnd, Sends, port, bus, ctl,
              life, tx, rx, shake, alive, list
<1>4. CASE WriteTake \/ WriteFull \/ WriteSleep \/ WriteExit
  BY <1>4 DEF OrderInv, Sending, WriteTake, WriteFull, WriteSleep, WriteExit, Sends, port, bus, ctl,
              life, tx, rx, shake, alive, list
<1> QED
  BY <1>1, <1>2, <1>3, <1>4 DEF Send

(* A reply moves the handshake only forward.                               *)
LEMMA RxDataOrder ==
  ASSUME IInv, OrderInv, RxData
  PROVE  OrderInv'
<1>1. /\ replies \in Seq(0 .. 2) /\ replies # <<>> /\ dev
      /\ replies' = Tail(replies) \/ replies' = <<>>
  BY DEF IInv, TypeOK, OrderInv, RxData, SetUpRd
<1>2. (\A k \in DOMAIN replies : replies[k] # 0) =>
        (\A k \in DOMAIN replies' : replies'[k] # 0) /\ Head(replies) # 0
  BY <1>1, QueueFacts
<1>3. (snd' = "mark" <=> snd = "mark") /\ (Sending' <=> Sending) /\ sdpack' = sdpack
  BY DEF RxData, Sending
<1>4. /\ dev' = dev /\ alive_flg' = alive_flg /\ listed' = listed /\ toDev' = toDev
      /\ rcv' = rcv \/ (rcv' = "alive" /\ init_seq' = "normal")
  BY DEF RxData, life, alive, list
<1>5. \/ init_seq \in {"not_init", "keep_alive"} /\ init_seq' = "get_len" /\ len' = len
      \/ init_seq = "get_len" /\ Head(replies) = 0 /\ init_seq' = "normal" /\ len'
      \/ init_seq' = init_seq /\ len' = len
  BY DEF RxData, Proc
<1> QED
  BY <1>1, <1>2, <1>3, <1>4, <1>5 DEF OrderInv

(* The poll thread starts a device whose handshake has not begun, and      *)
(* lists one whose handshake is over.                                      *)
LEMMA PollOrder ==
  ASSUME ~ Stale, IInv, OrderInv, Poll
  PROVE  OrderInv'
<1>1. CASE Start
  <2>1. openable => toDev = <<>> /\ replies = <<>> /\ ~ listed
    BY <1>1 DEF IInv, PhaseInv, TransferInv, OrderInv, Start, Loop
  <2> QED
    BY <1>1, <2>1
    DEF OrderInv, Sending, Start, SetUsbInfo, ListInit, BaseAdd, bus, life, rx, alive, list
<1>2. CASE Judge
  BY <1>2 DEF IInv, PhaseInv, Loop, OrderInv, Sending, Judge, PlugIn, bus, life, rx, shake, list
<1>3. CASE Free
  <2>1. toDev = <<>> /\ ~ listed /\ ~ plist
    BY <1>3 DEF IInv, TypeOK, PhaseInv, StepsInv, TransferInv, N, Free, Loop
  <2> QED
    BY <1>3, <2>1 DEF IInv, TransferInv, OrderInv, Sending, Free, rx, shake, alive
<1>4. CASE Exit
  BY <1>4 DEF IInv, OrderInv, Sending, Exit, Woken, bus, rx, shake, alive, list
<1>5. CASE Scan \/ CheckClose \/ HostAdd \/ HostDel
  BY <1>5 DEF OrderInv, Sending, Scan, CheckClose, HostAdd, HostDel, port, bus, life, tx, rx,
     shake, alive, list
<1>6. CASE ForceExit \/ Join \/ Cancel \/ FreeTx \/ FreeRx
  BY <1>6 DEF OrderInv, Sending, ForceExit, Join, Cancel, FreeTx, FreeRx, port, bus, life, tx, rx,
              shake, alive, list
<1> QED
  BY <1>1, <1>2, <1>3, <1>4, <1>5, <1>6 DEF Poll

(* Every step, of devices that forget, keeps the order of the handshake.   *)
LEMMA NextOrder == ~ Stale /\ IInv /\ OrderInv /\ [Next]_vars => OrderInv'
<1> SUFFICES ASSUME ~ Stale, IInv, OrderInv, [Next]_vars PROVE OrderInv'
  OBVIOUS
<1>1. CASE Plug \/ Vanish
  <2>1. replies' = replies \/ replies' = <<>>
    BY <1>1 DEF Plug, Vanish, bus
  <2> QED
    BY <1>1, <2>1 DEF OrderInv, Sending, Plug, Vanish, bus, life, rx, shake, alive, list
<1>2. CASE AliveCb
  BY <1>2 DEF OrderInv, Sending, AliveCb, bus, life, shake, list
<1>3. CASE RxAborted
  BY <1>3 DEF OrderInv, Sending, RxAborted, RdRelease, Woken, bus, life, shake, alive, list
<1>4. CASE RecvEnd
  BY <1>4 DEF OrderInv, Sending, RecvEnd, bus, life, shake, alive, list
<1>5. CASE UNCHANGED vars
  BY <1>5 DEF OrderInv, Sending, vars, bus, life, shake, alive, list
<1> QED
  BY <1>1, <1>2, <1>3, <1>4, <1>5, PollOrder, SendOrder, TxDoneOrder, RxDataOrder DEF Next, Recv

(* usbrpc_get_info and the hotplug event: a device that clients can find   *)
(* has finished its handshake and its buffer length is known, however its  *)
(* answers are delayed and overtaken, and the last event says so.          *)
THEOREM ListedReady ==
  ASSUME ~ Stale
  PROVE  Spec => []ListedIsReady
<1>1. Init => IInv /\ OrderInv
  BY InitIInv, InitOrder
<1>2. (IInv /\ OrderInv) /\ [Next]_vars => (IInv /\ OrderInv)'
  BY NextIInv, NextOrder
<1>3. IInv /\ OrderInv => ListedIsReady
  BY DEF IInv, KindsInv, PhaseInv, StepsInv, ToldInv, OrderInv, ListedIsReady, Loop, Down
<1> QED
  BY <1>1, <1>2, <1>3, PTL DEF Spec

-----------------------------------------------------------------------------
(* The serial devices: the inductive invariant.                            *)

\* The devices, and what is in a list.
Devs == 1 .. Len(uarts)
At(l) == S!ToSet(head[l])
Count(l) == Len(head[l])
LastOf(l) == head[l][Len(head[l])]

\* The types.
Dev == [name : Names, usta : S!Lists, id : Nat, plist : {"null", "raw", "ready", "freed"},
        named : BOOLEAN, offline : BOOLEAN, search : BOOLEAN, recv : BOOLEAN, freed : BOOLEAN]
Adding == [pc : {"idle", "find", "open", "insert"}, name : Names]
Pcs == {"hotplug", "raw", "start", "id", "tell", "unplug", "kill", "gone", "add"}
UartKinds ==
  /\ line \in [Names -> S!Lines] /\ turns \in 0 .. MaxTurns
  /\ uarts \in Seq(Dev) /\ working_cnt \in Int /\ hotplug \in Pcs
  /\ cur \in Nat /\ nxtid \in Nat /\ hotplugs \in Seq([id : Nat, status : {0, 1}])
  /\ adder \in [S!Adders -> Adding]

\* The bound counts the devices and the lines that are being opened.
RoomInv == Len(uarts) + Cardinality(S!Opening) <= MaxAdds

\* An id is given once, to one device.
Given == {i \in Devs : uarts[i].named}
IdsInv ==
  /\ nxtid = Cardinality(Given)
  /\ \A i \in Given : uarts[i].id < nxtid
  /\ \A i, j \in Given : uarts[i].id = uarts[j].id => i = j

\* A device in a list is there once and says so.
HeadsInv ==
  /\ head \in [S!Lists -> Seq(Nat)]
  /\ \A l \in S!Lists : S!IsInjective(head[l])
MemberInv == \A l \in S!Lists : \A i \in At(l) : i \in Devs /\ uarts[i].usta = l
CountInv == working_cnt = Count("work") + Count("unplug")

\* The device the poll thread starts is the last of those at work.
Starting == {"raw", "start", "id"}
Fresh(i) == cur = i /\ hotplug \in Starting
CurInv ==
  /\ hotplug \in Starting =>
       /\ cur \in Devs /\ uarts[cur].usta = "work" /\ ~ uarts[cur].named
       /\ Count("work") > 0 /\ LastOf("work") = cur
  /\ hotplug = "id" => uarts[cur].plist = "ready" /\ uarts[cur].recv
  /\ hotplug = "tell" => cur \in Devs /\ uarts[cur].named /\ ~ uarts[cur].freed
  /\ hotplug = "kill" => /\ cur \in Devs /\ uarts[cur].usta = "unplug" /\ ~ uarts[cur].freed
                         /\ cur \notin At("unplug")
  /\ hotplug = "gone" => cur \in Devs /\ uarts[cur].named /\ uarts[cur].freed

\* What a device has, by the list it is, or was last, in.
DevOf(i) ==
  /\ uarts[i].search => uarts[i].usta = "idle"
  /\ uarts[i].usta = "idle" => i \in At("idle")
  /\ uarts[i].usta \in {"idle", "hotplug"} => ~ uarts[i].recv /\ ~ uarts[i].named /\ ~ uarts[i].freed
  /\ uarts[i].usta = "hotplug" => i \in At("hotplug") \/ i \in overtaken
  /\ uarts[i].usta = "work" =>
       /\ i \in At("work") /\ ~ uarts[i].freed
       /\ ~ Fresh(i) => uarts[i].named /\ uarts[i].recv /\ uarts[i].plist = "ready"
  /\ uarts[i].usta = "unplug" =>
       /\ uarts[i].named /\ uarts[i].offline /\ (uarts[i].freed => ~ uarts[i].recv)
       /\ i \in At("unplug") => ~ uarts[i].freed
       /\ i \notin At("unplug") => uarts[i].freed \/ (i = cur /\ hotplug = "kill")
DevsInv == \A i \in Devs : DevOf(i)

\* Who was announced, and who was withdrawn.
Said(n, status) == \E k \in DOMAIN hotplugs : hotplugs[k].id = n /\ hotplugs[k].status = status
SaidInv ==
  /\ \A k \in DOMAIN hotplugs : \E i \in Given : hotplugs[k].id = uarts[i].id
  /\ \A i \in Given :
       /\ Said(uarts[i].id, 1) <=> ~ (hotplug = "tell" /\ cur = i)
       /\ Said(uarts[i].id, 0) => uarts[i].freed /\ ~ (hotplug = "gone" /\ cur = i)
TurnInv ==
  /\ \A j, k \in DOMAIN hotplugs :
       j < k /\ hotplugs[j].id = hotplugs[k].id => hotplugs[j].status = 1 /\ hotplugs[k].status = 0
  /\ \A j \in DOMAIN hotplugs : hotplugs[j].status = 0 =>
       \E k \in DOMAIN hotplugs : k < j /\ hotplugs[k].id = hotplugs[j].id

UartInv ==
  /\ UartKinds /\ RoomInv /\ IdsInv /\ HeadsInv /\ MemberInv /\ CountInv /\ CurInv
  /\ DevsInv /\ SaidInv /\ TurnInv
-----------------------------------------------------------------------------
(* Lists.                                                                  *)

(* What a list has is of its kind.                                         *)
LEMMA ElementIn == ASSUME NEW T, NEW q \in Seq(T), NEW k \in DOMAIN q PROVE q[k] \in T
<1> QED
  OBVIOUS

(* The first of a list and the rest of it.                                 *)
LEMMA FirstFacts ==
  ASSUME NEW T, NEW q \in Seq(T), q # <<>>, S!IsInjective(q)
  PROVE  /\ Head(q) \in T /\ Head(q) \in S!ToSet(q) /\ Tail(q) \in Seq(T) /\ S!IsInjective(Tail(q))
         /\ S!ToSet(Tail(q)) = S!ToSet(q) \ {Head(q)} /\ Len(Tail(q)) = Len(q) - 1
<1>1. /\ Head(q) \in T /\ Head(q) = q[1] /\ 1 \in DOMAIN q
      /\ Tail(q) \in Seq(T) /\ Len(Tail(q)) = Len(q) - 1
      /\ \A k \in DOMAIN Tail(q) : k \in Nat \ {0} /\ k + 1 \in DOMAIN q /\ Tail(q)[k] = q[k + 1]
      /\ \A k \in DOMAIN q : k = 1 \/ (k - 1 \in DOMAIN Tail(q) /\ Tail(q)[k - 1] = q[k])
  OBVIOUS
<1>2. ASSUME NEW j \in DOMAIN Tail(q), NEW k \in DOMAIN Tail(q), Tail(q)[j] = Tail(q)[k]
      PROVE  j = k
  <2>1. j + 1 = k + 1
    BY <1>1, <1>2 DEF S!IsInjective
  <2> QED
    BY <1>1, <2>1
<1>3. ASSUME NEW k \in DOMAIN Tail(q) PROVE Tail(q)[k] \in S!ToSet(q) /\ Tail(q)[k] # Head(q)
  <2>1. k + 1 # 1
    BY <1>1
  <2> QED
    BY <1>1, <2>1 DEF S!IsInjective, S!ToSet
<1>4. ASSUME NEW x \in S!ToSet(q) PROVE x = Head(q) \/ x \in S!ToSet(Tail(q))
  <2>1. PICK k \in DOMAIN q : q[k] = x
    BY <1>4 DEF S!ToSet
  <2>2. CASE k = 1
    BY <1>1, <2>1, <2>2
  <2>3. CASE k - 1 \in DOMAIN Tail(q) /\ Tail(q)[k - 1] = q[k]
    BY <2>1, <2>3 DEF S!ToSet
  <2> QED
    BY <1>1, <2>1, <2>2, <2>3
<1>5. Head(q) \in S!ToSet(q)
  BY <1>1 DEF S!ToSet
<1>6. S!ToSet(Tail(q)) = S!ToSet(q) \ {Head(q)}
  BY <1>3, <1>4 DEF S!ToSet
<1> QED
  BY <1>1, <1>2, <1>5, <1>6 DEF S!IsInjective

(* A list with one element more at its end.                                *)
LEMMA LastFacts ==
  ASSUME NEW T, NEW q \in Seq(T), NEW x \in T, S!IsInjective(q), x \notin S!ToSet(q)
  PROVE  /\ Append(q, x) \in Seq(T) /\ S!ToSet(Append(q, x)) = S!ToSet(q) \cup {x}
         /\ Len(Append(q, x)) = Len(q) + 1 /\ Append(q, x) # <<>>
         /\ Append(q, x)[Len(q) + 1] = x /\ S!IsInjective(Append(q, x))
<1>1. /\ Append(q, x) \in Seq(T) /\ Len(Append(q, x)) = Len(q) + 1
      /\ Len(q) + 1 \in DOMAIN Append(q, x) /\ Append(q, x)[Len(q) + 1] = x
      /\ \A k \in DOMAIN q : k \in DOMAIN Append(q, x) /\ Append(q, x)[k] = q[k]
      /\ \A k \in DOMAIN Append(q, x) : k = Len(q) + 1 \/ k \in DOMAIN q
  OBVIOUS
<1>2. ASSUME NEW y \in S!ToSet(Append(q, x)) PROVE y = x \/ y \in S!ToSet(q)
  BY <1>1 DEF S!ToSet
<1>3. ASSUME NEW y \in S!ToSet(q) PROVE y \in S!ToSet(Append(q, x))
  BY <1>1 DEF S!ToSet
<1>4. x \in S!ToSet(Append(q, x)) /\ \A k \in DOMAIN q : q[k] # x
  BY <1>1 DEF S!ToSet
<1>5. Append(q, x) # <<>>
  BY <1>1
<1>6. ASSUME NEW j \in DOMAIN Append(q, x), NEW k \in DOMAIN Append(q, x),
             Append(q, x)[j] = Append(q, x)[k]
      PROVE  j = k
  <2>1. CASE j \in DOMAIN q /\ k \in DOMAIN q
    BY <1>1, <1>6, <2>1 DEF S!IsInjective
  <2>2. CASE ~ (j \in DOMAIN q /\ k \in DOMAIN q)
    BY <1>1, <1>4, <1>6, <2>2
  <2> QED
    BY <2>1, <2>2
<1>7. S!ToSet(Append(q, x)) = S!ToSet(q) \cup {x}
  BY <1>2, <1>3, <1>4
<1> QED
  BY <1>1, <1>5, <1>6, <1>7 DEF S!IsInjective

(* Nothing is in the empty list.                                           *)
LEMMA NoneFacts ==
  /\ \A T : <<>> \in Seq(T)
  /\ Len(<<>>) = 0 /\ S!ToSet(<<>>) = {} /\ S!IsInjective(<<>>)
<1> QED
  BY DEF S!ToSet, S!IsInjective

(* A list of one.                                                          *)
LEMMA OneFacts ==
  ASSUME NEW T, NEW x \in T
  PROVE  <<x>> \in Seq(T) /\ S!ToSet(<<x>>) = {x} /\ S!IsInjective(<<x>>)
<1>1. <<x>> \in Seq(T) /\ DOMAIN <<x>> = {1} /\ <<x>>[1] = x
  OBVIOUS
<1> QED
  BY <1>1 DEF S!ToSet, S!IsInjective

(* A list without the one at i.                                             *)
LEMMA NodeGone ==
  ASSUME NEW T, NEW q \in Seq(T), S!IsInjective(q), NEW i \in DOMAIN q
  PROVE  /\ S!RemoveAt(q, i) \in Seq(T) /\ S!IsInjective(S!RemoveAt(q, i))
         /\ S!ToSet(S!RemoveAt(q, i)) = S!ToSet(q) \ {q[i]}
         /\ Len(S!RemoveAt(q, i)) = Len(q) - 1
         /\ i # Len(q) => S!RemoveAt(q, i) # <<>> /\ S!RemoveAt(q, i)[Len(q) - 1] = q[Len(q)]
<1> DEFINE a == SubSeq(q, 1, i - 1)
           b == SubSeq(q, i + 1, Len(q))
           c == a \o b
<1>1. /\ i \in 1 .. Len(q) /\ Len(q) \in Nat /\ DOMAIN q = 1 .. Len(q)
  OBVIOUS
<1>2. /\ a \in Seq(T) /\ Len(a) = i - 1 /\ \A k \in 1 .. i - 1 : a[k] = q[k]
  BY <1>1
<1>3. /\ b \in Seq(T) /\ Len(b) = Len(q) - i /\ \A k \in 1 .. Len(q) - i : b[k] = q[k + i]
  BY <1>1
<1> HIDE DEF a, b
<1>4. /\ c \in Seq(T) /\ Len(c) = Len(q) - 1 /\ DOMAIN c = 1 .. Len(q) - 1
      /\ \A k \in 1 .. Len(q) - 1 : c[k] = IF k < i THEN q[k] ELSE q[k + 1]
  <2>1. /\ c \in Seq(T) /\ Len(c) = Len(a) + Len(b)
        /\ \A k \in 1 .. Len(a) + Len(b) : c[k] = IF k <= Len(a) THEN a[k] ELSE b[k - Len(a)]
    BY <1>2, <1>3, ConcatProperties
  <2>2. Len(c) = Len(q) - 1
    BY <1>1, <1>2, <1>3, <2>1
  <2>3. ASSUME NEW k \in 1 .. Len(q) - 1 PROVE c[k] = IF k < i THEN q[k] ELSE q[k + 1]
    <3>1. CASE k < i
      <4>1. k \in 1 .. i - 1 /\ k <= Len(a) /\ k \in 1 .. Len(a) + Len(b)
        BY <1>1, <1>2, <1>3, <3>1
      <4>2. c[k] = a[k]
        BY <2>1, <4>1
      <4> QED
        BY <1>2, <3>1, <4>1, <4>2
    <3>2. CASE ~ k < i
      <4>1. /\ ~ k <= Len(a) /\ k \in 1 .. Len(a) + Len(b) /\ k - (i - 1) \in 1 .. Len(q) - i
            /\ k - (i - 1) + i = k + 1
        BY <1>1, <1>2, <1>3, <3>2
      <4>2. c[k] = b[k - (i - 1)]
        BY <1>2, <2>1, <4>1
      <4>3. b[k - (i - 1)] = q[k - (i - 1) + i]
        BY <1>3, <4>1
      <4> QED
        BY <3>2, <4>1, <4>2, <4>3
    <3> QED
      BY <3>1, <3>2
  <2> QED
    BY <2>1, <2>2, <2>3
<1>5. S!RemoveAt(q, i) = c
  BY DEF S!RemoveAt, a, b
<1> HIDE DEF c
<1>6. ASSUME NEW j \in 1 .. Len(q) - 1, NEW k \in 1 .. Len(q) - 1, c[j] = c[k] PROVE j = k
  <2>1. PICK u \in DOMAIN q : c[j] = q[u] /\ u = IF j < i THEN j ELSE j + 1
    BY <1>1, <1>4
  <2>2. PICK v \in DOMAIN q : c[k] = q[v] /\ v = IF k < i THEN k ELSE k + 1
    BY <1>1, <1>4
  <2>3. u = v
    BY <1>6, <2>1, <2>2 DEF S!IsInjective
  <2> QED
    BY <1>1, <2>1, <2>2, <2>3
<1>7. ASSUME NEW x \in S!ToSet(c) PROVE x \in S!ToSet(q) /\ x # q[i]
  <2>1. PICK k \in 1 .. Len(q) - 1 : c[k] = x
    BY <1>4 DEF S!ToSet
  <2> QED
    BY <1>1, <1>4, <2>1 DEF S!ToSet, S!IsInjective
<1>8. ASSUME NEW x \in S!ToSet(q), x # q[i] PROVE x \in S!ToSet(c)
  <2>1. PICK k \in 1 .. Len(q) : q[k] = x /\ k # i
    BY <1>1, <1>8 DEF S!ToSet
  <2>2. CASE k < i
    BY <1>1, <1>4, <2>1, <2>2 DEF S!ToSet
  <2>3. CASE k > i
    <3>1. k - 1 \in 1 .. Len(q) - 1 /\ c[k - 1] = x
      BY <1>1, <1>4, <2>1, <2>3
    <3> QED
      BY <1>4, <3>1 DEF S!ToSet
  <2> QED
    BY <1>1, <2>1, <2>2, <2>3
<1>9. ASSUME i # Len(q) PROVE c # <<>> /\ c[Len(q) - 1] = q[Len(q)]
  <2>1. Len(q) - 1 \in 1 .. Len(q) - 1 /\ ~ (Len(q) - 1 < i)
    BY <1>1, <1>9
  <2>2. c[Len(q) - 1] = q[(Len(q) - 1) + 1]
    BY <1>4, <2>1
  <2>3. c # <<>>
    BY <1>4, <2>1
  <2> QED
    BY <1>1, <2>2, <2>3
<1> QED
  BY <1>4, <1>5, <1>6, <1>7, <1>8, <1>9 DEF S!IsInjective

(* A list without x.                                                       *)
LEMMA WithoutFacts ==
  ASSUME NEW T, NEW q \in Seq(T), S!IsInjective(q), NEW x
  PROVE  /\ S!RemoveFirst(q, x) \in Seq(T) /\ S!IsInjective(S!RemoveFirst(q, x))
         /\ S!ToSet(S!RemoveFirst(q, x)) = S!ToSet(q) \ {x}
         /\ Len(S!RemoveFirst(q, x)) = IF x \in S!ToSet(q) THEN Len(q) - 1 ELSE Len(q)
         /\ q # <<>> /\ q[Len(q)] # x =>
              /\ S!RemoveFirst(q, x) # <<>>
              /\ S!RemoveFirst(q, x)[Len(S!RemoveFirst(q, x))] = q[Len(q)]
<1> DEFINE I == {k \in 1 .. Len(q) : q[k] = x}
<1>1. Len(q) \in Nat /\ DOMAIN q = 1 .. Len(q)
  OBVIOUS
<1>2. CASE x \notin S!ToSet(q)
  <2>1. ~ \E k \in 1 .. Len(q) : q[k] = x
    BY <1>1, <1>2 DEF S!ToSet
  <2>2. S!RemoveFirst(q, x) = q
    BY <2>1 DEF S!RemoveFirst
  <2> QED
    BY <1>2, <2>2
<1>3. CASE x \in S!ToSet(q)
  <2>1. PICK i \in 1 .. Len(q) : q[i] = x
    BY <1>1, <1>3 DEF S!ToSet
  <2>2. I = {i}
    BY <1>1, <2>1 DEF S!IsInjective
  <2>3. S!SelectInSeq(q, LAMBDA v : v = x) = i
    <3>1. S!SelectInSeq(q, LAMBDA v : v = x) = IF I # {} THEN S!Min(I) ELSE 0
      BY DEF S!SelectInSeq
    <3>2. S!Min({i}) = i
      BY <2>1 DEF S!Min
    <3> QED
      BY <2>2, <3>1, <3>2
  <2>4. S!RemoveFirst(q, x) = S!RemoveAt(q, i)
    BY <2>1, <2>3 DEF S!RemoveFirst
  <2>5. /\ S!RemoveAt(q, i) \in Seq(T) /\ S!IsInjective(S!RemoveAt(q, i))
        /\ S!ToSet(S!RemoveAt(q, i)) = S!ToSet(q) \ {x} /\ Len(S!RemoveAt(q, i)) = Len(q) - 1
        /\ i # Len(q) => S!RemoveAt(q, i) # <<>> /\ S!RemoveAt(q, i)[Len(q) - 1] = q[Len(q)]
    BY <1>1, <2>1, NodeGone
  <2> QED
    BY <1>3, <2>1, <2>4, <2>5
<1> QED
  BY <1>2, <1>3

-----------------------------------------------------------------------------
(* What the steps do to the lists.                                         *)

LEMMA ListNames == S!Lists = {"idle", "hotplug", "work", "unplug"} /\ S!Adders = {"poll", "client"}
<1> QED
  BY DEF S!Lists, S!Adders

\* A device is taken from where it is and put at the end of a list.
LEMMA MoveEffect ==
  ASSUME HeadsInv, NEW i \in Nat, NEW m \in S!Lists,
         head' = [[l \in S!Lists |-> S!RemoveFirst(head[l], i)] EXCEPT ![m] = Append(@, i)]
  PROVE  /\ HeadsInv'
         /\ \A l \in S!Lists : l # m => At(l)' = At(l) \ {i}
         /\ At(m)' = At(m) \cup {i}
         /\ \A l \in S!Lists : l # m => Count(l)' = IF i \in At(l) THEN Count(l) - 1 ELSE Count(l)
         /\ Count(m)' = IF i \in At(m) THEN Count(m) ELSE Count(m) + 1
         /\ \A l \in S!Lists : l # m /\ Count(l) > 0 /\ LastOf(l) # i =>
              Count(l)' > 0 /\ LastOf(l)' = LastOf(l)
         /\ Count(m)' > 0 /\ LastOf(m)' = i
<1>1. /\ \A l \in S!Lists : l # m => head'[l] = S!RemoveFirst(head[l], i)
      /\ head'[m] = Append(S!RemoveFirst(head[m], i), i) /\ DOMAIN head' = S!Lists
  OBVIOUS
<1>2. ASSUME NEW l \in S!Lists, NEW q, q = S!RemoveFirst(head[l], i)
      PROVE  /\ q \in Seq(Nat) /\ S!IsInjective(q) /\ S!ToSet(q) = At(l) \ {i}
             /\ Len(q) = IF i \in At(l) THEN Count(l) - 1 ELSE Count(l)
             /\ Count(l) > 0 /\ LastOf(l) # i => Len(q) > 0 /\ q[Len(q)] = LastOf(l)
  <2>1. head[l] \in Seq(Nat) /\ S!IsInjective(head[l])
    BY DEF HeadsInv
  <2>2. Count(l) > 0 => head[l] # <<>>
    BY <2>1 DEF Count
  <2>3. q \in Seq(Nat) /\ q # <<>> => Len(q) > 0
    OBVIOUS
  <2>4. At(l) = S!ToSet(head[l]) /\ Count(l) = Len(head[l]) /\ LastOf(l) = head[l][Len(head[l])]
    BY DEF At, Count, LastOf
  <2>5. /\ q \in Seq(Nat) /\ S!IsInjective(q) /\ S!ToSet(q) = S!ToSet(head[l]) \ {i}
        /\ Len(q) = IF i \in S!ToSet(head[l]) THEN Len(head[l]) - 1 ELSE Len(head[l])
        /\ head[l] # <<>> /\ head[l][Len(head[l])] # i =>
             q # <<>> /\ q[Len(q)] = head[l][Len(head[l])]
    BY <1>2, <2>1, WithoutFacts
  <2> QED
    BY <2>2, <2>3, <2>4, <2>5
<1>3. PICK q : q = S!RemoveFirst(head[m], i)
  OBVIOUS
<1>4. /\ q \in Seq(Nat) /\ S!IsInjective(q) /\ S!ToSet(q) = At(m) \ {i}
      /\ Len(q) = IF i \in At(m) THEN Count(m) - 1 ELSE Count(m)
  BY <1>2, <1>3
<1>5. /\ Append(q, i) \in Seq(Nat) /\ S!ToSet(Append(q, i)) = S!ToSet(q) \cup {i}
      /\ Len(Append(q, i)) = Len(q) + 1 /\ Append(q, i)[Len(q) + 1] = i
      /\ S!IsInjective(Append(q, i)) /\ Len(q) \in Nat
  BY <1>4, LastFacts
<1>6. head'[m] = Append(q, i)
  BY <1>1, <1>3
<1>7. ASSUME NEW l \in S!Lists
      PROVE  head'[l] \in Seq(Nat) /\ S!IsInjective(head'[l])
  BY <1>1, <1>2, <1>5, <1>6
<1>8. HeadsInv'
  <2>1. head' \in [S!Lists -> Seq(Nat)]
    <3>1. head' = [l \in S!Lists |-> head'[l]]
      OBVIOUS
    <3> QED
      BY <1>7, <3>1
  <2> QED
    BY <1>7, <2>1, ListNames DEF HeadsInv, S!Lists
<1>9. ASSUME NEW l \in S!Lists, l # m
      PROVE  /\ At(l)' = At(l) \ {i}
             /\ Count(l)' = IF i \in At(l) THEN Count(l) - 1 ELSE Count(l)
             /\ Count(l) > 0 /\ LastOf(l) # i => Count(l)' > 0 /\ LastOf(l)' = LastOf(l)
  <2>1. PICK p : p = S!RemoveFirst(head[l], i)
    OBVIOUS
  <2>2. head'[l] = p
    BY <1>1, <1>9, <2>1
  <2>3. At(l)' = S!ToSet(p) /\ Count(l)' = Len(p) /\ LastOf(l)' = p[Len(p)]
    BY <2>2 DEF At, Count, LastOf
  <2> QED
    BY <1>2, <2>1, <2>3
<1>10. /\ At(m)' = At(m) \cup {i} /\ Count(m)' = IF i \in At(m) THEN Count(m) ELSE Count(m) + 1
       /\ Count(m)' > 0 /\ LastOf(m)' = i
  <2>1. At(m)' = S!ToSet(Append(q, i)) /\ Count(m)' = Len(q) + 1
        /\ LastOf(m)' = Append(q, i)[Len(q) + 1]
    BY <1>5, <1>6 DEF At, Count, LastOf
  <2>2. Count(m) \in Nat
    BY DEF HeadsInv, Count
  <2> QED
    BY <1>4, <1>5, <2>1, <2>2
<1> QED
  BY <1>8, <1>9, <1>10

\* A device is taken from where it is and made the only one of its list.
LEMMA AloneEffect ==
  ASSUME HeadsInv, NEW i \in Nat, NEW m \in S!Lists,
         head' = [[l \in S!Lists |-> S!RemoveFirst(head[l], i)] EXCEPT ![m] = <<i>>]
  PROVE  /\ HeadsInv'
         /\ \A l \in S!Lists : l # m => At(l)' = At(l) \ {i}
         /\ At(m)' = {i}
         /\ \A l \in S!Lists : l # m => Count(l)' = IF i \in At(l) THEN Count(l) - 1 ELSE Count(l)
         /\ \A l \in S!Lists : l # m /\ Count(l) > 0 /\ LastOf(l) # i =>
              Count(l)' > 0 /\ LastOf(l)' = LastOf(l)
<1>1. /\ \A l \in S!Lists : l # m => head'[l] = S!RemoveFirst(head[l], i)
      /\ head'[m] = <<i>> /\ DOMAIN head' = S!Lists
  OBVIOUS
<1>2. ASSUME NEW l \in S!Lists, NEW q, q = S!RemoveFirst(head[l], i)
      PROVE  /\ q \in Seq(Nat) /\ S!IsInjective(q) /\ S!ToSet(q) = At(l) \ {i}
             /\ Len(q) = IF i \in At(l) THEN Count(l) - 1 ELSE Count(l)
             /\ Count(l) > 0 /\ LastOf(l) # i => Len(q) > 0 /\ q[Len(q)] = LastOf(l)
  <2>1. head[l] \in Seq(Nat) /\ S!IsInjective(head[l])
    BY DEF HeadsInv
  <2>2. Count(l) > 0 => head[l] # <<>>
    BY <2>1 DEF Count
  <2>3. q \in Seq(Nat) /\ q # <<>> => Len(q) > 0
    OBVIOUS
  <2>4. At(l) = S!ToSet(head[l]) /\ Count(l) = Len(head[l]) /\ LastOf(l) = head[l][Len(head[l])]
    BY DEF At, Count, LastOf
  <2>5. /\ q \in Seq(Nat) /\ S!IsInjective(q) /\ S!ToSet(q) = S!ToSet(head[l]) \ {i}
        /\ Len(q) = IF i \in S!ToSet(head[l]) THEN Len(head[l]) - 1 ELSE Len(head[l])
        /\ head[l] # <<>> /\ head[l][Len(head[l])] # i =>
             q # <<>> /\ q[Len(q)] = head[l][Len(head[l])]
    BY <1>2, <2>1, WithoutFacts
  <2> QED
    BY <2>2, <2>3, <2>4, <2>5
<1>5. <<i>> \in Seq(Nat) /\ S!ToSet(<<i>>) = {i} /\ S!IsInjective(<<i>>)
  BY OneFacts
<1>7. ASSUME NEW l \in S!Lists
      PROVE  head'[l] \in Seq(Nat) /\ S!IsInjective(head'[l])
  BY <1>1, <1>2, <1>5
<1>8. HeadsInv'
  <2>1. head' \in [S!Lists -> Seq(Nat)]
    <3>1. head' = [l \in S!Lists |-> head'[l]]
      OBVIOUS
    <3> QED
      BY <1>7, <3>1
  <2> QED
    BY <1>7, <2>1, ListNames DEF HeadsInv, S!Lists
<1>9. ASSUME NEW l \in S!Lists, l # m
      PROVE  /\ At(l)' = At(l) \ {i}
             /\ Count(l)' = IF i \in At(l) THEN Count(l) - 1 ELSE Count(l)
             /\ Count(l) > 0 /\ LastOf(l) # i => Count(l)' > 0 /\ LastOf(l)' = LastOf(l)
  <2>1. PICK p : p = S!RemoveFirst(head[l], i)
    OBVIOUS
  <2>2. head'[l] = p
    BY <1>1, <1>9, <2>1
  <2>3. At(l)' = S!ToSet(p) /\ Count(l)' = Len(p) /\ LastOf(l)' = p[Len(p)]
    BY <2>2 DEF At, Count, LastOf
  <2> QED
    BY <1>2, <2>1, <2>3
<1>10. At(m)' = {i}
  BY <1>1, <1>5 DEF At
<1> QED
  BY <1>8, <1>9, <1>10

\* A new device is put at the end of a list.
LEMMA PutEffect ==
  ASSUME HeadsInv, NEW i \in Nat, NEW m \in S!Lists, i \notin At(m),
         head' = [head EXCEPT ![m] = Append(@, i)]
  PROVE  /\ HeadsInv'
         /\ \A l \in S!Lists : l # m => head'[l] = head[l]
         /\ At(m)' = At(m) \cup {i}
<1>1. /\ \A l \in S!Lists : l # m => head'[l] = head[l]
      /\ head'[m] = Append(head[m], i) /\ head[m] \in Seq(Nat) /\ S!IsInjective(head[m])
  BY DEF HeadsInv
<1>2. /\ Append(head[m], i) \in Seq(Nat) /\ S!IsInjective(Append(head[m], i))
      /\ S!ToSet(Append(head[m], i)) = At(m) \cup {i}
  BY <1>1, LastFacts DEF At
<1>3. HeadsInv'
  <2>1. head' \in [S!Lists -> Seq(Nat)]
    BY <1>1, <1>2 DEF HeadsInv
  <2>2. \A l \in S!Lists : S!IsInjective(head'[l])
    BY <1>1, <1>2 DEF HeadsInv
  <2> QED
    BY <2>1, <2>2, ListNames DEF HeadsInv, S!Lists
<1> QED
  BY <1>1, <1>2, <1>3 DEF At

\* The first device of a list is taken from it.
LEMMA TakeEffect ==
  ASSUME HeadsInv, NEW m \in S!Lists, head[m] # <<>>,
         head' = [head EXCEPT ![m] = Tail(@)]
  PROVE  /\ HeadsInv'
         /\ \A l \in S!Lists : l # m => head'[l] = head[l]
         /\ Head(head[m]) \in At(m) /\ Head(head[m]) \in Nat
         /\ At(m)' = At(m) \ {Head(head[m])} /\ Count(m)' = Count(m) - 1
<1>1. /\ \A l \in S!Lists : l # m => head'[l] = head[l]
      /\ head'[m] = Tail(head[m]) /\ head[m] \in Seq(Nat) /\ S!IsInjective(head[m])
  BY DEF HeadsInv
<1>2. /\ Tail(head[m]) \in Seq(Nat) /\ S!IsInjective(Tail(head[m]))
      /\ S!ToSet(Tail(head[m])) = At(m) \ {Head(head[m])}
      /\ Head(head[m]) \in At(m) /\ Head(head[m]) \in Nat /\ Len(Tail(head[m])) = Count(m) - 1
  BY <1>1, FirstFacts DEF At, Count
<1>3. HeadsInv'
  <2>1. head' \in [S!Lists -> Seq(Nat)]
    BY <1>1, <1>2 DEF HeadsInv
  <2>2. \A l \in S!Lists : S!IsInjective(head'[l])
    BY <1>1, <1>2 DEF HeadsInv
  <2> QED
    BY <2>1, <2>2, ListNames DEF HeadsInv, S!Lists
<1> QED
  BY <1>1, <1>2, <1>3 DEF At, Count

-----------------------------------------------------------------------------
(* What a step leaves alone.                                               *)

LEMMA IdsSame ==
  ASSUME IdsInv, nxtid' = nxtid, Devs \subseteq Devs',
         \A i \in Devs : uarts'[i].named = uarts[i].named /\ uarts'[i].id = uarts[i].id,
         \A i \in Devs' : i \notin Devs => ~ uarts'[i].named
  PROVE  IdsInv' /\ Given' = Given
<1>1. Given' = Given
  BY DEF Given
<1>2. \A i \in Given : uarts'[i].id = uarts[i].id
  BY DEF Given
<1> QED
  BY <1>1, <1>2 DEF IdsInv

LEMMA SaidSame ==
  ASSUME SaidInv, hotplugs' = hotplugs, Given' = Given,
         \A i \in Given : uarts'[i].id = uarts[i].id /\ (uarts[i].freed => uarts'[i].freed),
         \A i \in Given : (hotplug' = "tell" /\ cur' = i) <=> (hotplug = "tell" /\ cur = i),
         \A i \in Given : hotplug' = "gone" /\ cur' = i => hotplug = "gone" /\ cur = i
  PROVE  SaidInv'
<1>1. \A k \in DOMAIN hotplugs : \E i \in Given : hotplugs[k].id = uarts'[i].id
  BY DEF SaidInv
<1>2. ASSUME NEW i \in Given
      PROVE  /\ Said(uarts[i].id, 1) <=> ~ (hotplug' = "tell" /\ cur' = i)
             /\ Said(uarts[i].id, 0) => uarts'[i].freed /\ ~ (hotplug' = "gone" /\ cur' = i)
  BY DEF SaidInv
<1>3. \A i \in Given : uarts'[i].id = uarts[i].id
  OBVIOUS
<1> QED
  BY <1>1, <1>2, <1>3 DEF SaidInv, Said

LEMMA TurnSame == TurnInv /\ hotplugs' = hotplugs => TurnInv'
<1> QED
  BY DEF TurnInv

\* What stands in front of a line that is being opened.
LEMMA OpeningFacts ==
  ASSUME NEW O \in SUBSET S!Adders, NEW a \in S!Adders
  PROVE  /\ Cardinality(O) \in Nat
         /\ Cardinality(O \cup {a}) <= Cardinality(O) + 1
         /\ Cardinality(O \ {a}) <= Cardinality(O)
         /\ a \in O => Cardinality(O \ {a}) = Cardinality(O) - 1
<1>1. IsFiniteSet(S!Adders)
  <2>1. IsFiniteSet({"poll"}) /\ IsFiniteSet({"poll"} \cup {"client"})
    BY FS_Singleton, FS_AddElement
  <2>2. S!Adders = {"poll"} \cup {"client"}
    BY DEF S!Adders
  <2> QED
    BY <2>1, <2>2
<1>2. IsFiniteSet(O)
  BY <1>1, FS_Subset
<1>3. Cardinality(O) \in Nat
  BY <1>2, FS_CardinalityType
<1>4. Cardinality(O \cup {a}) = IF a \in O THEN Cardinality(O) ELSE Cardinality(O) + 1
  BY <1>2, FS_AddElement
<1>5. Cardinality(O \ {a}) = IF a \in O THEN Cardinality(O) - 1 ELSE Cardinality(O)
  BY <1>2, FS_RemoveElement
<1> QED
  BY <1>3, <1>4, <1>5

\* A device is changed.
LEMMA DevEffect ==
  ASSUME uarts \in Seq(Dev), NEW i \in Devs, NEW d \in Dev, uarts' = [uarts EXCEPT ![i] = d]
  PROVE  /\ uarts' \in Seq(Dev) /\ Len(uarts') = Len(uarts) /\ Devs' = Devs
         /\ uarts'[i] = d /\ \A j \in Devs : j # i => uarts'[j] = uarts[j]
<1> QED
  BY DEF Devs

-----------------------------------------------------------------------------
(* Steps that leave the devices and the lists alone.                       *)
Calm == {"add", "unplug", "hotplug"}
Still ==
  /\ UNCHANGED <<uarts, head, working_cnt, cur, nxtid, hotplugs, overtaken>>
  /\ hotplug' = hotplug \/ (hotplug \in Calm /\ hotplug' \in Calm)
  /\ line' \in [Names -> S!Lines] /\ turns' \in 0 .. MaxTurns
  /\ adder' \in [S!Adders -> Adding]
  /\ Len(uarts) + Cardinality(S!Opening') <= MaxAdds

LEMMA StillInv == UartInv /\ Still => UartInv'
<1> SUFFICES ASSUME UartInv, Still PROVE UartInv'
  OBVIOUS
<1> USE DEF Calm
<1>1. UNCHANGED <<uarts, head, working_cnt, cur, nxtid, hotplugs, overtaken>>
  BY DEF Still
<1>2. /\ hotplug' = hotplug \/ (hotplug \in Calm /\ hotplug' \in Calm)
      /\ Devs' = Devs /\ Given' = Given /\ \A l : At(l)' = At(l) /\ Count(l)' = Count(l)
      /\ \A l : LastOf(l)' = LastOf(l)
  BY <1>1 DEF Still, Devs, Given, At, Count, LastOf
<1>3. UartKinds' /\ RoomInv'
  BY <1>1, <1>2 DEF UartInv, UartKinds, RoomInv, Still, Pcs
<1>4. IdsInv' /\ HeadsInv' /\ MemberInv' /\ CountInv'
  BY <1>1, <1>2 DEF UartInv, IdsInv, HeadsInv, MemberInv, CountInv
<1>5. CurInv'
  BY <1>1, <1>2 DEF UartInv, CurInv, Starting
<1>6. DevsInv'
  BY <1>1, <1>2 DEF UartInv, DevsInv, DevOf, Fresh, Starting
<1>7. SaidInv' /\ TurnInv'
  <2>1. SaidInv'
    BY <1>1, <1>2, SaidSame DEF UartInv
  <2> QED
    BY <1>1, <2>1, TurnSame DEF UartInv
<1> QED
  BY <1>3, <1>4, <1>5, <1>6, <1>7 DEF UartInv

LEMMA TurnStill == UartInv /\ S!Turn => Still
<1> SUFFICES ASSUME UartInv, S!Turn PROVE Still
  OBVIOUS
<1>1. line' \in [Names -> S!Lines] /\ turns' \in 0 .. MaxTurns
  BY UartBounds DEF UartInv, UartKinds, S!Turn
<1>2. S!Opening' = S!Opening /\ adder' = adder
  BY DEF S!Turn, S!Opening
<1> QED
  BY <1>1, <1>2 DEF UartInv, UartKinds, RoomInv, S!Turn, Still

\* The places of the two that open lines.
LEMMA AddingEffect ==
  ASSUME UartInv, NEW a \in S!Adders, NEW p \in Adding, adder' = [adder EXCEPT ![a] = p]
  PROVE  /\ adder' \in [S!Adders -> Adding]
         /\ p.pc \in {"open", "insert"} => S!Opening' = S!Opening \cup {a}
         /\ p.pc \notin {"open", "insert"} => S!Opening' = S!Opening \ {a}
         /\ S!Opening \in SUBSET S!Adders
<1>1. adder \in [S!Adders -> Adding]
  BY DEF UartInv, UartKinds
<1>2. adder'[a] = p /\ \A b \in S!Adders : b # a => adder'[b] = adder[b]
  BY <1>1
<1>3. p.pc \in {"open", "insert"} => S!Opening' = S!Opening \cup {a}
  BY <1>2 DEF S!Opening
<1>4. p.pc \notin {"open", "insert"} => S!Opening' = S!Opening \ {a}
  BY <1>2 DEF S!Opening
<1>5. adder' \in [S!Adders -> Adding] /\ S!Opening \in SUBSET S!Adders
  BY <1>1 DEF S!Opening
<1> QED
  BY <1>3, <1>4, <1>5

\* A place where no line is open, or where one was opened already.
LEMMA AddingStill ==
  ASSUME UartInv, NEW a \in S!Adders, NEW p \in Adding, adder' = [adder EXCEPT ![a] = p],
         p.pc \in {"idle", "find"} \/ a \in S!Opening
                                   \/ Len(uarts) + Cardinality(S!Opening) < MaxAdds
  PROVE  adder' \in [S!Adders -> Adding] /\ Len(uarts) + Cardinality(S!Opening') <= MaxAdds
<1>1. PICK O \in SUBSET S!Adders : O = S!Opening
  BY AddingEffect
<1>2. /\ adder' \in [S!Adders -> Adding]
      /\ p.pc \in {"open", "insert"} => S!Opening' = O \cup {a}
      /\ p.pc \notin {"open", "insert"} => S!Opening' = O \ {a}
  BY <1>1, AddingEffect
<1>3. /\ Cardinality(O) \in Nat /\ Cardinality(O \cup {a}) <= Cardinality(O) + 1
      /\ Cardinality(O \ {a}) <= Cardinality(O) /\ Cardinality(O \cup {a}) \in Nat
      /\ Cardinality(O \ {a}) \in Nat
  BY OpeningFacts
<1>4. a \in O => O \cup {a} = O
  OBVIOUS
<1>5. Len(uarts) + Cardinality(O) <= MaxAdds /\ Len(uarts) \in Nat /\ MaxAdds \in Nat
  BY <1>1, UartBounds DEF UartInv, UartKinds, RoomInv
<1>6. Len(uarts) + Cardinality(O \ {a}) <= MaxAdds
  BY <1>3, <1>5
<1>7. a \in O \/ Len(uarts) + Cardinality(O) < MaxAdds =>
        Len(uarts) + Cardinality(O \cup {a}) <= MaxAdds
  <2>1. a \in O => Cardinality(O \cup {a}) = Cardinality(O)
    BY <1>4
  <2> QED
    BY <1>3, <1>5, <2>1
<1>8. CASE p.pc \in {"open", "insert"}
  <2>1. S!Opening' = O \cup {a}
    BY <1>2, <1>8
  <2>2. a \in O \/ Len(uarts) + Cardinality(O) < MaxAdds
    BY <1>1, <1>8
  <2> QED
    BY <1>2, <1>7, <2>1, <2>2
<1>9. CASE p.pc \notin {"open", "insert"}
  BY <1>2, <1>6, <1>9
<1> QED
  BY <1>8, <1>9

LEMMA CardSame == \A T : S!Cardinality(T) = Cardinality(T)
<1> QED
  BY DEF S!Cardinality, Cardinality

LEMMA AddStill ==
  ASSUME UartInv, NEW a \in S!Adders, S!AddFind(a) \/ S!AddOpen(a)
  PROVE  Still
<1>1. /\ UNCHANGED <<uarts, head, working_cnt, cur, nxtid, hotplugs, overtaken, line, turns>>
      /\ hotplug' = hotplug \/ (hotplug = "add" /\ hotplug' = "unplug")
  BY DEF S!AddFind, S!AddOpen, S!AddDone, S!dev
<1>2. adder[a] \in Adding /\ adder \in [S!Adders -> Adding]
  BY DEF UartInv, UartKinds
<1>3. CASE S!AddFind(a)
  <2>1. PICK p \in Adding :
          /\ adder' = [adder EXCEPT ![a] = p]
          /\ p.pc = "idle" \/ Len(uarts) + Cardinality(S!Opening) < MaxAdds
    <3>1. CASE adder' = [adder EXCEPT ![a].pc = "idle"]
      <4>1. [adder[a] EXCEPT !.pc = "idle"] \in Adding
        BY <1>2 DEF Adding
      <4>2. adder' = [adder EXCEPT ![a] = [adder[a] EXCEPT !.pc = "idle"]]
        BY <3>1
      <4>3. [adder[a] EXCEPT !.pc = "idle"].pc = "idle"
        BY <1>2 DEF Adding
      <4> QED
        BY <4>1, <4>2, <4>3
    <3>2. CASE S!Room /\ adder' = [adder EXCEPT ![a].pc = "open"]
      <4>1. [adder[a] EXCEPT !.pc = "open"] \in Adding
        BY <1>2 DEF Adding
      <4>2. adder' = [adder EXCEPT ![a] = [adder[a] EXCEPT !.pc = "open"]]
        BY <3>2
      <4>3. Len(uarts) + Cardinality(S!Opening) < MaxAdds
        BY <3>2, CardSame DEF S!Room
      <4> QED
        BY <4>1, <4>2, <4>3
    <3> QED
      BY <1>3, <3>1, <3>2 DEF S!AddFind
  <2> QED
    BY <1>1, <2>1, AddingStill DEF Still, Calm, UartInv, UartKinds
<1>4. CASE S!AddOpen(a)
  <2>1. a \in S!Opening
    BY <1>4 DEF S!AddOpen, S!Opening
  <2>2. PICK p \in Adding : adder' = [adder EXCEPT ![a] = p]
    <3>1. PICK c \in {"idle", "insert"} : adder' = [adder EXCEPT ![a].pc = c]
      BY <1>4 DEF S!AddOpen
    <3>2. [adder[a] EXCEPT !.pc = c] \in Adding
      BY <1>2 DEF Adding
    <3> QED
      BY <3>1, <3>2
  <2> QED
    BY <1>1, <2>1, <2>2, AddingStill DEF Still, Calm, UartInv, UartKinds
<1> QED
  BY <1>3, <1>4

LEMMA SetupStill == UartInv /\ S!SerialSetup => Still
<1> SUFFICES ASSUME UartInv, S!SerialSetup PROVE Still
  OBVIOUS
<1>1. PICK n \in Names : adder' = [adder EXCEPT !["client"] = [pc |-> "find", name |-> n]]
  BY DEF S!SerialSetup
<1>2. "client" \in S!Adders /\ [pc |-> "find", name |-> n] \in Adding
  BY DEF S!Adders, Adding
<1>3. adder' \in [S!Adders -> Adding] /\ Len(uarts) + Cardinality(S!Opening') <= MaxAdds
  BY <1>1, <1>2, AddingStill
<1> QED
  BY <1>3 DEF UartInv, UartKinds, S!SerialSetup, S!dev, Still

LEMMA PollStill == UartInv /\ (S!PollNext \/ S!PollAgain) => Still
<1> SUFFICES ASSUME UartInv, S!PollNext \/ S!PollAgain PROVE Still
  OBVIOUS
<1>1. S!Opening' = S!Opening /\ adder' = adder
  BY DEF S!PollNext, S!PollAgain, S!Opening
<1> QED
  BY <1>1 DEF UartInv, UartKinds, RoomInv, S!PollNext, S!PollAgain, S!Goto, S!dev, Still, Calm

-----------------------------------------------------------------------------
(* A line was opened: a device more.                                       *)
LEMMA AddInsertInv ==
  ASSUME UartInv, NEW a \in S!Adders, S!AddInsert(a)
  PROVE  UartInv'
<1>1. PICK n \in Nat : n = Len(uarts) + 1
  BY DEF UartInv, UartKinds
<1>2. PICK d : d = [name |-> adder[a].name, usta |-> "idle", id |-> 0, plist |-> "null",
                    named |-> FALSE, offline |-> FALSE, search |-> TRUE, recv |-> FALSE,
                    freed |-> FALSE]
  OBVIOUS
<1>3. d \in Dev
  <2>1. adder[a].name \in Names
    BY DEF UartInv, UartKinds, Adding
  <2> QED
    BY <1>2, <2>1, ListNames DEF Dev
<1>4. /\ uarts' = Append(uarts, d) /\ head' = [head EXCEPT !["idle"] = Append(@, n)]
      /\ adder' = [adder EXCEPT ![a].pc = "idle"] /\ adder[a].pc = "insert"
      /\ hotplug' = hotplug \/ (hotplug = "add" /\ hotplug' = "unplug")
      /\ UNCHANGED <<line, turns, working_cnt, cur, nxtid, hotplugs, overtaken>>
  BY <1>1, <1>2 DEF S!AddInsert, S!AddDone, S!dev
<1>5. /\ uarts' \in Seq(Dev) /\ Len(uarts') = n /\ uarts'[n] = d /\ n \notin Devs
      /\ Devs' = Devs \cup {n} /\ \A j \in Devs : uarts'[j] = uarts[j]
  <2>1. uarts \in Seq(Dev)
    BY DEF UartInv, UartKinds
  <2> QED
    BY <1>1, <1>3, <1>4, <2>1 DEF Devs
<1>6. n \notin At("idle") /\ "idle" \in S!Lists /\ n \notin At("work") /\ n \notin At("unplug")
  BY <1>5, ListNames DEF UartInv, MemberInv
<1>7. /\ HeadsInv' /\ \A l \in S!Lists : l # "idle" => head'[l] = head[l]
      /\ At("idle")' = At("idle") \cup {n}
  BY <1>1, <1>4, <1>6, PutEffect DEF UartInv
<1>8. \A l \in S!Lists : l # "idle" =>
        At(l)' = At(l) /\ Count(l)' = Count(l) /\ LastOf(l)' = LastOf(l)
  BY <1>7 DEF At, Count, LastOf
<1>9. /\ Given' = Given /\ IdsInv'
      /\ \A i \in Given : i \in Devs
  <2>1. Devs \subseteq Devs' /\ \A i \in Devs' : i \notin Devs => ~ uarts'[i].named
    BY <1>2, <1>5
  <2>2. \A i \in Devs : uarts'[i].named = uarts[i].named /\ uarts'[i].id = uarts[i].id
    BY <1>5
  <2>3. Given' = Given /\ IdsInv'
    BY <1>4, <2>1, <2>2, IdsSame DEF UartInv
  <2> QED
    BY <2>3 DEF Given
<1>10. RoomInv' /\ adder' \in [S!Adders -> Adding]
  <2>1. adder \in [S!Adders -> Adding] /\ adder[a] \in Adding
    BY DEF UartInv, UartKinds
  <2>2. PICK p \in Adding : adder' = [adder EXCEPT ![a] = p] /\ p.pc = "idle"
    <3>1. [adder[a] EXCEPT !.pc = "idle"] \in Adding
      BY <2>1 DEF Adding
    <3>2. [adder[a] EXCEPT !.pc = "idle"].pc = "idle"
      BY <2>1 DEF Adding
    <3> QED
      BY <1>4, <3>1, <3>2
  <2>3. PICK O \in SUBSET S!Adders : O = S!Opening
    BY <2>2, AddingEffect
  <2>4. adder' \in [S!Adders -> Adding] /\ S!Opening' = O \ {a}
    BY <2>2, <2>3, AddingEffect
  <2>5. a \in O
    BY <1>4, <2>3 DEF S!Opening
  <2>6. Cardinality(O \ {a}) = Cardinality(O) - 1 /\ Cardinality(O) \in Nat
    BY <2>5, OpeningFacts
  <2>7. Len(uarts) + Cardinality(O) <= MaxAdds
    BY <2>3 DEF UartInv, RoomInv
  <2> QED
    BY <1>1, <1>5, <2>4, <2>6, <2>7, UartBounds DEF RoomInv
<1>11. UartKinds'
  BY <1>4, <1>5, <1>10 DEF UartInv, UartKinds, Pcs
<1>12. MemberInv'
  BY <1>2, <1>5, <1>7, <1>8, ListNames DEF UartInv, MemberInv
<1>13. CountInv'
  BY <1>4, <1>8, ListNames DEF UartInv, CountInv
<1>14. CurInv'
  BY <1>4, <1>5, <1>8, ListNames DEF UartInv, CurInv, Starting
<1>15. DevsInv'
  <2>1. ASSUME NEW i \in Devs PROVE DevOf(i)'
    <3>1. DevOf(i) /\ uarts'[i] = uarts[i] /\ (Fresh(i)' <=> Fresh(i))
      BY <1>4, <1>5 DEF UartInv, DevsInv, Fresh, Starting
    <3>2. /\ i \in At("idle") => i \in At("idle")'
          /\ \A l \in S!Lists : l # "idle" => (i \in At(l)' <=> i \in At(l))
      BY <1>7, <1>8
    <3> QED
      BY <1>4, <3>1, <3>2, ListNames DEF DevOf
  <2>2. DevOf(n)'
    BY <1>2, <1>5, <1>7 DEF DevOf
  <2> QED
    BY <1>5, <2>1, <2>2 DEF DevsInv
<1>16. SaidInv' /\ TurnInv'
  <2>1. SaidInv'
    BY <1>4, <1>5, <1>9, SaidSame DEF UartInv
  <2> QED
    BY <1>4, <2>1, TurnSame DEF UartInv
<1> QED
  BY <1>7, <1>9, <1>10, <1>11, <1>12, <1>13, <1>14, <1>15, <1>16 DEF UartInv

-----------------------------------------------------------------------------
(* A device is moved.                                                      *)
LEMMA SearchInv ==
  ASSUME UartInv, NEW i \in Devs, S!Search(i)
  PROVE  UartInv'
<1>1. /\ uarts[i].search /\ uarts[i] \in Dev /\ i \in Nat /\ uarts \in Seq(Dev)
      /\ head' = [[l \in S!Lists |-> S!RemoveFirst(head[l], i)] EXCEPT !["hotplug"] = <<i>>]
      /\ overtaken' = overtaken \cup (At("hotplug") \ {i})
      /\ UNCHANGED <<line, turns, working_cnt, hotplug, cur, adder, nxtid, hotplugs>>
  BY DEF S!Search, S!ToHotplug, S!Without, S!dev, At, UartInv, UartKinds, Devs
<1>2. PICK d \in Dev : d = [uarts[i] EXCEPT !.search = FALSE, !.usta = "hotplug"]
  BY <1>1, ListNames DEF Dev
<1>3. uarts' = [uarts EXCEPT ![i] = d]
  BY <1>2 DEF S!Search
<1>4. /\ uarts' \in Seq(Dev) /\ Len(uarts') = Len(uarts) /\ Devs' = Devs
      /\ uarts'[i] = d /\ \A j \in Devs : j # i => uarts'[j] = uarts[j]
  BY <1>1, <1>3, DevEffect
<1>5. /\ d.usta = "hotplug" /\ ~ d.search /\ d.name = uarts[i].name /\ d.id = uarts[i].id
      /\ d.plist = uarts[i].plist /\ d.named = uarts[i].named /\ d.offline = uarts[i].offline
      /\ d.recv = uarts[i].recv /\ d.freed = uarts[i].freed
  BY <1>1, <1>2 DEF Dev
<1>6. /\ HeadsInv' /\ At("hotplug")' = {i}
      /\ \A l \in S!Lists : l # "hotplug" =>
           /\ At(l)' = At(l) \ {i}
           /\ Count(l)' = IF i \in At(l) THEN Count(l) - 1 ELSE Count(l)
           /\ Count(l) > 0 /\ LastOf(l) # i => Count(l)' > 0 /\ LastOf(l)' = LastOf(l)
  BY <1>1, ListNames, AloneEffect DEF UartInv
<1>7. DevOf(i) /\ uarts[i].usta = "idle" /\ i \notin At("work") /\ i \notin At("unplug")
  BY <1>1, ListNames DEF UartInv, DevsInv, DevOf, MemberInv
<1>8. ~ d.named /\ ~ d.recv /\ ~ d.freed
  BY <1>5, <1>7 DEF DevOf
<1>9. Given' = Given /\ IdsInv'
  BY <1>1, <1>4, <1>5, IdsSame DEF UartInv
<1>10. UartKinds' /\ RoomInv'
  <2>1. S!Opening' = S!Opening
    BY <1>1 DEF S!Opening
  <2> QED
    BY <1>1, <1>4, <2>1 DEF UartInv, UartKinds, RoomInv
<1>11. MemberInv'
  BY <1>4, <1>5, <1>6 DEF UartInv, MemberInv
<1>12. CountInv'
  BY <1>1, <1>6, <1>7, ListNames DEF UartInv, CountInv
<1>13. CurInv'
  <2>1. hotplug \in Starting => cur # i /\ LastOf("work") # i
    BY <1>7 DEF UartInv, CurInv
  <2>2. hotplug = "kill" => cur # i
    BY <1>7 DEF UartInv, CurInv
  <2>3. hotplug \in {"tell", "gone"} => cur # i
    BY <1>7, <1>5, <1>8 DEF UartInv, CurInv
  <2>4. hotplug = "id" => cur # i
    BY <2>1 DEF Starting
  <2>5. hotplug \in Starting => Count("work")' > 0 /\ LastOf("work")' = cur
    BY <1>6, <2>1, ListNames DEF UartInv, CurInv
  <2> QED
    BY <1>1, <1>4, <1>6, <2>1, <2>2, <2>3, <2>4, <2>5, ListNames DEF UartInv, CurInv, Starting
<1>14. DevsInv'
  <2>1. ASSUME NEW j \in Devs, j # i PROVE DevOf(j)'
    <3>1. DevOf(j) /\ uarts'[j] = uarts[j] /\ (Fresh(j)' <=> Fresh(j))
      BY <1>1, <1>4, <2>1 DEF UartInv, DevsInv, Fresh, Starting
    <3>2. \A l \in S!Lists : l # "hotplug" => (j \in At(l)' <=> j \in At(l))
      BY <1>6, <2>1
    <3>3. j \in At("hotplug") \/ j \in overtaken => j \in overtaken'
      BY <1>1, <2>1
    <3> QED
      BY <1>1, <3>1, <3>2, <3>3, ListNames DEF DevOf
  <2>2. DevOf(i)'
    BY <1>4, <1>5, <1>6, <1>8 DEF DevOf
  <2> QED
    BY <1>4, <2>1, <2>2 DEF DevsInv
<1>15. SaidInv' /\ TurnInv'
  <2>1. \A j \in Given : uarts'[j].id = uarts[j].id /\ (uarts[j].freed => uarts'[j].freed)
    BY <1>4, <1>5 DEF Given
  <2>2. SaidInv'
    BY <1>1, <1>9, <2>1, SaidSame DEF UartInv
  <2> QED
    BY <1>1, <2>2, TurnSame DEF UartInv
<1> QED
  BY <1>6, <1>9, <1>10, <1>11, <1>12, <1>13, <1>14, <1>15 DEF UartInv

LEMMA EvLoopInv ==
  ASSUME ~ ClockSteps, UartInv, NEW i \in Devs, S!EvLoop(i)
  PROVE  UartInv'
<1>1. /\ uarts[i].recv /\ ~ uarts[i].offline /\ uarts[i] \in Dev /\ i \in Nat /\ uarts \in Seq(Dev)
      /\ ~ (cur = i /\ hotplug \in Starting)
      /\ head' = [[l \in S!Lists |-> S!RemoveFirst(head[l], i)] EXCEPT !["unplug"] = Append(@, i)]
      /\ UNCHANGED <<line, turns, working_cnt, hotplug, cur, adder, nxtid, hotplugs, overtaken>>
  BY DEF S!EvLoop, S!Move, S!Without, S!dev, UartInv, UartKinds, Devs, Starting
<1>2. PICK d \in Dev : d = [uarts[i] EXCEPT !.offline = TRUE, !.usta = "unplug"]
  BY <1>1, ListNames DEF Dev
<1>3. uarts' = [uarts EXCEPT ![i] = d]
  BY <1>2 DEF S!EvLoop
<1>4. /\ uarts' \in Seq(Dev) /\ Len(uarts') = Len(uarts) /\ Devs' = Devs
      /\ uarts'[i] = d /\ \A j \in Devs : j # i => uarts'[j] = uarts[j]
  BY <1>1, <1>3, DevEffect
<1>5. /\ d.usta = "unplug" /\ d.offline /\ d.search = uarts[i].search /\ d.name = uarts[i].name
      /\ d.id = uarts[i].id /\ d.plist = uarts[i].plist /\ d.named = uarts[i].named
      /\ d.recv = uarts[i].recv /\ d.freed = uarts[i].freed
  BY <1>1, <1>2 DEF Dev
<1>6. /\ HeadsInv' /\ At("unplug")' = At("unplug") \cup {i}
      /\ Count("unplug")' = IF i \in At("unplug") THEN Count("unplug") ELSE Count("unplug") + 1
      /\ \A l \in S!Lists : l # "unplug" =>
           /\ At(l)' = At(l) \ {i}
           /\ Count(l)' = IF i \in At(l) THEN Count(l) - 1 ELSE Count(l)
           /\ Count(l) > 0 /\ LastOf(l) # i => Count(l)' > 0 /\ LastOf(l)' = LastOf(l)
  BY <1>1, ListNames, MoveEffect DEF UartInv
<1>7. /\ DevOf(i) /\ uarts[i].usta = "work" /\ i \in At("work") /\ i \notin At("unplug")
  BY <1>1, ListNames DEF UartInv, DevsInv, DevOf, MemberInv, Dev
<1>8. d.named /\ ~ d.freed /\ ~ d.search
  BY <1>1, <1>5, <1>7 DEF DevOf, Fresh
<1>9. Given' = Given /\ IdsInv'
  BY <1>1, <1>4, <1>5, IdsSame DEF UartInv
<1>10. UartKinds' /\ RoomInv'
  <2>1. S!Opening' = S!Opening
    BY <1>1 DEF S!Opening
  <2> QED
    BY <1>1, <1>4, <2>1 DEF UartInv, UartKinds, RoomInv
<1>11. MemberInv'
  BY <1>4, <1>5, <1>6 DEF UartInv, MemberInv
<1>12. CountInv'
  <2>1. Count("work") \in Nat /\ Count("unplug") \in Nat
    BY ListNames DEF UartInv, HeadsInv, Count
  <2>2. Count("work")' = Count("work") - 1 /\ Count("unplug")' = Count("unplug") + 1
    BY <1>6, <1>7, ListNames
  <2> QED
    BY <1>1, <2>1, <2>2 DEF UartInv, CountInv
<1>13. CurInv'
  <2>1. hotplug \in Starting => cur # i /\ LastOf("work") # i
    BY <1>1 DEF UartInv, CurInv
  <2>2. hotplug = "kill" => cur # i
    BY <1>7 DEF UartInv, CurInv
  <2>3. hotplug = "gone" => cur # i
    BY <1>5, <1>8 DEF UartInv, CurInv
  <2>4. hotplug = "id" => cur # i
    BY <2>1 DEF Starting
  <2>5. hotplug \in Starting => Count("work")' > 0 /\ LastOf("work")' = cur
    BY <1>6, <2>1, ListNames DEF UartInv, CurInv
  <2>6. hotplug = "tell" => uarts'[cur].named /\ ~ uarts'[cur].freed /\ cur \in Devs
    BY <1>4, <1>5, <1>8 DEF UartInv, CurInv
  <2> QED
    BY <1>1, <1>4, <1>6, <2>1, <2>2, <2>3, <2>4, <2>5, <2>6 DEF UartInv, CurInv, Starting
<1>14. DevsInv'
  <2>1. ASSUME NEW j \in Devs, j # i PROVE DevOf(j)'
    <3>1. DevOf(j) /\ uarts'[j] = uarts[j] /\ (Fresh(j)' <=> Fresh(j))
      BY <1>1, <1>4, <2>1 DEF UartInv, DevsInv, Fresh, Starting
    <3>2. \A l \in S!Lists : j \in At(l)' <=> j \in At(l)
      BY <1>6, <2>1
    <3> QED
      BY <1>1, <3>1, <3>2, ListNames DEF DevOf
  <2>2. DevOf(i)'
    BY <1>4, <1>5, <1>6, <1>8 DEF DevOf
  <2> QED
    BY <1>4, <2>1, <2>2 DEF DevsInv
<1>15. SaidInv' /\ TurnInv'
  <2>1. \A j \in Given : uarts'[j].id = uarts[j].id /\ (uarts[j].freed => uarts'[j].freed)
    BY <1>4, <1>5 DEF Given
  <2>2. SaidInv'
    BY <1>1, <1>9, <2>1, SaidSame DEF UartInv
  <2> QED
    BY <1>1, <2>2, TurnSame DEF UartInv
<1> QED
  BY <1>6, <1>9, <1>10, <1>11, <1>12, <1>13, <1>14, <1>15 DEF UartInv

\* The device found is taken to work.
LEMMA PollPlugInv == UartInv /\ S!PollPlug => UartInv'
<1> SUFFICES ASSUME UartInv, S!PollPlug PROVE UartInv'
  OBVIOUS
<1>1. PICK i : i = Head(head["hotplug"])
  OBVIOUS
<1>2. /\ head["hotplug"] # <<>> /\ hotplug = "hotplug" /\ hotplug' = "raw" /\ cur' = i
      /\ head' = [[l \in S!Lists |-> S!RemoveFirst(head[l], i)] EXCEPT !["work"] = Append(@, i)]
      /\ uarts' = [uarts EXCEPT ![i]["usta"] = "work"] /\ working_cnt' = working_cnt + 1
      /\ UNCHANGED <<line, turns, adder, nxtid, hotplugs, overtaken>>
  BY <1>1 DEF S!PollPlug, S!Goto, S!Move, S!Set, S!Without, S!dev
<1>3. i \in At("hotplug")
  <2>1. head["hotplug"] \in Seq(Nat) /\ S!IsInjective(head["hotplug"])
    BY ListNames DEF UartInv, HeadsInv
  <2> QED
    BY <1>1, <1>2, <2>1, FirstFacts DEF At
<1>4. /\ i \in Devs /\ i \in Nat /\ uarts[i] \in Dev /\ uarts \in Seq(Dev)
      /\ uarts[i].usta = "hotplug" /\ i \notin At("work") /\ i \notin At("unplug") /\ DevOf(i)
  BY <1>3, ListNames DEF UartInv, UartKinds, MemberInv, Devs, DevsInv
<1>5. PICK d \in Dev : d = [uarts[i] EXCEPT !["usta"] = "work"]
  BY <1>4, ListNames DEF Dev
<1>6. uarts' = [uarts EXCEPT ![i] = d]
  BY <1>2, <1>5
<1>7. /\ uarts' \in Seq(Dev) /\ Len(uarts') = Len(uarts) /\ Devs' = Devs
      /\ uarts'[i] = d /\ \A j \in Devs : j # i => uarts'[j] = uarts[j]
  BY <1>4, <1>6, DevEffect
<1>8. /\ d.usta = "work" /\ d.search = uarts[i].search /\ d.named = uarts[i].named
      /\ d.id = uarts[i].id /\ d.recv = uarts[i].recv /\ d.freed = uarts[i].freed
  BY <1>4, <1>5 DEF Dev
<1>9. /\ HeadsInv' /\ At("work")' = At("work") \cup {i}
      /\ Count("work")' = Count("work") + 1 /\ LastOf("work")' = i /\ Count("work")' > 0
      /\ Count("unplug")' = Count("unplug")
      /\ \A l \in S!Lists : l # "work" => At(l)' = At(l) \ {i}
  BY <1>2, <1>4, ListNames, MoveEffect DEF UartInv
<1>10. ~ d.named /\ ~ d.freed /\ ~ d.search
  BY <1>4, <1>8 DEF DevOf
<1>11. Given' = Given /\ IdsInv'
  BY <1>2, <1>7, <1>8, IdsSame DEF UartInv
<1>12. UartKinds' /\ RoomInv'
  <2>1. S!Opening' = S!Opening
    BY <1>2 DEF S!Opening
  <2> QED
    BY <1>2, <1>4, <1>7, <2>1 DEF UartInv, UartKinds, RoomInv, Pcs
<1>13. MemberInv'
  <2>1. ASSUME NEW l \in S!Lists, NEW j \in At(l)' PROVE j \in Devs /\ uarts'[j].usta = l
    <3>1. CASE j = i
      <4>1. l = "work"
        BY <1>9, <2>1, <3>1
      <4> QED
        BY <1>4, <1>7, <1>8, <3>1, <4>1
    <3>2. CASE j # i
      <4>1. j \in At(l)
        BY <1>9, <2>1, <3>2
      <4>2. j \in Devs /\ uarts[j].usta = l
        BY <4>1 DEF UartInv, MemberInv
      <4> QED
        BY <1>7, <3>2, <4>2
    <3> QED
      BY <3>1, <3>2
  <2> QED
    BY <1>7, <2>1, ListNames DEF MemberInv, S!Lists
<1>14. CountInv'
  <2>1. Count("work") \in Nat /\ Count("unplug") \in Nat
    BY ListNames DEF UartInv, HeadsInv, Count
  <2> QED
    BY <1>2, <1>9, <2>1 DEF UartInv, CountInv
<1>15. CurInv'
  BY <1>2, <1>4, <1>7, <1>8, <1>9, <1>10 DEF CurInv
<1>16. DevsInv'
  <2>1. ASSUME NEW j \in Devs, j # i PROVE DevOf(j)'
    <3>1. DevOf(j) /\ uarts'[j] = uarts[j] /\ ~ Fresh(j)
      BY <1>2, <1>7, <2>1 DEF UartInv, DevsInv, Fresh, Starting
    <3>2. \A l \in S!Lists : j \in At(l)' <=> j \in At(l)
      BY <1>9, <2>1
    <3> QED
      BY <1>2, <3>1, <3>2, ListNames DEF DevOf
  <2>2. DevOf(i)'
    BY <1>2, <1>7, <1>8, <1>9, <1>10 DEF DevOf, Fresh, Starting
  <2> QED
    BY <1>7, <2>1, <2>2 DEF DevsInv
<1>17. SaidInv' /\ TurnInv'
  <2>1. \A j \in Given : uarts'[j].id = uarts[j].id /\ (uarts[j].freed => uarts'[j].freed)
    BY <1>7, <1>8 DEF Given
  <2>2. SaidInv'
    BY <1>2, <1>11, <2>1, SaidSame DEF UartInv
  <2> QED
    BY <1>2, <2>2, TurnSame DEF UartInv
<1> QED
  BY <1>9, <1>11, <1>12, <1>13, <1>14, <1>15, <1>16, <1>17 DEF UartInv

-----------------------------------------------------------------------------
(* The poll thread starts a device.                                        *)
LEMMA ListsSame ==
  head' = head => \A l : At(l)' = At(l) /\ Count(l)' = Count(l) /\ LastOf(l)' = LastOf(l)
<1> QED
  BY DEF At, Count, LastOf

LEMMA SetPlistInv == UartInv /\ S!SetPlist => UartInv'
<1> SUFFICES ASSUME UartInv, S!SetPlist PROVE UartInv'
  OBVIOUS
<1>1. /\ hotplug = "raw" /\ hotplug' = "start" /\ uarts' = [uarts EXCEPT ![cur]["plist"] = "raw"]
      /\ UNCHANGED <<line, turns, head, working_cnt, cur, adder, nxtid, hotplugs, overtaken>>
  BY DEF S!SetPlist, S!Goto, S!Set, S!dev
<1>2. /\ cur \in Devs /\ uarts[cur] \in Dev /\ uarts \in Seq(Dev) /\ DevOf(cur)
      /\ uarts[cur].usta = "work" /\ ~ uarts[cur].named
      /\ Count("work") > 0 /\ LastOf("work") = cur
  BY <1>1 DEF UartInv, UartKinds, CurInv, Starting, DevsInv, Devs
<1>3. PICK d \in Dev : d = [uarts[cur] EXCEPT !["plist"] = "raw"]
  BY <1>2 DEF Dev
<1>4. /\ uarts' \in Seq(Dev) /\ Len(uarts') = Len(uarts) /\ Devs' = Devs
      /\ uarts'[cur] = d /\ \A j \in Devs : j # cur => uarts'[j] = uarts[j]
  <2>1. uarts' = [uarts EXCEPT ![cur] = d]
    BY <1>1, <1>3
  <2> QED
    BY <1>2, <2>1, DevEffect
<1>5. /\ d.usta = uarts[cur].usta /\ d.search = uarts[cur].search /\ d.named = uarts[cur].named
      /\ d.id = uarts[cur].id /\ d.freed = uarts[cur].freed
  BY <1>2, <1>3 DEF Dev
<1>6. \A l : At(l)' = At(l) /\ Count(l)' = Count(l) /\ LastOf(l)' = LastOf(l)
  BY <1>1, ListsSame
<1>7. Given' = Given /\ IdsInv'
  BY <1>1, <1>4, <1>5, IdsSame DEF UartInv
<1>8. UartKinds' /\ RoomInv'
  <2>1. S!Opening' = S!Opening
    BY <1>1 DEF S!Opening
  <2> QED
    BY <1>1, <1>4, <2>1 DEF UartInv, UartKinds, RoomInv, Pcs
<1>9. HeadsInv' /\ MemberInv' /\ CountInv'
  <2>1. \A j \in Devs : uarts'[j].usta = uarts[j].usta
    BY <1>2, <1>4, <1>5
  <2>2. MemberInv'
    BY <1>4, <1>6, <2>1 DEF UartInv, MemberInv
  <2> QED
    BY <1>1, <1>6, <2>2 DEF UartInv, HeadsInv, CountInv
<1>10. CurInv'
  BY <1>1, <1>2, <1>4, <1>5, <1>6 DEF CurInv
<1>11. DevsInv'
  <2>1. ASSUME NEW j \in Devs, j # cur PROVE DevOf(j)'
    <3>1. DevOf(j) /\ uarts'[j] = uarts[j] /\ ~ Fresh(j)
      BY <1>4, <2>1 DEF UartInv, DevsInv, Fresh
    <3> QED
      BY <1>1, <1>6, <3>1 DEF DevOf
  <2>2. DevOf(cur)'
    BY <1>1, <1>2, <1>4, <1>5, <1>6 DEF DevOf, Fresh, Starting
  <2> QED
    BY <1>1, <1>4, <2>1, <2>2 DEF DevsInv
<1>12. SaidInv' /\ TurnInv'
  <2>1. \A j \in Given : uarts'[j].id = uarts[j].id /\ (uarts[j].freed => uarts'[j].freed)
    BY <1>4, <1>5 DEF Given
  <2>2. SaidInv'
    BY <1>1, <1>7, <2>1, SaidSame DEF UartInv
  <2> QED
    BY <1>1, <2>2, TurnSame DEF UartInv
<1> QED
  BY <1>7, <1>8, <1>9, <1>10, <1>11, <1>12 DEF UartInv

LEMMA SetUpInv == UartInv /\ S!SetUp => UartInv'
<1> SUFFICES ASSUME UartInv, S!SetUp PROVE UartInv'
  OBVIOUS
<1>1. /\ hotplug = "start" /\ hotplug' = "id"
      /\ uarts' = [uarts EXCEPT ![cur].plist = "ready", ![cur].recv = TRUE]
      /\ UNCHANGED <<line, turns, head, working_cnt, cur, adder, nxtid, hotplugs, overtaken>>
  BY DEF S!SetUp, S!Goto, S!dev
<1>2. /\ cur \in Devs /\ uarts[cur] \in Dev /\ uarts \in Seq(Dev) /\ DevOf(cur)
      /\ uarts[cur].usta = "work" /\ ~ uarts[cur].named
      /\ Count("work") > 0 /\ LastOf("work") = cur
  BY <1>1 DEF UartInv, UartKinds, CurInv, Starting, DevsInv, Devs
<1>3. PICK d \in Dev : d = [uarts[cur] EXCEPT !.plist = "ready", !.recv = TRUE]
  BY <1>2 DEF Dev
<1>4. /\ uarts' \in Seq(Dev) /\ Len(uarts') = Len(uarts) /\ Devs' = Devs
      /\ uarts'[cur] = d /\ \A j \in Devs : j # cur => uarts'[j] = uarts[j]
  <2>1. uarts' = [uarts EXCEPT ![cur] = d]
    BY <1>1, <1>3
  <2> QED
    BY <1>2, <2>1, DevEffect
<1>5. /\ d.usta = uarts[cur].usta /\ d.search = uarts[cur].search /\ d.named = uarts[cur].named
      /\ d.id = uarts[cur].id /\ d.freed = uarts[cur].freed /\ d.plist = "ready" /\ d.recv
  BY <1>2, <1>3 DEF Dev
<1>6. \A l : At(l)' = At(l) /\ Count(l)' = Count(l) /\ LastOf(l)' = LastOf(l)
  BY <1>1, ListsSame
<1>7. Given' = Given /\ IdsInv'
  BY <1>1, <1>4, <1>5, IdsSame DEF UartInv
<1>8. UartKinds' /\ RoomInv'
  <2>1. S!Opening' = S!Opening
    BY <1>1 DEF S!Opening
  <2> QED
    BY <1>1, <1>4, <2>1 DEF UartInv, UartKinds, RoomInv, Pcs
<1>9. HeadsInv' /\ MemberInv' /\ CountInv'
  <2>1. \A j \in Devs : uarts'[j].usta = uarts[j].usta
    BY <1>2, <1>4, <1>5
  <2>2. MemberInv'
    BY <1>4, <1>6, <2>1 DEF UartInv, MemberInv
  <2> QED
    BY <1>1, <1>6, <2>2 DEF UartInv, HeadsInv, CountInv
<1>10. CurInv'
  BY <1>1, <1>2, <1>4, <1>5, <1>6 DEF CurInv
<1>11. DevsInv'
  <2>1. ASSUME NEW j \in Devs, j # cur PROVE DevOf(j)'
    <3>1. DevOf(j) /\ uarts'[j] = uarts[j] /\ ~ Fresh(j)
      BY <1>4, <2>1 DEF UartInv, DevsInv, Fresh
    <3> QED
      BY <1>1, <1>6, <3>1 DEF DevOf
  <2>2. DevOf(cur)'
    BY <1>1, <1>2, <1>4, <1>5, <1>6 DEF DevOf, Fresh, Starting
  <2> QED
    BY <1>1, <1>4, <2>1, <2>2 DEF DevsInv
<1>12. SaidInv' /\ TurnInv'
  <2>1. \A j \in Given : uarts'[j].id = uarts[j].id /\ (uarts[j].freed => uarts'[j].freed)
    BY <1>4, <1>5 DEF Given
  <2>2. SaidInv'
    BY <1>1, <1>7, <2>1, SaidSame DEF UartInv
  <2> QED
    BY <1>1, <2>2, TurnSame DEF UartInv
<1> QED
  BY <1>7, <1>8, <1>9, <1>10, <1>11, <1>12 DEF UartInv

\* It gets its id.
LEMMA PollIdInv == UartInv /\ S!PollId => UartInv'
<1> SUFFICES ASSUME UartInv, S!PollId PROVE UartInv'
  OBVIOUS
<1>1. /\ hotplug = "id" /\ hotplug' = "tell" /\ nxtid' = nxtid + 1
      /\ uarts' = [uarts EXCEPT ![cur].offline = FALSE, ![cur].id = nxtid, ![cur].named = TRUE]
      /\ UNCHANGED <<line, turns, head, working_cnt, cur, adder, hotplugs, overtaken>>
  BY DEF S!PollId, S!Goto, S!dev
<1>2. /\ cur \in Devs /\ uarts[cur] \in Dev /\ uarts \in Seq(Dev) /\ DevOf(cur)
      /\ uarts[cur].usta = "work" /\ ~ uarts[cur].named /\ uarts[cur].plist = "ready"
      /\ uarts[cur].recv /\ nxtid \in Nat
  BY <1>1 DEF UartInv, UartKinds, CurInv, Starting, DevsInv, Devs
<1>3. PICK d \in Dev : d = [uarts[cur] EXCEPT !.offline = FALSE, !.id = nxtid, !.named = TRUE]
  BY <1>2 DEF Dev
<1>4. /\ uarts' \in Seq(Dev) /\ Len(uarts') = Len(uarts) /\ Devs' = Devs
      /\ uarts'[cur] = d /\ \A j \in Devs : j # cur => uarts'[j] = uarts[j]
  <2>1. uarts' = [uarts EXCEPT ![cur] = d]
    BY <1>1, <1>3
  <2> QED
    BY <1>2, <2>1, DevEffect
<1>5. /\ d.usta = "work" /\ d.search = uarts[cur].search /\ d.named
      /\ d.id = nxtid /\ d.freed = uarts[cur].freed /\ d.plist = "ready" /\ d.recv
  BY <1>2, <1>3 DEF Dev
<1>6. \A l : At(l)' = At(l) /\ Count(l)' = Count(l) /\ LastOf(l)' = LastOf(l)
  BY <1>1, ListsSame
<1>7. Given' = Given \cup {cur} /\ cur \notin Given
  BY <1>2, <1>4, <1>5 DEF Given
<1>8. \A i \in Given : i # cur /\ uarts'[i].id = uarts[i].id /\ uarts[i].id \in Nat
                       /\ uarts'[i] = uarts[i] /\ uarts[i].id # nxtid /\ uarts[i].id < nxtid
  <2>1. ASSUME NEW i \in Given PROVE i # cur /\ i \in Devs /\ uarts[i] \in Dev
    BY <1>2, <2>1 DEF Given, Devs
  <2> QED
    BY <1>2, <1>4, <2>1 DEF UartInv, IdsInv, Dev
<1>9. IdsInv'
  <2>1. Cardinality(Given') = Cardinality(Given) + 1
    <3>1. IsFiniteSet(Devs)
      BY <1>2, FS_Interval DEF Devs
    <3>2. IsFiniteSet(Given)
      BY <3>1, FS_Subset DEF Given
    <3> QED
      BY <1>7, <3>2, FS_AddElement
  <2>2. nxtid' = Cardinality(Given')
    BY <1>1, <2>1 DEF UartInv, IdsInv
  <2>3. ASSUME NEW i \in Given' PROVE uarts'[i].id < nxtid'
    <3>1. CASE i = cur
      BY <1>1, <1>2, <1>4, <1>5, <3>1
    <3>2. CASE i \in Given
      <4>1. PICK u \in Nat : u = uarts[i].id
        BY <1>8, <3>2
      <4>2. u < nxtid /\ uarts'[i].id = u
        BY <1>8, <3>2, <4>1
      <4>3. u < nxtid + 1
        BY <1>2, <4>2
      <4> QED
        BY <1>1, <4>2, <4>3
    <3> QED
      BY <1>7, <3>1, <3>2
  <2>4. \A i, j \in Given' : uarts'[i].id = uarts'[j].id => i = j
    BY <1>4, <1>5, <1>7, <1>8 DEF UartInv, IdsInv
  <2> QED
    BY <2>2, <2>3, <2>4 DEF IdsInv
<1>10. UartKinds' /\ RoomInv'
  <2>1. S!Opening' = S!Opening
    BY <1>1 DEF S!Opening
  <2>2. nxtid' \in Nat
    BY <1>1, <1>2
  <2>3. RoomInv'
    BY <1>4, <2>1 DEF UartInv, RoomInv
  <2> QED
    BY <1>1, <1>4, <2>2, <2>3 DEF UartInv, UartKinds, Pcs
<1>11. HeadsInv' /\ MemberInv' /\ CountInv'
  <2>1. \A j \in Devs : uarts'[j].usta = uarts[j].usta
    BY <1>2, <1>4, <1>5
  <2>2. MemberInv'
    BY <1>4, <1>6, <2>1 DEF UartInv, MemberInv
  <2> QED
    BY <1>1, <1>6, <2>2 DEF UartInv, HeadsInv, CountInv
<1>12. CurInv'
  BY <1>1, <1>2, <1>4, <1>5 DEF CurInv, DevOf, Starting
<1>13. DevsInv'
  <2>1. ASSUME NEW j \in Devs, j # cur PROVE DevOf(j)'
    <3>1. DevOf(j) /\ uarts'[j] = uarts[j] /\ ~ Fresh(j)
      BY <1>4, <2>1 DEF UartInv, DevsInv, Fresh
    <3> QED
      BY <1>1, <1>6, <3>1 DEF DevOf
  <2>2. DevOf(cur)'
    BY <1>1, <1>2, <1>4, <1>5, <1>6 DEF DevOf
  <2> QED
    BY <1>1, <1>4, <2>1, <2>2 DEF DevsInv
<1>14. \A n, s : Said(n, s)' <=> Said(n, s)
  BY <1>1 DEF Said
<1>15. SaidInv'
  <2>1. ASSUME NEW k \in DOMAIN hotplugs
        PROVE  \E i \in Given' : hotplugs[k].id = uarts'[i].id /\ hotplugs[k].id # nxtid
    <3>1. PICK i \in Given : hotplugs[k].id = uarts[i].id
      BY DEF UartInv, SaidInv
    <3> QED
      BY <1>7, <1>8, <3>1
  <2>2. ~ Said(nxtid, 0) /\ ~ Said(nxtid, 1)
    BY <2>1 DEF Said
  <2>3. ASSUME NEW i \in Given
        PROVE  /\ Said(uarts[i].id, 1)
               /\ Said(uarts[i].id, 0) => uarts[i].freed
    BY <1>1 DEF UartInv, SaidInv
  <2>4. ASSUME NEW i \in Given'
        PROVE  /\ Said(uarts'[i].id, 1) <=> ~ (hotplug' = "tell" /\ cur' = i)
               /\ Said(uarts'[i].id, 0) => uarts'[i].freed /\ ~ (hotplug' = "gone" /\ cur' = i)
    <3>1. CASE i = cur
      BY <1>1, <1>4, <1>5, <2>2, <3>1
    <3>2. CASE i \in Given
      BY <1>1, <1>8, <2>3, <3>2
    <3> QED
      BY <1>7, <3>1, <3>2
  <2> QED
    BY <1>1, <1>14, <2>1, <2>4 DEF SaidInv
<1>16. TurnInv'
  BY <1>1, TurnSame DEF UartInv
<1> QED
  BY <1>9, <1>10, <1>11, <1>12, <1>13, <1>15, <1>16 DEF UartInv

-----------------------------------------------------------------------------
(* The events.                                                             *)

LEMMA EventKinds == UartKinds => \A k \in DOMAIN hotplugs : hotplugs[k].status \in {0, 1}
<1> SUFFICES ASSUME UartKinds, NEW k \in DOMAIN hotplugs PROVE hotplugs[k].status \in {0, 1}
  OBVIOUS
<1>1. PICK T : T = [id : Nat, status : {0, 1}]
  OBVIOUS
<1>2. hotplugs \in Seq(T)
  BY <1>1 DEF UartKinds
<1>3. hotplugs[k] \in T
  BY <1>2, ElementIn
<1> QED
  BY <1>1, <1>3

\* One event more.
LEMMA EventEffect ==
  ASSUME UartKinds, NEW e, e \in [id : Nat, status : {0, 1}], hotplugs' = Append(hotplugs, e)
  PROVE  /\ hotplugs' \in Seq([id : Nat, status : {0, 1}])
         /\ \A n, s : Said(n, s)' <=> Said(n, s) \/ (e.id = n /\ e.status = s)
         /\ \A k \in DOMAIN hotplugs : k \in DOMAIN hotplugs' /\ hotplugs'[k] = hotplugs[k]
         /\ Len(hotplugs) + 1 \in DOMAIN hotplugs' /\ hotplugs'[Len(hotplugs) + 1] = e
         /\ \A k \in DOMAIN hotplugs' : k \in DOMAIN hotplugs \/ k = Len(hotplugs) + 1
         /\ \A k \in DOMAIN hotplugs : k \in Int /\ k < Len(hotplugs) + 1
<1>1. hotplugs \in Seq([id : Nat, status : {0, 1}])
  BY DEF UartKinds
<1>2. /\ hotplugs' \in Seq([id : Nat, status : {0, 1}])
      /\ \A k \in DOMAIN hotplugs : k \in DOMAIN hotplugs' /\ hotplugs'[k] = hotplugs[k]
      /\ Len(hotplugs) + 1 \in DOMAIN hotplugs' /\ hotplugs'[Len(hotplugs) + 1] = e
      /\ \A k \in DOMAIN hotplugs' : k \in DOMAIN hotplugs \/ k = Len(hotplugs) + 1
      /\ \A k \in DOMAIN hotplugs : k \in Int /\ k < Len(hotplugs) + 1
  BY <1>1
<1>3. ASSUME NEW n, NEW s PROVE Said(n, s)' <=> Said(n, s) \/ (e.id = n /\ e.status = s)
  BY <1>2 DEF Said
<1> QED
  BY <1>2, <1>3

LEMMA PollTellInv == UartInv /\ S!PollTell => UartInv'
<1> SUFFICES ASSUME UartInv, S!PollTell PROVE UartInv'
  OBVIOUS
<1>1. PICK e : e = [id |-> uarts[cur].id, status |-> 1]
  OBVIOUS
<1>2. /\ hotplug = "tell" /\ hotplug' = "hotplug" /\ hotplugs' = Append(hotplugs, e)
      /\ UNCHANGED <<line, turns, uarts, head, working_cnt, cur, adder, nxtid, overtaken>>
  BY <1>1 DEF S!PollTell, S!Goto, S!Event, S!dev
<1>3. cur \in Given /\ cur \in Devs /\ uarts[cur] \in Dev
  BY <1>2 DEF UartInv, UartKinds, CurInv, Given, Devs
<1>4. e \in [id : Nat, status : {0, 1}] /\ e.id = uarts[cur].id /\ e.status = 1
  BY <1>1, <1>3 DEF Dev
<1>5. /\ hotplugs' \in Seq([id : Nat, status : {0, 1}])
      /\ \A n, s : Said(n, s)' <=> Said(n, s) \/ (e.id = n /\ e.status = s)
      /\ \A k \in DOMAIN hotplugs : k \in DOMAIN hotplugs' /\ hotplugs'[k] = hotplugs[k]
      /\ Len(hotplugs) + 1 \in DOMAIN hotplugs' /\ hotplugs'[Len(hotplugs) + 1] = e
      /\ \A k \in DOMAIN hotplugs' : k \in DOMAIN hotplugs \/ k = Len(hotplugs) + 1
      /\ \A k \in DOMAIN hotplugs : k \in Int /\ k < Len(hotplugs) + 1
  BY <1>2, <1>4, EventEffect DEF UartInv
<1>6. \A l : At(l)' = At(l) /\ Count(l)' = Count(l) /\ LastOf(l)' = LastOf(l)
  BY <1>2, ListsSame
<1>7. Devs' = Devs /\ Given' = Given
  BY <1>2 DEF Devs, Given
<1>8. UartKinds' /\ RoomInv'
  <2>1. S!Opening' = S!Opening
    BY <1>2 DEF S!Opening
  <2> QED
    BY <1>2, <1>5, <2>1 DEF UartInv, UartKinds, RoomInv, Pcs
<1>9. IdsInv' /\ HeadsInv' /\ MemberInv' /\ CountInv'
  BY <1>2, <1>6, <1>7 DEF UartInv, IdsInv, HeadsInv, MemberInv, CountInv
<1>10. CurInv'
  BY <1>2 DEF CurInv, Starting
<1>11. DevsInv'
  <2>1. ASSUME NEW j \in Devs PROVE DevOf(j)'
    <3>1. DevOf(j) /\ ~ Fresh(j)
      BY <1>2 DEF UartInv, DevsInv, Fresh, Starting
    <3> QED
      BY <1>2, <1>6, <3>1 DEF DevOf
  <2> QED
    BY <1>7, <2>1 DEF DevsInv
<1>12. ~ Said(uarts[cur].id, 1) /\ ~ uarts[cur].freed
  BY <1>2, <1>3 DEF UartInv, SaidInv, CurInv
<1>13. ~ Said(uarts[cur].id, 0)
  BY <1>3, <1>12 DEF UartInv, SaidInv
<1>14. SaidInv'
  <2>1. \A k \in DOMAIN hotplugs' : \E i \in Given : hotplugs'[k].id = uarts[i].id
    BY <1>3, <1>4, <1>5 DEF UartInv, SaidInv
  <2>2. \A i \in Given : Said(uarts[i].id, 1)'
    BY <1>2, <1>3, <1>4, <1>5 DEF UartInv, SaidInv
  <2>3. \A i \in Given : Said(uarts[i].id, 0)' => uarts[i].freed
    BY <1>2, <1>4, <1>5 DEF UartInv, SaidInv
  <2> QED
    BY <1>2, <1>7, <2>1, <2>2, <2>3 DEF SaidInv
<1>15. TurnInv'
  <2>1. \A k \in DOMAIN hotplugs : hotplugs[k].id # uarts[cur].id
    <3>1. \A k \in DOMAIN hotplugs : hotplugs[k].status \in {0, 1}
      BY EventKinds DEF UartInv
    <3> QED
      BY <1>12, <1>13, <3>1 DEF Said
  <2>2. ASSUME NEW j \in DOMAIN hotplugs', NEW k \in DOMAIN hotplugs', j < k,
               hotplugs'[j].id = hotplugs'[k].id
        PROVE  hotplugs'[j].status = 1 /\ hotplugs'[k].status = 0
    <3>1. j \in DOMAIN hotplugs
      BY <1>5, <2>2
    <3>2. k \in DOMAIN hotplugs
      BY <1>4, <1>5, <2>1, <2>2, <3>1
    <3> QED
      BY <1>5, <2>2, <3>1, <3>2 DEF UartInv, TurnInv
  <2>3. ASSUME NEW j \in DOMAIN hotplugs', hotplugs'[j].status = 0
        PROVE  \E k \in DOMAIN hotplugs' : k < j /\ hotplugs'[k].id = hotplugs'[j].id
    <3>1. j \in DOMAIN hotplugs /\ hotplugs[j].status = 0
      BY <1>4, <1>5, <2>3
    <3>2. PICK k \in DOMAIN hotplugs : k < j /\ hotplugs[k].id = hotplugs[j].id
      BY <3>1 DEF UartInv, TurnInv
    <3> QED
      BY <1>5, <3>1, <3>2
  <2> QED
    BY <2>2, <2>3 DEF TurnInv
<1> QED
  BY <1>8, <1>9, <1>10, <1>11, <1>14, <1>15 DEF UartInv

LEMMA PollTellGoneInv == UartInv /\ S!PollTellGone => UartInv'
<1> SUFFICES ASSUME UartInv, S!PollTellGone PROVE UartInv'
  OBVIOUS
<1>1. PICK e : e = [id |-> uarts[cur].id, status |-> 0]
  OBVIOUS
<1>2. PICK p : p = [pc |-> "find", name |-> uarts[cur].name]
  OBVIOUS
<1>3. /\ hotplug = "gone" /\ hotplug' = "add" /\ hotplugs' = Append(hotplugs, e)
      /\ adder' = [adder EXCEPT !["poll"] = p]
      /\ UNCHANGED <<line, turns, uarts, head, working_cnt, cur, nxtid, overtaken>>
  BY <1>1, <1>2 DEF S!PollTellGone, S!Goto, S!Event, S!dev
<1>4. cur \in Given /\ cur \in Devs /\ uarts[cur] \in Dev /\ uarts[cur].freed
  BY <1>3 DEF UartInv, UartKinds, CurInv, Given, Devs
<1>5. e \in [id : Nat, status : {0, 1}] /\ e.id = uarts[cur].id /\ e.status = 0
  BY <1>1, <1>4 DEF Dev
<1>6. /\ hotplugs' \in Seq([id : Nat, status : {0, 1}])
      /\ \A n, s : Said(n, s)' <=> Said(n, s) \/ (e.id = n /\ e.status = s)
      /\ \A k \in DOMAIN hotplugs : k \in DOMAIN hotplugs' /\ hotplugs'[k] = hotplugs[k]
      /\ Len(hotplugs) + 1 \in DOMAIN hotplugs' /\ hotplugs'[Len(hotplugs) + 1] = e
      /\ \A k \in DOMAIN hotplugs' : k \in DOMAIN hotplugs \/ k = Len(hotplugs) + 1
      /\ \A k \in DOMAIN hotplugs : k \in Int /\ k < Len(hotplugs) + 1
  BY <1>3, <1>5, EventEffect DEF UartInv
<1>7. /\ \A l : At(l)' = At(l) /\ Count(l)' = Count(l) /\ LastOf(l)' = LastOf(l)
      /\ Devs' = Devs /\ Given' = Given
  BY <1>3, ListsSame DEF Devs, Given
<1>8. UartKinds' /\ RoomInv'
  <2>1. p \in Adding /\ p.pc = "find" /\ "poll" \in S!Adders
    BY <1>2, <1>4 DEF Adding, Dev, S!Adders
  <2>2. adder' \in [S!Adders -> Adding] /\ Len(uarts) + Cardinality(S!Opening') <= MaxAdds
    BY <1>3, <2>1, AddingStill
  <2> QED
    BY <1>3, <1>6, <2>2 DEF UartInv, UartKinds, RoomInv, Pcs
<1>9. IdsInv' /\ HeadsInv' /\ MemberInv' /\ CountInv'
  BY <1>3, <1>7 DEF UartInv, IdsInv, HeadsInv, MemberInv, CountInv
<1>10. CurInv'
  BY <1>3 DEF CurInv, Starting
<1>11. DevsInv'
  <2>1. ASSUME NEW j \in Devs PROVE DevOf(j)'
    <3>1. DevOf(j) /\ ~ Fresh(j)
      BY <1>3 DEF UartInv, DevsInv, Fresh, Starting
    <3> QED
      BY <1>3, <1>7, <3>1 DEF DevOf
  <2> QED
    BY <1>7, <2>1 DEF DevsInv
<1>12. Said(uarts[cur].id, 1) /\ ~ Said(uarts[cur].id, 0)
  BY <1>3, <1>4 DEF UartInv, SaidInv
<1>13. SaidInv'
  <2>1. \A k \in DOMAIN hotplugs' : \E i \in Given : hotplugs'[k].id = uarts[i].id
    BY <1>4, <1>5, <1>6 DEF UartInv, SaidInv
  <2>2. \A i \in Given : Said(uarts[i].id, 1)'
    BY <1>3, <1>6 DEF UartInv, SaidInv
  <2>3. \A i \in Given : uarts[i].id = uarts[cur].id => i = cur
    BY <1>4 DEF UartInv, IdsInv
  <2>4. ASSUME NEW i \in Given, Said(uarts[i].id, 0)' PROVE uarts[i].freed
    <3>1. PICK m : m = uarts[i].id
      OBVIOUS
    <3>2. uarts'[i].id = m
      BY <1>3, <3>1
    <3>3. Said(m, 0)'
      BY <2>4, <3>2
    <3>4. Said(m, 0) \/ uarts[cur].id = m
      BY <1>5, <1>6, <3>3
    <3> QED
      BY <1>4, <2>3, <3>1, <3>4 DEF UartInv, SaidInv
  <2> QED
    BY <1>3, <1>7, <2>1, <2>2, <2>4 DEF SaidInv
<1>14. TurnInv'
  <2>1. /\ \A k \in DOMAIN hotplugs : hotplugs[k].id = uarts[cur].id => hotplugs[k].status = 1
        /\ \E k \in DOMAIN hotplugs : hotplugs[k].id = uarts[cur].id
    <3>1. \A k \in DOMAIN hotplugs : hotplugs[k].status \in {0, 1}
      BY EventKinds DEF UartInv
    <3> QED
      BY <1>12, <3>1 DEF Said
  <2>2. ASSUME NEW j \in DOMAIN hotplugs', NEW k \in DOMAIN hotplugs', j < k,
               hotplugs'[j].id = hotplugs'[k].id
        PROVE  hotplugs'[j].status = 1 /\ hotplugs'[k].status = 0
    <3>1. j \in DOMAIN hotplugs
      BY <1>6, <2>2
    <3>2. CASE k \in DOMAIN hotplugs
      BY <1>6, <2>2, <3>1, <3>2 DEF UartInv, TurnInv
    <3>3. CASE k = Len(hotplugs) + 1
      BY <1>5, <1>6, <2>1, <2>2, <3>1, <3>3
    <3> QED
      BY <1>6, <3>2, <3>3
  <2>3. ASSUME NEW j \in DOMAIN hotplugs', hotplugs'[j].status = 0
        PROVE  \E k \in DOMAIN hotplugs' : k < j /\ hotplugs'[k].id = hotplugs'[j].id
    <3>1. CASE j \in DOMAIN hotplugs
      <4>1. PICK k \in DOMAIN hotplugs : k < j /\ hotplugs[k].id = hotplugs[j].id
        BY <1>6, <2>3, <3>1 DEF UartInv, TurnInv
      <4> QED
        BY <1>6, <3>1, <4>1
    <3>2. CASE j = Len(hotplugs) + 1
      BY <1>5, <1>6, <2>1, <3>2
    <3> QED
      BY <1>6, <3>1, <3>2
  <2> QED
    BY <2>2, <2>3 DEF TurnInv
<1> QED
  BY <1>8, <1>9, <1>10, <1>11, <1>13, <1>14 DEF UartInv

-----------------------------------------------------------------------------
(* A device is taken down.                                                 *)
LEMMA PollUnplugInv == UartInv /\ S!PollUnplug => UartInv'
<1> SUFFICES ASSUME UartInv, S!PollUnplug PROVE UartInv'
  OBVIOUS
<1>1. PICK i : i = Head(head["unplug"])
  OBVIOUS
<1>2. /\ head["unplug"] # <<>> /\ hotplug = "unplug" /\ hotplug' = "kill" /\ cur' = i
      /\ head' = [head EXCEPT !["unplug"] = Tail(@)] /\ working_cnt' = working_cnt - 1
      /\ UNCHANGED <<line, turns, uarts, adder, nxtid, hotplugs, overtaken>>
  BY <1>1 DEF S!PollUnplug, S!Goto, S!dev
<1>3. /\ HeadsInv' /\ \A l \in S!Lists : l # "unplug" => head'[l] = head[l]
      /\ i \in At("unplug") /\ i \in Nat /\ At("unplug")' = At("unplug") \ {i}
      /\ Count("unplug")' = Count("unplug") - 1
  BY <1>1, <1>2, ListNames, TakeEffect DEF UartInv
<1>4. \A l \in S!Lists : l # "unplug" => At(l)' = At(l) /\ Count(l)' = Count(l)
  BY <1>3 DEF At, Count
<1>5. i \in Devs /\ uarts[i].usta = "unplug" /\ DevOf(i)
  BY <1>3, ListNames DEF UartInv, MemberInv, DevsInv
<1>6. ~ uarts[i].freed /\ uarts[i].named
  BY <1>3, <1>5 DEF DevOf
<1>7. Devs' = Devs /\ Given' = Given
  BY <1>2 DEF Devs, Given
<1>8. UartKinds' /\ RoomInv'
  <2>1. S!Opening' = S!Opening
    BY <1>2 DEF S!Opening
  <2> QED
    BY <1>2, <1>3, <2>1 DEF UartInv, UartKinds, RoomInv, Pcs
<1>9. IdsInv' /\ MemberInv'
  BY <1>2, <1>3, <1>4, <1>7 DEF UartInv, IdsInv, MemberInv
<1>10. CountInv'
  <2>1. Count("work") \in Nat /\ Count("unplug") \in Nat
    BY ListNames DEF UartInv, HeadsInv, Count
  <2> QED
    BY <1>2, <1>3, <1>4, <2>1, ListNames DEF UartInv, CountInv
<1>11. CurInv'
  BY <1>2, <1>3, <1>5, <1>6, <1>7 DEF CurInv, Starting
<1>12. DevsInv'
  <2>1. ASSUME NEW j \in Devs PROVE DevOf(j)'
    <3>1. DevOf(j) /\ ~ Fresh(j)
      BY <1>2 DEF UartInv, DevsInv, Fresh, Starting
    <3> QED
      BY <1>2, <1>3, <1>4, <1>6, <3>1, ListNames DEF DevOf
  <2> QED
    BY <1>7, <2>1 DEF DevsInv
<1>13. SaidInv' /\ TurnInv'
  <2>1. SaidInv'
    BY <1>2, <1>7, SaidSame DEF UartInv
  <2> QED
    BY <1>2, <2>1, TurnSame DEF UartInv
<1> QED
  BY <1>3, <1>8, <1>9, <1>10, <1>11, <1>12, <1>13 DEF UartInv

LEMMA PollKillInv == UartInv /\ S!PollKill => UartInv'
<1> SUFFICES ASSUME UartInv, S!PollKill PROVE UartInv'
  OBVIOUS
<1>1. /\ hotplug = "kill" /\ hotplug' = "gone"
      /\ uarts' = [uarts EXCEPT ![cur].recv = FALSE, ![cur].plist = "freed", ![cur].freed = TRUE]
      /\ UNCHANGED <<line, turns, head, working_cnt, cur, adder, nxtid, hotplugs, overtaken>>
  BY DEF S!PollKill, S!Unplug, S!Goto, S!dev
<1>2. /\ cur \in Devs /\ uarts[cur] \in Dev /\ uarts \in Seq(Dev) /\ DevOf(cur)
      /\ uarts[cur].usta = "unplug" /\ ~ uarts[cur].freed /\ cur \notin At("unplug")
  BY <1>1 DEF UartInv, UartKinds, CurInv, DevsInv, Devs
<1>3. PICK d \in Dev : d = [uarts[cur] EXCEPT !.recv = FALSE, !.plist = "freed", !.freed = TRUE]
  BY <1>2 DEF Dev
<1>4. /\ uarts' \in Seq(Dev) /\ Len(uarts') = Len(uarts) /\ Devs' = Devs
      /\ uarts'[cur] = d /\ \A j \in Devs : j # cur => uarts'[j] = uarts[j]
  <2>1. uarts' = [uarts EXCEPT ![cur] = d]
    BY <1>1, <1>3
  <2> QED
    BY <1>2, <2>1, DevEffect
<1>5. /\ d.usta = "unplug" /\ d.search = uarts[cur].search /\ d.named = uarts[cur].named
      /\ d.id = uarts[cur].id /\ d.offline = uarts[cur].offline /\ d.freed /\ ~ d.recv
      /\ uarts[cur].named
  BY <1>2, <1>3 DEF Dev, DevOf
<1>6. \A l : At(l)' = At(l) /\ Count(l)' = Count(l) /\ LastOf(l)' = LastOf(l)
  BY <1>1, ListsSame
<1>7. Given' = Given /\ IdsInv'
  BY <1>1, <1>4, <1>5, IdsSame DEF UartInv
<1>8. UartKinds' /\ RoomInv'
  <2>1. S!Opening' = S!Opening
    BY <1>1 DEF S!Opening
  <2> QED
    BY <1>1, <1>4, <2>1 DEF UartInv, UartKinds, RoomInv, Pcs
<1>9. HeadsInv' /\ MemberInv' /\ CountInv'
  <2>1. \A j \in Devs : uarts'[j].usta = uarts[j].usta
    BY <1>2, <1>4, <1>5
  <2>2. MemberInv'
    BY <1>4, <1>6, <2>1 DEF UartInv, MemberInv
  <2> QED
    BY <1>1, <1>6, <2>2 DEF UartInv, HeadsInv, CountInv
<1>10. CurInv'
  BY <1>1, <1>2, <1>4, <1>5 DEF CurInv, Starting
<1>11. DevsInv'
  <2>1. ASSUME NEW j \in Devs, j # cur PROVE DevOf(j)'
    <3>1. DevOf(j) /\ uarts'[j] = uarts[j] /\ ~ Fresh(j)
      BY <1>4, <2>1 DEF UartInv, DevsInv, Fresh
    <3> QED
      BY <1>1, <1>6, <2>1, <3>1 DEF DevOf
  <2>2. DevOf(cur)'
    BY <1>1, <1>2, <1>4, <1>5, <1>6 DEF DevOf
  <2> QED
    BY <1>1, <1>4, <2>1, <2>2 DEF DevsInv
<1>12. SaidInv'
  <2>1. \A n, s : Said(n, s)' <=> Said(n, s)
    BY <1>1 DEF Said
  <2>2. \A i \in Given : uarts'[i].id = uarts[i].id /\ (uarts[i].freed => uarts'[i].freed)
    BY <1>4, <1>5 DEF Given
  <2>3. cur \in Given /\ ~ Said(uarts[cur].id, 0)
    BY <1>2, <1>5 DEF UartInv, SaidInv, Given
  <2>4. \A k \in DOMAIN hotplugs : \E i \in Given : hotplugs[k].id = uarts'[i].id
    BY <2>2 DEF UartInv, SaidInv
  <2>5. ASSUME NEW i \in Given
        PROVE  /\ Said(uarts[i].id, 1)
               /\ Said(uarts[i].id, 0) => uarts'[i].freed /\ i # cur
    BY <1>1, <2>2, <2>3 DEF UartInv, SaidInv
  <2> QED
    BY <1>1, <1>7, <2>1, <2>2, <2>4, <2>5 DEF SaidInv
<1>13. TurnInv'
  BY <1>1, TurnSame DEF UartInv
<1> QED
  BY <1>7, <1>8, <1>9, <1>10, <1>11, <1>12, <1>13 DEF UartInv

-----------------------------------------------------------------------------
(* Every step, and the first state.                                        *)
LEMMA UartNextInv == ~ ClockSteps /\ UartInv /\ [S!Next]_uartVars => UartInv'
<1> SUFFICES ASSUME ~ ClockSteps, UartInv, [S!Next]_uartVars PROVE UartInv'
  OBVIOUS
<1>1. CASE S!Turn
  BY <1>1, TurnStill, StillInv
<1>2. CASE S!SerialSetup
  BY <1>2, SetupStill, StillInv
<1>3. CASE S!Poll
  <2>1. CASE S!PollNext \/ S!PollAgain
    BY <2>1, PollStill, StillInv
  <2> QED
    BY <1>3, <2>1, PollPlugInv, SetPlistInv, SetUpInv, PollIdInv, PollTellInv, PollUnplugInv,
       PollKillInv, PollTellGoneInv DEF S!Poll
<1>4. ASSUME NEW a \in S!Adders, S!AddOf(a) PROVE UartInv'
  <2>1. CASE S!AddFind(a) \/ S!AddOpen(a)
    BY <2>1, AddStill, StillInv
  <2>2. CASE S!AddInsert(a)
    BY <2>2, AddInsertInv
  <2> QED
    BY <1>4, <2>1, <2>2 DEF S!AddOf
<1>5. ASSUME NEW i \in 1 .. Len(uarts), S!Search(i) \/ S!EvLoop(i) PROVE UartInv'
  BY <1>5, SearchInv, EvLoopInv DEF Devs
<1>6. CASE UNCHANGED uartVars
  <2>1. Still
    <3>1. S!Opening' = S!Opening
      BY <1>6 DEF uartVars, S!Opening
    <3> QED
      BY <1>6, <3>1 DEF uartVars, Still, UartInv, UartKinds, RoomInv
  <2> QED
    BY <2>1, StillInv
<1> QED
  BY <1>1, <1>2, <1>3, <1>4, <1>5, <1>6 DEF S!Next

LEMMA UartInitInv == S!Init => UartInv
<1> SUFFICES ASSUME S!Init PROVE UartInv
  OBVIOUS
<1>1. /\ line \in [Names -> S!Lines] /\ turns = 0 /\ uarts = <<>>
      /\ head = [l \in S!Lists |-> <<>>] /\ working_cnt = 0 /\ hotplug = "add" /\ cur = 0
      /\ nxtid = 0 /\ hotplugs = <<>> /\ overtaken = {}
  BY DEF S!Init
<1>2. Devs = {} /\ Given = {}
  <2>1. Devs = {}
    BY <1>1 DEF Devs
  <2> QED
    BY <2>1 DEF Given
<1>3. \A l \in S!Lists : head[l] = <<>> /\ At(l) = {} /\ Count(l) = 0
  BY <1>1, NoneFacts DEF At, Count
<1>4. PICK n \in Names : adder = [poll |-> [pc |-> "find", name |-> n],
                                  client |-> [pc |-> "idle", name |-> n]]
  BY DEF S!Init
<1>5. adder \in [S!Adders -> Adding] /\ S!Opening = {}
  <2>1. DOMAIN adder = S!Adders
    BY <1>4, ListNames
  <2>2. adder["poll"] \in Adding /\ adder["client"] \in Adding
        /\ adder["poll"].pc = "find" /\ adder["client"].pc = "idle"
    BY <1>4 DEF Adding
  <2>3. S!Opening = {}
    BY <2>2, ListNames DEF S!Opening
  <2>4. \A a \in S!Adders : adder[a] \in Adding
    BY <2>2, ListNames
  <2>5. adder = [a \in S!Adders |-> adder[a]]
    BY <1>4, ListNames
  <2> QED
    BY <2>3, <2>4, <2>5
<1>6. UartKinds
  BY <1>1, <1>5, UartBounds DEF UartKinds, Pcs
<1>7. RoomInv
  BY <1>1, <1>5, FS_EmptySet, UartBounds DEF RoomInv
<1>8. IdsInv
  BY <1>1, <1>2, FS_EmptySet DEF IdsInv
<1>9. HeadsInv
  BY <1>1, <1>3, NoneFacts DEF HeadsInv
<1>10. MemberInv /\ CountInv
  BY <1>1, <1>3, ListNames DEF MemberInv, CountInv
<1>11. CurInv
  BY <1>1 DEF CurInv, Starting
<1>12. DevsInv /\ SaidInv /\ TurnInv
  BY <1>1, <1>2 DEF DevsInv, SaidInv, TurnInv
<1> QED
  BY <1>6, <1>7, <1>8, <1>9, <1>10, <1>11, <1>12 DEF UartInv

-----------------------------------------------------------------------------
(* What the invariant says of a working device's id.                       *)

\* The first device of the work list with the id of one that was announced
\* is that one: only the device being started, the last of the list, may
\* have the same id, before it is given one.
LEMMA LookupFinds ==
  ASSUME UartInv, NEW i \in Devs, uarts[i].named, i \in At("work")
  PROVE  S!Lookup(uarts[i].id) = i
<1> DEFINE q == head["work"]
           at == {k \in DOMAIN q : uarts[q[k]].id = uarts[i].id}
<1>1. q \in Seq(Nat) /\ S!IsInjective(q) /\ DOMAIN q = 1 .. Len(q) /\ Len(q) \in Nat
  BY ListNames DEF UartInv, HeadsInv
<1>2. \A k \in DOMAIN q : q[k] \in At("work") /\ q[k] \in Devs /\ uarts[q[k]].usta = "work"
  BY ListNames DEF UartInv, MemberInv, At, S!ToSet
<1>3. PICK p \in DOMAIN q : q[p] = i
  BY DEF At, S!ToSet
<1>4. ASSUME NEW k \in at PROVE k = p \/ k = Len(q)
  <2>1. CASE uarts[q[k]].named
    <3>1. q[k] = i
      BY <1>2, <1>4, <2>1 DEF UartInv, IdsInv, Given
    <3> QED
      BY <1>1, <1>3, <1>4, <3>1 DEF S!IsInjective
  <2>2. CASE ~ uarts[q[k]].named
    <3>1. DevOf(q[k]) /\ uarts[q[k]].usta = "work"
      BY <1>2, <1>4 DEF UartInv, DevsInv
    <3>2. Fresh(q[k])
      BY <2>2, <3>1 DEF DevOf
    <3>3. q[k] = q[Len(q)] /\ Len(q) > 0
      BY <3>2 DEF Fresh, UartInv, CurInv, LastOf, Count
    <3>4. Len(q) \in DOMAIN q
      BY <1>1, <3>3
    <3> QED
      BY <1>1, <1>4, <3>3, <3>4 DEF S!IsInjective
  <2> QED
    BY <2>1, <2>2
<1>5. p \in at /\ \A k \in at : k >= p
  BY <1>1, <1>3, <1>4
<1>6. S!Min(at) = p
  <2>1. at \subseteq Int
    BY <1>1
  <2> HIDE DEF at
  <2>2. \A m \in at : (\A k \in at : k >= m) => m = p
    BY <1>5, <2>1
  <2>3. S!Min(at) = CHOOSE m \in at : \A k \in at : m <= k
    BY DEF S!Min
  <2> QED
    BY <1>5, <2>1, <2>2, <2>3
<1>7. S!Lookup(uarts[i].id) = q[S!Min(at)]
  BY <1>5 DEF S!Lookup
<1> QED
  BY <1>3, <1>6, <1>7

LEMMA UartInvSafe == UartInv => UartSafe
<1> SUFFICES ASSUME UartInv PROVE UartSafe
  OBVIOUS
<1>1. S!TypeOK
  <2>1. Len(uarts) \in Nat /\ \A i \in 1 .. Len(uarts) : uarts[i] \in Dev
    BY DEF UartInv, UartKinds
  <2>2. Len(uarts) <= MaxAdds
    <3>1. S!Opening \in SUBSET S!Adders
      BY DEF S!Opening
    <3>2. Cardinality(S!Opening) \in Nat
      BY <3>1, OpeningFacts, ListNames
    <3> QED
      BY <2>1, <3>2, UartBounds DEF UartInv, RoomInv
  <2>3. nxtid <= Len(uarts)
    <3>1. Cardinality(Devs) = Len(uarts) /\ IsFiniteSet(Devs)
      BY <2>1, FS_Interval DEF Devs
    <3>2. Given \subseteq Devs
      BY DEF Given
    <3>3. Cardinality(Given) <= Cardinality(Devs)
      BY <3>1, <3>2, FS_Subset
    <3> QED
      BY <3>1, <3>3 DEF UartInv, IdsInv
  <2>4. nxtid \in 0 .. MaxAdds
    BY <2>1, <2>2, <2>3, UartBounds DEF UartInv, UartKinds
  <2> QED
    BY <2>1, <2>2, <2>4 DEF UartInv, UartKinds, Pcs, Dev, S!TypeOK
<1>2. ASSUME NEW i \in 1 .. Len(uarts)
      PROVE  /\ S!Cardinality(S!In(i)) <= 1
             /\ \A l \in S!In(i) : uarts[i].usta = l
             /\ uarts[i].freed => S!In(i) = {} /\ ~ uarts[i].recv
             /\ "work" \in S!In(i) /\ uarts[i].named =>
                  /\ uarts[i].plist = "ready" /\ uarts[i].recv
                  /\ S!Lookup(uarts[i].id) = i
             /\ S!In(i) = {} => i \in overtaken \/ uarts[i].freed \/ (i = cur /\ hotplug = "kill")
  <2>1. i \in Devs /\ DevOf(i) /\ uarts[i] \in Dev
    BY DEF UartInv, UartKinds, DevsInv, Devs
  <2>2. \A l : l \in S!In(i) <=> l \in S!Lists /\ i \in At(l)
    BY DEF S!In, At
  <2>3. \A l \in S!In(i) : uarts[i].usta = l
    BY <2>2 DEF UartInv, MemberInv
  <2>4. S!Cardinality(S!In(i)) <= 1
    <3>1. CASE S!In(i) = {}
      BY <3>1, CardSame, FS_EmptySet
    <3>2. CASE S!In(i) # {}
      <4>1. S!In(i) = {uarts[i].usta}
        BY <2>3, <3>2
      <4>2. Cardinality({uarts[i].usta}) = 1
        BY FS_Singleton
      <4> QED
        BY <4>1, <4>2, CardSame
    <3> QED
      BY <3>1, <3>2
  <2>5. uarts[i].freed => S!In(i) = {} /\ ~ uarts[i].recv
    <3> SUFFICES ASSUME uarts[i].freed PROVE S!In(i) = {} /\ ~ uarts[i].recv
      OBVIOUS
    <3>1. uarts[i].usta = "unplug"
      BY <2>1, ListNames DEF DevOf, Dev
    <3>2. i \notin At("unplug") /\ ~ uarts[i].recv
      BY <2>1, <3>1 DEF DevOf
    <3> QED
      BY <2>2, <2>3, <3>1, <3>2
  <2>6. "work" \in S!In(i) /\ uarts[i].named =>
          uarts[i].plist = "ready" /\ uarts[i].recv /\ S!Lookup(uarts[i].id) = i
    <3> SUFFICES ASSUME "work" \in S!In(i), uarts[i].named
                 PROVE  uarts[i].plist = "ready" /\ uarts[i].recv /\ S!Lookup(uarts[i].id) = i
      OBVIOUS
    <3>1. uarts[i].usta = "work" /\ i \in At("work")
      BY <2>2, <2>3
    <3>2. ~ Fresh(i)
      BY DEF Fresh, UartInv, CurInv
    <3> QED
      BY <2>1, <3>1, <3>2, LookupFinds DEF DevOf
  <2>7. S!In(i) = {} => i \in overtaken \/ uarts[i].freed \/ (i = cur /\ hotplug = "kill")
    <3> SUFFICES ASSUME S!In(i) = {}
                 PROVE  i \in overtaken \/ uarts[i].freed \/ (i = cur /\ hotplug = "kill")
      OBVIOUS
    <3>1. \A l \in S!Lists : i \notin At(l)
      BY <2>2
    <3> QED
      BY <2>1, <3>1, ListNames DEF DevOf, Dev
  <2> QED
    BY <2>3, <2>4, <2>5, <2>6, <2>7
<1>3. working_cnt = Len(head["work"]) + Len(head["unplug"])
  BY DEF UartInv, CountInv, Count
<1>4. hotplugs \in Seq([id : Nat, status : {0, 1}]) /\ DOMAIN hotplugs = 1 .. Len(hotplugs)
  BY DEF UartInv, UartKinds
<1>5. /\ \A j, k \in 1 .. Len(hotplugs) :
           j < k /\ hotplugs[j].id = hotplugs[k].id =>
             hotplugs[j].status = 1 /\ hotplugs[k].status = 0
  BY <1>4 DEF UartInv, TurnInv
<1>6. ASSUME NEW j \in 1 .. Len(hotplugs), hotplugs[j].status = 0
      PROVE  \E k \in 1 .. j - 1 : hotplugs[k].id = hotplugs[j].id
  <2>1. PICK k \in DOMAIN hotplugs : k < j /\ hotplugs[k].id = hotplugs[j].id
    BY <1>4, <1>6 DEF UartInv, TurnInv
  <2>2. k \in 1 .. j - 1
    BY <1>4, <2>1
  <2> QED
    BY <2>1, <2>2
<1> QED
  BY <1>1, <1>2, <1>3, <1>5, <1>6 DEF UartSafe, S!UartSafe

(* UartSafe of module UartDev, when CLOCK_REALTIME does not jump while the *)
(* poll thread starts a device: a device is in at most one list, in the    *)
(* one its usta names, and in none and without a thread when it was freed; *)
(* the count that getsz returns never hides a working device; a device     *)
(* that was announced and is at work has its device list and is the one    *)
(* its id finds; and every id is announced and withdrawn once, in this     *)
(* order.                                                                  *)
THEOREM SerialSafe ==
  ASSUME ~ ClockSteps
  PROVE  PartsSpec => []UartSafe
<1>1. PartsInit => UartInv
  BY UartInitInv DEF PartsInit
<1>2. UartInv /\ [PartsNext]_allVars => UartInv'
  <2>1. [PartsNext]_allVars => [S!Next]_uartVars
    BY DEF PartsNext, allVars
  <2> QED
    BY <2>1, UartNextInv
<1>3. UartInv => UartSafe
  BY UartInvSafe
<1> QED
  BY <1>1, <1>2, <1>3, PTL DEF PartsSpec
=============================================================================
