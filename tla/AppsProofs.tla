----------------------------- MODULE AppsProofs -----------------------------
(***************************************************************************)
(* The programs on top of the client library.  The connection of the       *)
(* tunnel, for every number of connections, failures and comings and       *)
(* goings of the device; and the firmware upgrade, for every image, every  *)
(* size, number of threads, faults and runs.                               *)
(***************************************************************************)
EXTENDS MCApps, SequenceTheorems, FiniteSetTheorems, WellFoundedInduction, TLAPS

-----------------------------------------------------------------------------
(* The inductive invariant.                                                *)

\* The newest connection, and one that was given back.
Top == New - 1
Closed == [dev |-> "closed", sock |-> "closed"]

Connection == [dev : {"none", "open", "closed"}, sock : {"none", "open", "dead", "closed"}]
Fds == {-1} \cup Nat
Making == {"socket", "again", "force", "giveup"}

\* The writer holds the mutex while it is not at the TAP device.
KindsInv ==
  /\ conn \in [1 .. MaxConns -> Connection] /\ misused = FALSE
  /\ w \in [pc : {"tap", "load", "write", "failed"}, fd : Fds]
  /\ r \in [pc : {"load", "read", "close", "find", "pdev", "fd"} \cup Making, fd : Fds]
  /\ bb_socket_mutex = IF w.pc = "tap" THEN "free" ELSE "w"

\* Numbers are given in order, and only the newest is not given back.
ConnInv ==
  /\ Top \in 1 .. MaxConns /\ Used = 1 .. Top
  /\ \A n \in 1 .. Top - 1 : conn[n] = Closed

\* What bb_tun_cfg and the newest connection are at each place of the reader.
UsingInv ==
  r.pc \in {"load", "read", "close"} =>
    /\ pdev = Top /\ bb_fd \in {-1, Top}
    /\ conn[Top].dev = "open" /\ conn[Top].sock \in {"open", "dead", "closed"}
    /\ bb_fd = Top => conn[Top].sock # "closed"
    /\ r.pc = "read" => r.fd = Top
    /\ r.pc = "close" => r.fd = Top \/ (r.fd = -1 /\ bb_fd = -1)

MakingInv ==
  /\ r.pc = "find" => pdev = 0 /\ bb_fd = -1 /\ conn[Top] = Closed
  /\ r.pc \in Making =>
       pdev = 0 /\ bb_fd = -1 /\ r.fd = Top /\ conn[Top] = [dev |-> "open", sock |-> "none"]
  /\ r.pc \in {"pdev", "fd"} =>
       /\ pdev = IF r.pc = "fd" THEN Top ELSE 0
       /\ bb_fd = -1 /\ r.fd = Top
       /\ conn[Top].dev = "open" /\ conn[Top].sock \in {"open", "dead"}

\* The reader cannot take a descriptor from under the writer.
WriterInv == w.pc \in {"write", "failed"} => w.fd = bb_fd /\ w.fd = Top

IInv == KindsInv /\ ConnInv /\ UsingInv /\ MakingInv /\ WriterInv

-----------------------------------------------------------------------------
(* Numbers of connections.                                                 *)

(* The numbers in use are counted by the newest one.                       *)
LEMMA CountUsed == ASSUME NEW k \in Nat PROVE Cardinality(1 .. k) = k
<1>1. Cardinality(1 .. k) = IF 1 > k THEN 0 ELSE k - 1 + 1
  BY FS_Interval
<1> QED
  BY <1>1

(* The numbers before the newest one.                                      *)
LEMMA Earlier ==
  ASSUME NEW m \in Nat, NEW top \in 1 .. m, NEW n \in 1 .. top - 1
  PROVE  n \in 1 .. m /\ n # top
<1> QED
  OBVIOUS

(* What keeps the numbers in use keeps the newest one.                     *)
LEMMA SameTop == Used' = Used => Top' = Top
<1> QED
  BY DEF Top, New

(* The newest connection is one of those there can be.                     *)
LEMMA TopFacts ==
  ASSUME IInv
  PROVE  /\ Top \in Nat /\ Top > 0 /\ Top \in 1 .. MaxConns /\ Top \in DOMAIN conn
         /\ conn[Top] \in Connection /\ Top # -1 /\ Top # 0 /\ New = Top + 1
         /\ DOMAIN conn = 1 .. MaxConns /\ Top \in Used
<1>1. Top \in 1 .. MaxConns /\ Used = 1 .. Top
  BY DEF IInv, ConnInv
<1>2. New \in Int
  <2>1. Cardinality(1 .. Top) = Top
    BY <1>1, CountUsed
  <2> QED
    BY <1>1, <2>1 DEF New
<1> QED
  BY <1>1, <1>2, ConnsAssumption DEF IInv, KindsInv, Top

(* A change of the newest connection that keeps its handle known keeps the *)
(* numbers in use, and the others given back.                              *)
LEMMA TopChange ==
  ASSUME IInv, NEW c \in Connection, c.dev # "none", conn' = [conn EXCEPT ![Top] = c]
  PROVE  /\ Top' = Top /\ ConnInv' /\ conn'[Top'] = c
         /\ conn' \in [1 .. MaxConns -> Connection]
<1>1. Used' = Used
  BY TopFacts DEF Used, IInv, KindsInv
<1>2. Top' = Top
  BY <1>1, SameTop
<1>3. conn'[Top] = c /\ conn' \in [1 .. MaxConns -> Connection]
  BY TopFacts DEF IInv, KindsInv
<1>4. ASSUME NEW n \in 1 .. Top - 1 PROVE conn'[n] = Closed
  <2>1. n # Top /\ n \in 1 .. MaxConns
    BY TopFacts, Earlier, ConnsAssumption
  <2>2. conn[n] = Closed
    BY DEF IInv, ConnInv
  <2> QED
    BY <2>1, <2>2 DEF IInv, KindsInv
<1> QED
  BY <1>1, <1>2, <1>3, <1>4 DEF IInv, ConnInv

(* No change.                                                              *)
LEMMA NoChange ==
  ASSUME IInv, conn' = conn
  PROVE  Top' = Top /\ ConnInv' /\ conn'[Top'] = conn[Top]
<1>1. Used' = Used /\ Top' = Top
  BY SameTop DEF Used
<1> QED
  BY <1>1 DEF IInv, ConnInv

-----------------------------------------------------------------------------
(* The invariant is inductive.                                             *)

LEMMA InitIInv == Init => IInv
<1> SUFFICES ASSUME Init PROVE IInv
  OBVIOUS
<1>1. Used = 1 .. 1
  BY ConnsAssumption DEF Init, Used
<1>2. Top = 1
  <2>1. Cardinality(1 .. 1) = 1
    BY CountUsed
  <2> QED
    BY <1>1, <2>1 DEF Top, New
<1> QED
  BY <1>1, <1>2, ConnsAssumption
  DEF Init, IInv, KindsInv, ConnInv, UsingInv, MakingInv, WriterInv, Connection, Fds, Making

(* The device comes or goes.                                               *)
LEMMA TurnIInv == IInv /\ Turn => IInv'
<1> SUFFICES ASSUME IInv, Turn PROVE IInv'
  OBVIOUS
<1>1. /\ conn' \in [1 .. MaxConns -> Connection]
      /\ \A n \in 1 .. MaxConns : 
           conn'[n] = IF conn[n].sock = "open" THEN [conn[n] EXCEPT !.sock = "dead"] ELSE conn[n]
  BY DEF IInv, KindsInv, Turn, Connection
<1>2. \A n \in 1 .. MaxConns : conn'[n].dev = conn[n].dev
  BY <1>1 DEF IInv, KindsInv, Connection
<1>3. Used' = Used /\ Top' = Top
  BY <1>2, SameTop DEF Used
<1>4. ConnInv'
  <2>1. ASSUME NEW n \in 1 .. Top - 1 PROVE conn'[n] = Closed
    <3>1. n \in 1 .. MaxConns
      BY TopFacts, Earlier, ConnsAssumption
    <3>2. conn[n] = Closed
      BY DEF IInv, ConnInv
    <3> QED
      BY <1>1, <3>1, <3>2 DEF Closed
  <2> QED
    BY <1>3, <2>1 DEF IInv, ConnInv
<1>5. KindsInv' /\ WriterInv'
  BY <1>1, <1>3 DEF IInv, KindsInv, WriterInv, Turn
<1>6. /\ conn'[Top'].dev = conn[Top].dev
      /\ conn'[Top'].sock = IF conn[Top].sock = "open" THEN "dead" ELSE conn[Top].sock
      /\ conn[Top].sock # "open" => conn'[Top'] = conn[Top]
  BY <1>1, <1>2, <1>3, TopFacts DEF Connection
<1>7. UsingInv'
  BY <1>3, <1>6 DEF IInv, UsingInv, Turn
<1>8. MakingInv'
  BY <1>3, <1>6 DEF IInv, MakingInv, Turn, Closed, Making
<1> QED
  BY <1>4, <1>5, <1>7, <1>8 DEF IInv

(* The writer: what it loaded under the mutex is the open connection, and  *)
(* is still when the write failed.                                         *)
LEMMA WriterIInv == IInv /\ Writer => IInv'
<1> SUFFICES ASSUME IInv, Writer PROVE IInv'
  OBVIOUS
<1> USE TopFacts
<1>1. CASE WTake
  BY <1>1, NoChange DEF WTake, W, IInv, KindsInv, UsingInv, MakingInv, WriterInv
<1>2. CASE WLoad
  <2>1. bb_fd = -1 \/ (bb_fd = Top /\ r.pc \in {"load", "read", "close"})
    BY DEF IInv, KindsInv, UsingInv, MakingInv
  <2>2. Top' = Top /\ ConnInv' /\ conn'[Top'] = conn[Top] /\ bb_fd \in Fds
    BY <1>2, <2>1, NoChange DEF WLoad, Fds
  <2>3. IF bb_fd = -1 THEN bb_fd < 0 ELSE ~ bb_fd < 0
    BY <2>1
  <2> QED
    BY <1>2, <2>1, <2>2, <2>3 DEF WLoad, IInv, KindsInv, UsingInv, MakingInv, WriterInv, Making
<1>3. CASE WWrite
  <2>1. w.fd = Top /\ bb_fd = Top
    BY <1>3 DEF WWrite, IInv, WriterInv
  <2>2. conn[Top].dev = "open" /\ conn[Top].sock # "closed"
    BY <2>1 DEF IInv, KindsInv, UsingInv, MakingInv
  <2>3. PICK ok \in BOOLEAN :
          /\ W("write", IF ok THEN "tap" ELSE "failed")
          /\ bb_socket_mutex' = IF ok THEN "free" ELSE "w"
          /\ misused' = (misused \/ conn[w.fd].sock = "closed" \/ conn[w.fd].dev = "closed")
          /\ UNCHANGED <<present, turns, conn, bb_fd, pdev, r>>
    BY <1>3 DEF WWrite
  <2>4. misused' = FALSE
    BY <2>1, <2>2, <2>3 DEF IInv, KindsInv
  <2> QED
    BY <2>1, <2>3, <2>4, NoChange DEF W, IInv, KindsInv, UsingInv, MakingInv, WriterInv, Fds
<1>4. CASE WFailed
  <2>1. w.fd = Top /\ bb_fd = Top /\ r.pc \in {"load", "read", "close"}
    BY <1>4 DEF WFailed, W, IInv, KindsInv, UsingInv, MakingInv, WriterInv
  <2> DEFINE c == [conn[Top] EXCEPT !.sock = "closed"]
  <2>2. conn' = [conn EXCEPT ![Top] = c] /\ bb_fd' = -1
    BY <1>4, <2>1 DEF WFailed, Drop, CloseSocket
  <2>3. c \in Connection /\ c.dev = "open" /\ c.sock = "closed"
    BY <2>1 DEF Connection, IInv, UsingInv
  <2>4. Top' = Top /\ ConnInv' /\ conn'[Top'] = c /\ conn' \in [1 .. MaxConns -> Connection]
    BY <2>2, <2>3, TopChange
  <2> QED
    BY <1>4, <2>1, <2>2, <2>3, <2>4
    DEF WFailed, W, IInv, KindsInv, UsingInv, MakingInv, WriterInv, Making
<1> QED
  BY <1>1, <1>2, <1>3, <1>4 DEF Writer

(* The reader, while the connection stays what it is.                      *)
LEMMA ReadingIInv == IInv /\ (RLoad \/ RData \/ RFailed \/ RForce \/ RPdev \/ RStore) => IInv'
<1> SUFFICES ASSUME IInv, RLoad \/ RData \/ RFailed \/ RForce \/ RPdev \/ RStore PROVE IInv'
  OBVIOUS
<1>1. conn' = conn /\ Top' = Top /\ ConnInv' /\ conn'[Top'] = conn[Top]
  BY NoChange DEF RLoad, RData, RFailed, RForce, RPdev, RStore
<1> USE TopFacts
<1>2. KindsInv'
  <2>1. bb_fd \in Fds
    BY DEF IInv, KindsInv, UsingInv, MakingInv, Making, Fds
  <2> QED
    BY <1>1, <2>1
    DEF RLoad, RData, RFailed, RForce, RPdev, RStore, IInv, KindsInv, Making
<1>3. CASE RLoad \/ RData \/ RFailed
  BY <1>1, <1>2, <1>3 DEF RLoad, RData, RFailed, IInv, UsingInv, MakingInv, WriterInv, Making, KindsInv, Fds
<1>4. CASE RForce
  BY <1>1, <1>2, <1>4 DEF RForce, IInv, UsingInv, MakingInv, WriterInv, Making, KindsInv
<1>5. CASE RPdev
  BY <1>1, <1>2, <1>5 DEF RPdev, IInv, UsingInv, MakingInv, WriterInv, Making, KindsInv
<1>6. CASE RStore
  BY <1>1, <1>2, <1>6 DEF RStore, IInv, UsingInv, MakingInv, WriterInv, Making, KindsInv
<1> QED
  BY <1>3, <1>4, <1>5, <1>6

(* The reader gives the connection back, once, with its handle.            *)
LEMMA CloseIInv == IInv /\ RClose => IInv'
<1> SUFFICES ASSUME IInv, RClose PROVE IInv'
  OBVIOUS
<1> DEFINE n == IF bb_fd >= 0 THEN bb_fd ELSE r.fd
<1> USE TopFacts
<1>1. /\ pdev = Top /\ pdev # 0 /\ conn[Top].dev = "open" /\ n \in {-1, Top}
      /\ w.pc = "tap"
  BY DEF RClose, IInv, KindsInv, UsingInv
<1>2. conn' = [conn EXCEPT ![Top] = Closed] /\ pdev' = 0
  <2>1. Release(IF n >= 0 THEN CloseSocket(n) ELSE conn)
    BY DEF RClose
  <2>2. CASE n = Top
    <3>1. [CloseSocket(Top) EXCEPT ![Top] = Closed] = [conn EXCEPT ![Top] = Closed]
      BY DEF CloseSocket, IInv, KindsInv
    <3> QED
      BY <1>1, <2>1, <2>2, <3>1 DEF Release, Closed
  <2>3. CASE n = -1
    BY <1>1, <2>1, <2>3 DEF Release, Closed
  <2> QED
    BY <1>1, <2>2, <2>3
<1>3. Closed \in Connection /\ Closed.dev # "none"
  BY DEF Closed, Connection
<1>4. Top' = Top /\ ConnInv' /\ conn'[Top'] = Closed /\ conn' \in [1 .. MaxConns -> Connection]
  BY <1>2, <1>3, TopChange
<1>5. misused' = FALSE
  BY <1>1 DEF RClose, IInv, KindsInv
<1> QED
  BY <1>1, <1>2, <1>4, <1>5 DEF RClose, IInv, KindsInv, UsingInv, MakingInv, WriterInv, Making

(* A new connection has the next number.                                   *)
LEMMA OpenIInv == IInv /\ ROpen => IInv'
<1> SUFFICES ASSUME IInv, ROpen PROVE IInv'
  OBVIOUS
<1> DEFINE c == [dev |-> "open", sock |-> "none"]
<1>1. /\ New = Top + 1 /\ New \in 1 .. MaxConns /\ Top \in Nat /\ Top > 0
      /\ conn[Top] = Closed /\ pdev = 0 /\ bb_fd = -1
  BY TopFacts DEF ROpen, IInv, MakingInv
<1>2. conn' = [conn EXCEPT ![New] = c] /\ r' = [pc |-> "socket", fd |-> New]
      /\ UNCHANGED <<env, bb_fd, pdev, bb_socket_mutex, w, misused>>
  BY DEF ROpen
<1>3. c \in Connection /\ c.dev # "none"
  BY DEF Connection
<1>4. /\ conn' \in [1 .. MaxConns -> Connection] /\ conn'[New] = c
      /\ \A k \in 1 .. MaxConns : k # New => conn'[k] = conn[k]
  BY <1>1, <1>2, <1>3 DEF IInv, KindsInv
<1>5. Used' = 1 .. New
  <2>1. Used = 1 .. Top
    BY DEF IInv, ConnInv
  <2>2. ASSUME NEW k \in 1 .. MaxConns PROVE conn'[k].dev # "none" <=> k \in 1 .. New
    <3>1. conn[k].dev # "none" <=> k \in 1 .. Top
      BY <2>1 DEF Used
    <3> QED
      BY <1>1, <1>3, <1>4, <3>1
  <2>3. \A k \in 1 .. New : k \in 1 .. MaxConns
    BY <1>1, ConnsAssumption
  <2>4. \A k : k \in Used' <=> k \in 1 .. New
    BY <2>2, <2>3 DEF Used
  <2> QED
    BY <2>4
<1>6. Top' = New
  <2>1. Cardinality(1 .. New) = New
    BY <1>1, CountUsed
  <2> QED
    BY <1>1, <1>5, <2>1 DEF Top, New
<1>7. ConnInv'
  <2>1. ASSUME NEW k \in 1 .. New - 1 PROVE conn'[k] = Closed
    <3>1. k \in 1 .. MaxConns /\ k # New
      BY <1>1, Earlier, ConnsAssumption
    <3>2. k = Top \/ k \in 1 .. Top - 1
      BY <1>1
    <3>3. conn[k] = Closed
      BY <1>1, <3>2 DEF IInv, ConnInv
    <3> QED
      BY <1>4, <3>1, <3>3
  <2> QED
    BY <1>1, <1>5, <1>6, <2>1 DEF ConnInv
<1> QED
  BY <1>1, <1>2, <1>4, <1>6, <1>7
  DEF IInv, KindsInv, UsingInv, MakingInv, WriterInv, Making, Fds

(* The socket of a new connection, and giving up.                          *)
LEMMA SocketIInv == IInv /\ (RSocket \/ RGiveUp) => IInv'
<1> SUFFICES ASSUME IInv, RSocket \/ RGiveUp PROVE IInv'
  OBVIOUS
<1>1. /\ r.pc \in Making /\ r.fd = Top /\ pdev = 0 /\ bb_fd = -1
      /\ conn[Top] = [dev |-> "open", sock |-> "none"]
  BY DEF RSocket, RGiveUp, IInv, MakingInv, Making
<1>2. CASE /\ RSocket /\ conn' = conn
           /\ r' = [r EXCEPT !.pc = IF r.pc = "socket" THEN "force" ELSE "giveup"]
  <2>1. Top' = Top /\ ConnInv' /\ conn'[Top'] = conn[Top]
    BY <1>2, NoChange
  <2>2. r'.pc \in Making /\ r'.fd = Top
    BY <1>1, <1>2 DEF IInv, KindsInv, Making
  <2> QED
    BY <1>1, <1>2, <2>1, <2>2
    DEF RSocket, IInv, KindsInv, UsingInv, MakingInv, WriterInv, Making
<1>3. CASE /\ RSocket /\ conn' = [conn EXCEPT ![r.fd].sock = "open"]
           /\ r' = [r EXCEPT !.pc = "pdev"]
  <2> DEFINE c == [dev |-> "open", sock |-> "open"]
  <2>1. conn' = [conn EXCEPT ![Top] = c] /\ r' = [r EXCEPT !.pc = "pdev"]
    <3>1. [conn[Top] EXCEPT !.sock = "open"] = c
      BY <1>1
    <3> QED
      BY <1>1, <1>3, <3>1
  <2>2. c \in Connection /\ c.dev # "none"
    BY DEF Connection
  <2>3. Top' = Top /\ ConnInv' /\ conn'[Top'] = c /\ conn' \in [1 .. MaxConns -> Connection]
    BY <2>1, <2>2, TopChange
  <2> QED
    BY <1>1, <1>3, <2>1, <2>3, TopFacts
    DEF RSocket, IInv, KindsInv, UsingInv, MakingInv, WriterInv, Making
<1>4. CASE RGiveUp
  <2>1. conn' = [conn EXCEPT ![Top] = Closed]
    BY <1>1, <1>4 DEF RGiveUp, Closed
  <2>2. Closed \in Connection /\ Closed.dev # "none"
    BY DEF Connection, Closed
  <2>3. Top' = Top /\ ConnInv' /\ conn'[Top'] = Closed /\ conn' \in [1 .. MaxConns -> Connection]
    BY <2>1, <2>2, TopChange
  <2> QED
    BY <1>1, <1>4, <2>3, TopFacts
    DEF RGiveUp, IInv, KindsInv, UsingInv, MakingInv, WriterInv, Making
<1> QED
  BY <1>2, <1>3, <1>4 DEF RSocket

LEMMA NextIInv == IInv /\ [Next]_vars => IInv'
<1> SUFFICES ASSUME IInv, [Next]_vars PROVE IInv'
  OBVIOUS
<1>1. CASE UNCHANGED vars
  <2>1. Used' = Used /\ New' = New /\ Top' = Top
    BY <1>1 DEF vars, Used, New, Top
  <2> QED
    BY <1>1, <2>1 DEF vars, IInv, KindsInv, ConnInv, UsingInv, MakingInv, WriterInv
<1> QED
  BY <1>1, TurnIInv, WriterIInv, ReadingIInv, CloseIInv, OpenIInv, SocketIInv
  DEF Next, Reader, RNotFound

-----------------------------------------------------------------------------
(* tun_2_bb_thread and bb_2_tun_thread: whichever of them notices that the *)
(* connection failed, no closed socket is written to and no handle is      *)
(* closed twice; there is one connection at a time, the newest, and all    *)
(* that came before it were given back.                                    *)
THEOREM Tunnel == Spec => []TunnelSafe
<1>1. IInv => TunnelSafe
  <2> SUFFICES ASSUME IInv PROVE TunnelSafe
    OBVIOUS
  <2>1. bb_fd \in {-1, Top} /\ pdev \in {0, Top}
    BY DEF IInv, KindsInv, UsingInv, MakingInv
  <2>2. TypeOK
    BY <2>1, TopFacts DEF TypeOK, IInv, KindsInv, Making
  <2>3. ASSUME NEW n \in Used, n + 1 \in Used PROVE conn[n] = Closed
    BY <2>3, TopFacts DEF IInv, ConnInv
  <2>4. bb_fd >= 0 => /\ pdev = bb_fd /\ conn[bb_fd].dev = "open" /\ conn[bb_fd].sock # "closed"
    BY <2>1, TopFacts DEF IInv, KindsInv, UsingInv, MakingInv
  <2>5. r.pc \in {"read", "close"} => bb_fd \in {-1, r.fd}
    BY TopFacts DEF IInv, UsingInv
  <2> QED
    BY <2>2, <2>3, <2>4, <2>5 DEF TunnelSafe, Closed, IInv, KindsInv
<1> QED
  BY <1>1, InitIInv, NextIInv, PTL DEF Spec


-----------------------------------------------------------------------------
(* The upgrade: the inductive invariant.                                   *)

Names == {"gpt0", "gpt1", "app0", "app1"}

\* What may be written: the rom code, a partition table, and an application
\* that is to be upgraded and fits its segment.
Fits(p) == p \in U!Areas /\ (U!IsApp(p) => ~ (U!Skipped(p) \/ U!Unusable(p)))
Complete(p) == flash[p] = 1 .. U!Length(p)
Kept(p) == U!IsApp(p) /\ U!Skipped(p)
Ready(p) == Kept(p) \/ (Fits(p) /\ Complete(p))

Place == [pc : {"none", "check", "write", "load", "store", "end"}, at : Nat, i : Nat, tries : Nat,
          seen : Nat]
UpKinds ==
  /\ img \in Images /\ running \in {0, 1} /\ runs \in Nat /\ guessed \in BOOLEAN /\ faults \in Nat
  /\ pc \in {"verify", "connect", "runsys", "next", "body", "wait", "done", "failed"}
  /\ left_len \in Nat /\ g_written_size \in Nat /\ g_err \in BOOLEAN
  /\ th \in [U!Threads -> Place]

\* Only an image that was verified is written, each area in its bounds.
Bounded ==
  /\ flash \in [U!Areas -> SUBSET Nat]
  /\ \A p \in U!Areas : flash[p] # {} => U!Verified /\ Fits(p) /\ flash[p] \subseteq 1 .. U!Length(p)
FlashInv == Bounded /\ (pc \notin {"verify", "failed"} => U!Verified)

\* The partitions before those left are ready; the system that runs, unless
\* it was guessed, comes last.
Left(s) ==
  LET a == U!gpt[2 - s] b == U!app[2 - s] c == U!gpt[s + 1] d == U!app[s + 1] IN
  \/ todo = <<a, b, c, d>>
  \/ todo = <<b, c, d>> /\ Ready(a)
  \/ todo = <<c, d>> /\ Ready(a) /\ Ready(b)
  \/ todo = <<d>> /\ Ready(a) /\ Ready(b) /\ Ready(c)
  \/ todo = <<>> /\ Ready(a) /\ Ready(b) /\ Ready(c) /\ Ready(d)
TodoInv ==
  /\ pc \in {"next", "body", "wait"} =>
       \/ todo = <<"rom">> /\ pc # "next"
       \/ \E s \in {0, 1} : Left(s) /\ (~ guessed => s = running)
  /\ pc \in {"body", "wait"} => todo # <<>> /\ Fits(Head(todo))
  /\ pc = "done" => \A p \in Names : Ready(p)

\* Past the rom code, it is written; nothing else is before.
PastRom == pc \in {"runsys", "next", "done"} \/ (pc \in {"body", "wait"} /\ todo # <<"rom">>)
RomInv == (PastRom => Complete("rom")) /\ (pc = "verify" => flash["rom"] = {})

\* What the threads are still to write, and what was counted, is not more
\* than the partition; a count that is about to be stored likewise.
Ahead(t) == U!Units(th[t].at, th[t].i)
Remaining == UNION {Ahead(t) : t \in U!Threads}
CountsInv ==
  /\ pc # "wait" => \A t \in U!Threads : th[t].pc \in {"none", "end"}
  /\ pc = "body" => g_written_size + left_len <= U!Length(Head(todo))
  /\ pc = "wait" =>
       /\ \A t \in U!Threads : Ahead(t) \subseteq 1 .. U!Length(Head(todo))
       /\ \A t, u \in U!Threads : t # u => Ahead(t) \cap Ahead(u) = {}
       /\ g_written_size + Cardinality(Remaining) + left_len <= U!Length(Head(todo))
       /\ \A t \in U!Threads : th[t].pc = "store" =>
            th[t].seen + Cardinality(Remaining) + left_len <= U!Length(Head(todo))

\* The running system is whole, or the other one is new.
Both(s) == U!Whole(U!gpt[s + 1]) /\ U!Whole(U!app[s + 1])
BootInv == guessed \/ Both(running) \/ (Ready(U!gpt[2 - running]) /\ Ready(U!app[2 - running]))

UpInv == UpKinds /\ FlashInv /\ TodoInv /\ RomInv /\ CountsInv /\ BootInv

-----------------------------------------------------------------------------
(* The tables of an image.                                                 *)

LEMMA CardSame == \A T : U!Cardinality(T) = Cardinality(T)
<1> QED
  BY DEF U!Cardinality, Cardinality

LEMMA ImageKinds ==
  ASSUME UpKinds
  PROVE  /\ \A p \in 1 .. Len(img.parts) : img.parts[p].off \in Nat /\ img.parts[p].len \in Nat
         /\ \A s \in 1 .. Len(img.segs) : img.segs[s].off \in Nat /\ img.segs[s].size \in Nat
         /\ Len(img.parts) \in Nat /\ Len(img.segs) \in Nat /\ img.rom \in Nat
<1>1. PICK T1, T2 : /\ T1 = [name : STRING, off : Nat, len : Nat, is_upgrade : BOOLEAN]
                    /\ T2 = [off : Nat, size : Nat]
  OBVIOUS
<1>2. img.parts \in Seq(T1) /\ img.segs \in Seq(T2) /\ img.rom \in Nat
  BY <1>1, ImagesAssumption DEF UpKinds
<1>3. /\ \A p \in 1 .. Len(img.parts) : img.parts[p] \in T1
      /\ \A s \in 1 .. Len(img.segs) : img.segs[s] \in T2
      /\ Len(img.parts) \in Nat /\ Len(img.segs) \in Nat
  BY <1>2
<1> QED
  BY <1>1, <1>2, <1>3

\* A set of numbers that is not empty has a least one.
LEMMA LeastOf == ASSUME NEW T \in SUBSET Nat, T # {} PROVE \E x \in T : \A y \in T : x <= y
<1>1. PICK x \in T : \A y \in T : ~ (<<y, x>> \in OpToRel(<, Nat))
  BY NatLessThanWellFounded, WFMin
<1>2. ASSUME NEW y \in T PROVE ~ (y < x)
  BY <1>1 DEF OpToRel
<1> QED
  BY <1>2

\* What fits has its place in both tables.
LEMMA FitsFacts ==
  ASSUME UpKinds, U!Sound, NEW p, Fits(p), U!IsApp(p)
  PROVE  /\ U!Index(p) \in 1 .. Len(img.parts) /\ U!Segment(p) \in 1 .. Len(img.segs)
         /\ img.segs[U!Segment(p)].off = img.parts[U!Index(p)].off
<1>1. U!Part(p) # {} /\ U!Matches(p)
  BY DEF Fits, U!Unusable
<1>2. U!Index(p) \in U!Part(p)
  <2>1. U!Part(p) \in SUBSET Nat
    BY DEF U!Part
  <2>2. \E x \in U!Part(p) : \A y \in U!Part(p) : x <= y
    BY <1>1, <2>1, LeastOf
  <2> QED
    BY <2>2 DEF U!Index
<1>3. U!Index(p) \in 1 .. Len(img.parts)
  BY <1>2 DEF U!Part
<1>4. U!Segment(p) \in 0 .. Len(img.segs)
  <2> DEFINE A == {q \in 1 .. U!Index(p) : img.parts[q].is_upgrade}
             B == {q \in 1 .. Len(img.parts) : img.parts[q].is_upgrade}
  <2>1. Len(img.parts) \in Nat /\ Len(img.segs) \in Nat
    BY ImageKinds
  <2>2. A \subseteq B
    BY <1>3, <2>1
  <2>3. IsFiniteSet(B)
    <3>1. IsFiniteSet(1 .. Len(img.parts))
      BY <2>1, FS_Interval
    <3>2. B \subseteq 1 .. Len(img.parts)
      OBVIOUS
    <3> HIDE DEF B
    <3> QED
      BY <3>1, <3>2, FS_Subset
  <2>4. Cardinality(B) <= Len(img.segs)
    BY CardSame DEF U!Sound
  <2>5. U!Segment(p) = Cardinality(A)
    BY CardSame DEF U!Segment
  <2> HIDE DEF A, B
  <2>6. Cardinality(A) <= Cardinality(B) /\ Cardinality(A) \in Nat /\ Cardinality(B) \in Nat
    BY <2>2, <2>3, FS_Subset, FS_CardinalityType
  <2> QED
    BY <2>1, <2>4, <2>5, <2>6
<1> QED
  BY <1>1, <1>3, <1>4 DEF U!Matches

LEMMA LengthKind == ASSUME UpKinds, U!Sound, NEW p, Fits(p) PROVE U!Length(p) \in Nat
<1>1. CASE ~ U!IsApp(p)
  BY <1>1, UpgradeSizes, ImageKinds DEF U!Length, U!IsApp, Fits, U!Areas
<1>2. CASE U!IsApp(p)
  BY <1>2, FitsFacts, ImageKinds DEF U!Length, U!IsApp
<1> QED
  BY <1>1, <1>2

\* A segment that begins its partition and lies in one lies in that one.
LEMMA InBounds ==
  ASSUME UpKinds, U!Sound, U!Verified, NEW p, Fits(p), U!IsApp(p)
  PROVE  \A u \in 1 .. U!Length(p) : u <= img.parts[U!Index(p)].len
<1>1. PICK i, s : i = U!Index(p) /\ s = U!Segment(p)
  OBVIOUS
<1>2. /\ i \in 1 .. Len(img.parts) /\ s \in 1 .. Len(img.segs)
      /\ img.segs[s].off = img.parts[i].off
  BY <1>1, FitsFacts
<1>3. PICK q \in 1 .. Len(img.parts) :
        /\ img.segs[s].off >= img.parts[q].off
        /\ img.segs[s].off + img.segs[s].size <= img.parts[q].off + img.parts[q].len
  BY <1>2 DEF U!Verified, U!PartOf
<1>4. U!Length(p) = img.segs[s].size
  BY <1>1 DEF U!Length, U!IsApp
<1>5. /\ img.parts[q].off \in Nat /\ img.parts[q].len \in Nat
      /\ img.parts[i].off \in Nat /\ img.parts[i].len \in Nat /\ img.segs[s].size \in Nat
  BY <1>2, <1>3, ImageKinds
<1>6. /\ img.parts[i].len > 0 /\ img.parts[q].len > 0
      /\ i # q => \/ img.parts[i].off + img.parts[i].len <= img.parts[q].off
                  \/ img.parts[q].off + img.parts[q].len <= img.parts[i].off
  BY <1>2, <1>3 DEF U!Sound
<1>7. CASE i = q
  BY <1>1, <1>2, <1>3, <1>4, <1>5, <1>7
<1>8. CASE i # q
  <2>1. PICK io, il, qo, ql, n \in Nat :
          /\ io = img.parts[i].off /\ il = img.parts[i].len
          /\ qo = img.parts[q].off /\ ql = img.parts[q].len /\ n = img.segs[s].size
    BY <1>5
  <2>2. io >= qo /\ io + n <= qo + ql /\ il > 0 /\ (io + il <= qo \/ qo + ql <= io)
    BY <1>2, <1>3, <1>6, <1>8, <2>1
  <2>3. n = 0
    BY <2>2
  <2> QED
    BY <1>4, <2>1, <2>3
<1> QED
  BY <1>7, <1>8

\* The areas that the image has: no address is of two of them.
Placed(p) == p \in U!Areas /\ (U!IsApp(p) => U!Part(p) # {})
LEMMA RoomKind ==
  ASSUME UpKinds, NEW p, Placed(p)
  PROVE  /\ U!Start(p) \in Nat /\ U!Room(p) \in Nat
         /\ ~ U!IsApp(p) => U!Room(p) = U!Length(p)
         /\ U!IsApp(p) => /\ U!Index(p) \in U!Part(p) /\ U!Index(p) \in 1 .. Len(img.parts)
                          /\ U!Start(p) = GptOffset + img.parts[U!Index(p)].off
                          /\ U!Room(p) = img.parts[U!Index(p)].len
<1>1. CASE ~ U!IsApp(p)
  BY <1>1, UpgradeSizes, ImageKinds DEF Placed, U!Areas, U!IsApp, U!Start, U!Room, U!Length
<1>2. CASE U!IsApp(p)
  <2>1. U!Index(p) \in U!Part(p)
    <3>1. U!Part(p) \in SUBSET Nat /\ U!Part(p) # {}
      BY <1>2 DEF U!Part, Placed
    <3>2. \E x \in U!Part(p) : \A y \in U!Part(p) : x <= y
      BY <3>1, LeastOf
    <3> QED
      BY <3>2 DEF U!Index
  <2>2. U!Index(p) \in 1 .. Len(img.parts)
    BY <2>1 DEF U!Part
  <2>3. /\ U!Start(p) = GptOffset + img.parts[U!Index(p)].off
        /\ U!Room(p) = img.parts[U!Index(p)].len
    BY <1>2 DEF U!IsApp, U!Start, U!Room, Placed
  <2>4. img.parts[U!Index(p)].off \in Nat /\ img.parts[U!Index(p)].len \in Nat
    BY <2>2, ImageKinds
  <2> QED
    BY <1>2, <2>1, <2>2, <2>3, <2>4, UpgradeSizes
<1> QED
  BY <1>1, <1>2

LEMMA Disjoint ==
  ASSUME UpKinds, U!Sound, NEW p, NEW q, Placed(p), Placed(q), p # q
  PROVE  \/ U!Start(p) + U!Room(p) <= U!Start(q)
         \/ U!Start(q) + U!Room(q) <= U!Start(p)
<1>1. /\ img.rom \in Nat /\ Block \in Nat /\ GptOffset \in Nat
      /\ img.rom + 2 * Block <= GptOffset
  BY ImageKinds, UpgradeSizes DEF U!Sound
<1>2. ASSUME NEW a, Placed(a), ~ U!IsApp(a) PROVE U!Start(a) + U!Room(a) <= GptOffset
  BY <1>1, <1>2 DEF Placed, U!Areas, U!IsApp, U!Start, U!Room, U!Length
<1>3. ASSUME NEW a, Placed(a), U!IsApp(a) PROVE U!Start(a) >= GptOffset
  <2>1. /\ U!Start(a) = GptOffset + img.parts[U!Index(a)].off
        /\ img.parts[U!Index(a)].off \in Nat
    BY <1>3, RoomKind, ImageKinds
  <2> QED
    BY <1>1, <2>1
<1>4. /\ U!Start(p) \in Nat /\ U!Room(p) \in Nat /\ U!Start(q) \in Nat /\ U!Room(q) \in Nat
  BY RoomKind
<1>5. CASE ~ U!IsApp(p) /\ ~ U!IsApp(q)
  BY <1>1, <1>5 DEF Placed, U!Areas, U!IsApp, U!Start, U!Room, U!Length
<1>6. CASE ~ U!IsApp(p) /\ U!IsApp(q)
  BY <1>1, <1>2, <1>3, <1>4, <1>6
<1>7. CASE U!IsApp(p) /\ ~ U!IsApp(q)
  BY <1>1, <1>2, <1>3, <1>4, <1>7
<1>8. CASE U!IsApp(p) /\ U!IsApp(q)
  <2>1. PICK i, j \in 1 .. Len(img.parts) :
          /\ i = U!Index(p) /\ j = U!Index(q) /\ i \in U!Part(p) /\ j \in U!Part(q)
          /\ U!Start(p) = GptOffset + img.parts[i].off /\ U!Room(p) = img.parts[i].len
          /\ U!Start(q) = GptOffset + img.parts[j].off /\ U!Room(q) = img.parts[j].len
    BY <1>8, RoomKind
  <2>2. i # j
    BY <2>1 DEF U!Part
  <2>3. \/ img.parts[i].off + img.parts[i].len <= img.parts[j].off
        \/ img.parts[j].off + img.parts[j].len <= img.parts[i].off
    BY <2>2 DEF U!Sound
  <2>4. PICK io, il, jo, jl \in Nat : /\ io = img.parts[i].off /\ il = img.parts[i].len
                                     /\ jo = img.parts[j].off /\ jl = img.parts[j].len
    BY ImageKinds
  <2>5. /\ U!Start(p) = GptOffset + io /\ U!Room(p) = il
        /\ U!Start(q) = GptOffset + jo /\ U!Room(q) = jl
        /\ io + il <= jo \/ jo + jl <= io
    BY <2>1, <2>3, <2>4
  <2> QED
    BY <1>1, <2>5
<1> QED
  BY <1>5, <1>6, <1>7, <1>8

\* What fits is written where nothing else is.
LEMMA NoHit ==
  ASSUME UpKinds, U!Sound, U!Verified, Fits(Head(todo)), NEW p \in U!Areas, p # Head(todo),
         NEW X, X \subseteq 1 .. U!Length(Head(todo))
  PROVE  U!Hit(p, X) = {}
<1>1. PICK h : h = Head(todo)
  OBVIOUS
<1>2. CASE ~ Placed(p)
  <2>1. U!Room(p) = 0
    BY <1>2 DEF Placed, U!Room
  <2>2. 1 .. U!Room(p) = {}
    BY <2>1
  <2> QED
    BY <2>2 DEF U!Hit
<1>3. CASE Placed(p)
  <2>1. Placed(h) /\ h # p
    BY <1>1 DEF Fits, Placed, U!Unusable
  <2>2. PICK sp, rp, sh, rh \in Nat : /\ sp = U!Start(p) /\ rp = U!Room(p)
                                      /\ sh = U!Start(h) /\ rh = U!Room(h)
    BY <1>3, <2>1, RoomKind
  <2>3. sp + rp <= sh \/ sh + rh <= sp
    BY <1>3, <2>1, <2>2, Disjoint
  <2>4. PICK n \in Nat : n = U!Length(h)
    BY <1>1, LengthKind
  <2>5. \A v \in 1 .. n : v <= rh
    <3>1. CASE U!IsApp(h)
      BY <1>1, <2>1, <2>2, <2>4, <3>1, InBounds, RoomKind
    <3>2. CASE ~ U!IsApp(h)
      BY <2>1, <2>2, <2>4, <3>2, RoomKind
    <3> QED
      BY <3>1, <3>2
  <2>6. ASSUME NEW u \in 1 .. rp, NEW v \in X PROVE sp + u # sh + v
    <3>1. v \in 1 .. n /\ v <= rh
      BY <1>1, <2>4, <2>5
    <3> QED
      BY <2>3, <3>1
  <2> QED
    BY <1>1, <2>2, <2>6 DEF U!Hit
<1> QED
  BY <1>2, <1>3

-----------------------------------------------------------------------------
(* Partitions and systems.                                                 *)
LEMMA SystemNames ==
  ASSUME NEW s \in {0, 1}
  PROVE  /\ Names = {U!gpt[2 - s], U!app[2 - s], U!gpt[s + 1], U!app[s + 1]}
         /\ Names \subseteq U!Areas /\ "rom" \notin Names /\ U!Areas = Names \cup {"rom"}
         /\ U!gpt[2 - s] # U!gpt[s + 1] /\ U!gpt[2 - s] # U!app[s + 1]
         /\ U!app[2 - s] # U!gpt[s + 1] /\ U!app[2 - s] # U!app[s + 1]
         /\ ~ U!IsApp(U!gpt[s + 1]) /\ U!IsApp(U!app[s + 1])
         /\ U!gpt[2 - (1 - s)] = U!gpt[s + 1] /\ U!app[2 - (1 - s)] = U!app[s + 1]
         /\ 1 - s \in {0, 1} /\ U!gpt[(1 - s) + 1] = U!gpt[2 - s] /\ U!app[(1 - s) + 1] = U!app[2 - s]
<1> QED
  BY DEF Names, U!Areas, U!gpt, U!app, U!IsApp

\* Nothing that is said of the image and of flash changes with the rest.
LEMMA Steady ==
  ASSUME UNCHANGED <<img, flash>>
  PROVE  /\ U!Verified' <=> U!Verified
         /\ \A p : /\ Fits(p)' <=> Fits(p)
                   /\ Ready(p)' <=> Ready(p)
                   /\ Complete(p)' <=> Complete(p)
                   /\ U!Length(p)' = U!Length(p)
         /\ \A s : /\ Both(s)' <=> Both(s)
<1>1. U!Verified' <=> U!Verified
  BY DEF U!Verified, U!PartOf
<1>2. ASSUME NEW p
      PROVE  /\ U!Part(p)' = U!Part(p) /\ U!Index(p)' = U!Index(p) /\ U!Segment(p)' = U!Segment(p)
             /\ U!Matches(p)' <=> U!Matches(p)
             /\ U!Skipped(p)' <=> U!Skipped(p)
             /\ U!Unusable(p)' <=> U!Unusable(p)
             /\ U!Length(p)' = U!Length(p)
  BY DEF U!Part, U!Index, U!Segment, U!Matches, U!Skipped, U!Unusable, U!Length
<1>3. ASSUME NEW p
      PROVE  /\ Fits(p)' <=> Fits(p)
             /\ Ready(p)' <=> Ready(p)
             /\ Complete(p)' <=> Complete(p)
             /\ U!Whole(p)' <=> U!Whole(p)
  BY <1>2 DEF Fits, Ready, Kept, Complete, U!Whole, U!Full
<1>4. ASSUME NEW s PROVE Both(s)' <=> Both(s)
  BY <1>3 DEF Both
<1> QED
  BY <1>1, <1>2, <1>3, <1>4

\* Of the image alone.
LEMMA SameImage ==
  ASSUME img' = img
  PROVE  /\ U!Verified' <=> U!Verified
         /\ \A p : /\ Fits(p)' <=> Fits(p)
                   /\ Kept(p)' <=> Kept(p)
                   /\ U!Length(p)' = U!Length(p)
<1>1. U!Verified' <=> U!Verified
  BY DEF U!Verified, U!PartOf
<1>2. ASSUME NEW p
      PROVE  /\ U!Part(p)' = U!Part(p) /\ U!Index(p)' = U!Index(p) /\ U!Segment(p)' = U!Segment(p)
             /\ U!Matches(p)' <=> U!Matches(p)
             /\ U!Skipped(p)' <=> U!Skipped(p)
             /\ U!Unusable(p)' <=> U!Unusable(p)
             /\ U!Length(p)' = U!Length(p)
  BY DEF U!Part, U!Index, U!Segment, U!Matches, U!Skipped, U!Unusable, U!Length
<1> QED
  BY <1>1, <1>2 DEF Fits, Kept

\* A system of which both partitions are ready is whole.
LEMMA CompleteWhole ==
  ASSUME Bounded, NEW p \in U!Areas
  PROVE  /\ Complete(p) => U!Whole(p)
         /\ Kept(p) => U!Whole(p)
         /\ Complete(p) /\ (flash[p] # {} \/ ~ U!IsApp(p)) => U!Full(p)
<1>1. flash[p] # {} => (U!IsApp(p) => U!Part(p) # {} /\ U!Matches(p))
  BY DEF Bounded, Fits, U!Unusable
<1>2. Complete(p) /\ (flash[p] # {} \/ ~ U!IsApp(p)) => U!Full(p)
  BY <1>1 DEF U!Full, Complete
<1>3. Kept(p) => flash[p] = {}
  BY DEF Bounded, Kept, Fits
<1> QED
  BY <1>2, <1>3 DEF U!Whole

LEMMA ReadyBoots ==
  ASSUME Bounded, NEW s \in {0, 1}, Ready(U!gpt[s + 1]), Ready(U!app[s + 1])
  PROVE  Both(s)
<1>1. PICK c, d : c = U!gpt[s + 1] /\ d = U!app[s + 1]
  OBVIOUS
<1>2. c \in U!Areas /\ d \in U!Areas
  BY <1>1, SystemNames
<1>3. U!Whole(c) /\ U!Whole(d)
  BY <1>1, <1>2, CompleteWhole DEF Ready
<1> QED
  BY <1>1, <1>3 DEF Both

\* The list of what is left.
LEMMA LeftHead ==
  ASSUME NEW s \in {0, 1}, Left(s), todo # <<>>
  PROVE  /\ Head(todo) \in Names
         /\ \/ Head(todo) \in {U!gpt[2 - s], U!app[2 - s]}
            \/ /\ Ready(U!gpt[2 - s]) /\ Ready(U!app[2 - s])
               /\ Head(todo) \in {U!gpt[s + 1], U!app[s + 1]}
<1> QED
  BY SystemNames DEF Left

LEMMA LeftNext ==
  ASSUME NEW s \in {0, 1}, Left(s), todo # <<>>, Ready(Head(todo)), todo' = Tail(todo),
         UNCHANGED <<img, flash>>
  PROVE  Left(s)'
<1>1. PICK a, b, c, d : /\ a = U!gpt[2 - s] /\ b = U!app[2 - s]
                        /\ c = U!gpt[s + 1] /\ d = U!app[s + 1]
  OBVIOUS
<1>2. \A p : Ready(p)' <=> Ready(p)
  BY Steady
<1>3. \/ todo' = <<b, c, d>> /\ Ready(a)
      \/ todo' = <<c, d>> /\ Ready(a) /\ Ready(b)
      \/ todo' = <<d>> /\ Ready(a) /\ Ready(b) /\ Ready(c)
      \/ todo' = <<>> /\ Ready(a) /\ Ready(b) /\ Ready(c) /\ Ready(d)
  <2>1. CASE todo = <<a, b, c, d>>
    <3>1. Head(todo) = a /\ Tail(todo) = <<b, c, d>>
      BY <2>1
    <3> QED
      BY <3>1
  <2>2. CASE todo = <<b, c, d>> /\ Ready(a)
    <3>1. Head(todo) = b /\ Tail(todo) = <<c, d>>
      BY <2>2
    <3> QED
      BY <2>2, <3>1
  <2>3. CASE todo = <<c, d>> /\ Ready(a) /\ Ready(b)
    <3>1. Head(todo) = c /\ Tail(todo) = <<d>>
      BY <2>3
    <3> QED
      BY <2>3, <3>1
  <2>4. CASE todo = <<d>> /\ Ready(a) /\ Ready(b) /\ Ready(c)
    <3>1. Head(todo) = d /\ Tail(todo) = <<>>
      BY <2>4
    <3> QED
      BY <2>4, <3>1
  <2> QED
    BY <1>1, <2>1, <2>2, <2>3, <2>4 DEF Left
<1>4. \/ todo' = <<b, c, d>> /\ Ready(a)'
      \/ todo' = <<c, d>> /\ Ready(a)' /\ Ready(b)'
      \/ todo' = <<d>> /\ Ready(a)' /\ Ready(b)' /\ Ready(c)'
      \/ todo' = <<>> /\ Ready(a)' /\ Ready(b)' /\ Ready(c)' /\ Ready(d)'
  BY <1>2, <1>3
<1> QED
  BY <1>1, <1>4 DEF Left

LEMMA LeftSame ==
  ASSUME NEW s \in {0, 1}, Left(s), todo' = todo, \A p \in Names : Ready(p) => Ready(p)'
  PROVE  Left(s)'
<1>1. PICK a, b, c, d : /\ a = U!gpt[2 - s] /\ b = U!app[2 - s]
                        /\ c = U!gpt[s + 1] /\ d = U!app[s + 1]
  OBVIOUS
<1>2. a \in Names /\ b \in Names /\ c \in Names /\ d \in Names
  BY <1>1, SystemNames
<1>3. \/ todo' = <<a, b, c, d>>
      \/ todo' = <<b, c, d>> /\ Ready(a)'
      \/ todo' = <<c, d>> /\ Ready(a)' /\ Ready(b)'
      \/ todo' = <<d>> /\ Ready(a)' /\ Ready(b)' /\ Ready(c)'
      \/ todo' = <<>> /\ Ready(a)' /\ Ready(b)' /\ Ready(c)' /\ Ready(d)'
  BY <1>1, <1>2 DEF Left
<1> QED
  BY <1>1, <1>3 DEF Left

LEMMA LeftEmpty ==
  ASSUME NEW s \in {0, 1}, Left(s), todo = <<>>
  PROVE  \A p \in Names : Ready(p)
<1>1. PICK a, b, c, d : /\ a = U!gpt[2 - s] /\ b = U!app[2 - s]
                        /\ c = U!gpt[s + 1] /\ d = U!app[s + 1]
  OBVIOUS
<1>2. Names = {a, b, c, d}
  BY <1>1, SystemNames
<1>3. /\ <<a, b, c, d>> # <<>> /\ <<b, c, d>> # <<>> /\ <<c, d>> # <<>> /\ <<d>> # <<>>
  OBVIOUS
<1>4. Ready(a) /\ Ready(b) /\ Ready(c) /\ Ready(d)
  BY <1>1, <1>3 DEF Left
<1> QED
  BY <1>2, <1>4

-----------------------------------------------------------------------------
(* What a step keeps.                                                      *)
LEMMA KeepsFlash ==
  ASSUME Bounded, UNCHANGED <<img, flash>>, pc' \in {"verify", "failed"} \/ U!Verified
  PROVE  FlashInv'
<1> QED
  BY Steady DEF Bounded, FlashInv

LEMMA KeepsRom ==
  ASSUME RomInv, UNCHANGED <<img, flash>>, PastRom' => PastRom, pc' = "verify" => pc = "verify"
  PROVE  RomInv'
<1> QED
  BY Steady DEF RomInv

LEMMA KeepsBoot ==
  ASSUME BootInv, UNCHANGED <<img, flash, running>>, guessed \in BOOLEAN, guessed' \in BOOLEAN,
         guessed => guessed'
  PROVE  BootInv'
<1>1. PICK a, b : a = U!gpt[2 - running] /\ b = U!app[2 - running]
  OBVIOUS
<1>2. U!gpt[2 - running'] = a /\ U!app[2 - running'] = b
  BY <1>1
<1> QED
  BY <1>1, <1>2, Steady DEF BootInv

\* A write in the bounds of the area whose turn it is.
LEMMA Writes ==
  ASSUME UpInv, U!Sound, pc \in {"body", "wait"}, NEW X, X \subseteq 1 .. U!Length(Head(todo)),
         U!Written(X), img' = img, todo' = todo, pc' \in {"body", "wait", "failed"}
  PROVE  /\ Bounded' /\ U!Verified /\ U!Verified' /\ RomInv'
         /\ \A p \in Names : Ready(p) => Ready(p)'
         /\ \A p \in Names : p # Head(todo) => flash'[p] = flash[p]
<1>1. PICK h, n : h = Head(todo) /\ n = U!Length(h)
  OBVIOUS
<1>2. /\ todo # <<>> /\ Fits(h) /\ Bounded /\ U!Verified /\ flash \in [U!Areas -> SUBSET Nat]
      /\ h \in U!Areas
  BY <1>1 DEF UpInv, TodoInv, FlashInv, Bounded, Fits
<1>3. h = "rom" => todo = <<"rom">>
  BY <1>1, <1>2, LeftHead, SystemNames DEF UpInv, TodoInv
<1>4. n \in Nat
  BY <1>1, <1>2, LengthKind DEF UpInv
<1>5. flash' = [flash EXCEPT ![h] = @ \cup X] /\ X \subseteq 1 .. n
  <2>1. \A p \in U!Areas : p # h => U!Hit(p, X) = {}
    BY <1>1, <1>2, NoHit DEF UpInv
  <2> QED
    BY <1>1, <1>2, <2>1 DEF U!Written
<1>6. /\ flash'[h] = flash[h] \cup X /\ flash' \in [U!Areas -> SUBSET Nat]
      /\ \A p \in U!Areas : p # h => flash'[p] = flash[p]
  <2>1. X \subseteq Nat
    BY <1>4, <1>5
  <2> QED
    BY <1>2, <1>5, <2>1
<1>7. /\ U!Verified' /\ U!Length(h)' = n
      /\ \A p : /\ Fits(p)' <=> Fits(p)
                /\ Kept(p)' <=> Kept(p)
                /\ U!Length(p)' = U!Length(p)
  BY <1>1, <1>2, SameImage
<1>8. flash[h] \subseteq 1 .. n
  BY <1>1, <1>2 DEF Bounded
<1>9. ASSUME NEW p \in U!Areas
      PROVE  flash'[p] # {} => Fits(p) /\ flash'[p] \subseteq 1 .. U!Length(p)
  <2>1. CASE p = h
    BY <1>1, <1>2, <1>5, <1>6, <1>8, <2>1
  <2>2. CASE p # h
    BY <1>2, <1>6, <2>2 DEF Bounded
  <2> QED
    BY <2>1, <2>2
<1>10. Bounded'
  BY <1>6, <1>7, <1>9 DEF Bounded
<1>11. ASSUME NEW p \in U!Areas, Ready(p) PROVE Ready(p)'
  <2>1. CASE Kept(p)
    BY <1>7, <2>1 DEF Ready
  <2>2. CASE Fits(p) /\ Complete(p) /\ p # h
    BY <1>6, <1>7, <2>2 DEF Ready, Complete
  <2>3. CASE Fits(p) /\ Complete(p) /\ p = h
    <3>1. flash[h] = 1 .. n
      BY <1>1, <2>3 DEF Complete
    <3>2. flash'[h] = 1 .. n
      BY <1>5, <1>6, <3>1
    <3> QED
      BY <1>7, <2>3, <3>2 DEF Ready, Complete
  <2> QED
    BY <1>11, <2>1, <2>2, <2>3 DEF Ready
<1>12. RomInv'
  <2>1. CASE h = "rom"
    BY <1>3, <2>1 DEF RomInv, PastRom
  <2>2. CASE h # "rom"
    <3>1. "rom" \in U!Areas /\ flash'["rom"] = flash["rom"]
      BY <1>6, <2>2 DEF U!Areas
    <3>2. Complete("rom")' <=> Complete("rom")
      BY <1>7, <3>1 DEF Complete
    <3>3. PastRom' => PastRom
      BY DEF PastRom
    <3> QED
      BY <3>2, <3>3 DEF RomInv, UpInv
  <2> QED
    BY <2>1, <2>2
<1>13. Names \subseteq U!Areas
  BY DEF Names, U!Areas
<1> QED
  BY <1>1, <1>2, <1>6, <1>7, <1>10, <1>11, <1>12, <1>13

LEMMA WholeKept ==
  ASSUME img' = img, NEW p, flash'[p] = flash[p]
  PROVE  U!Whole(p)' <=> U!Whole(p)
<1>1. /\ U!Part(p)' = U!Part(p) /\ U!Index(p)' = U!Index(p) /\ U!Segment(p)' = U!Segment(p)
      /\ U!Matches(p)' <=> U!Matches(p)
      /\ U!Length(p)' = U!Length(p)
  BY DEF U!Part, U!Index, U!Segment, U!Matches, U!Length
<1> QED
  BY <1>1 DEF U!Whole, U!Full

\* It is of the system that does not run, or that one is ready.
LEMMA WritesBoot ==
  ASSUME UpInv, pc \in {"body", "wait"}, img' = img, UNCHANGED <<running, guessed>>,
         \A p \in Names : Ready(p) => Ready(p)',
         \A p \in Names : p # Head(todo) => flash'[p] = flash[p]
  PROVE  BootInv'
<1>1. CASE guessed
  BY <1>1 DEF BootInv
<1>2. CASE todo = <<"rom">>
  <2>1. \A p \in Names : flash'[p] = flash[p] /\ U!Length(p)' = U!Length(p)
    BY <1>2, SameImage DEF Names
  <2>2. PICK s \in {0, 1} : s = running
    BY DEF UpInv, UpKinds
  <2>3. PICK a, b, c, d : /\ a = U!gpt[2 - s] /\ b = U!app[2 - s]
                          /\ c = U!gpt[s + 1] /\ d = U!app[s + 1]
    OBVIOUS
  <2>4. a \in Names /\ b \in Names /\ c \in Names /\ d \in Names
    BY <2>3, SystemNames
  <2>5. (Both(s) => Both(s)') /\ (Ready(a) => Ready(a)') /\ (Ready(b) => Ready(b)')
    BY <2>1, <2>3, <2>4, WholeKept DEF Both
  <2>6. U!gpt[2 - running'] = a /\ U!app[2 - running'] = b /\ running' = s
    BY <2>2, <2>3
  <2> QED
    BY <2>2, <2>3, <2>5, <2>6 DEF UpInv, BootInv
<1>3. CASE ~ guessed /\ todo # <<"rom">>
  <2>1. PICK s : s = running
    OBVIOUS
  <2>2. s \in {0, 1} /\ Left(s) /\ todo # <<>>
    BY <1>3, <2>1 DEF UpInv, UpKinds, TodoInv
  <2>3. PICK a, b, c, d : /\ a = U!gpt[2 - s] /\ b = U!app[2 - s]
                          /\ c = U!gpt[s + 1] /\ d = U!app[s + 1]
    OBVIOUS
  <2>4. /\ a \in Names /\ b \in Names /\ c \in Names /\ d \in Names
        /\ a # c /\ a # d /\ b # c /\ b # d
    BY <2>2, <2>3, SystemNames
  <2>5. U!gpt[2 - running'] = a /\ U!app[2 - running'] = b /\ running' = s
    BY <2>1, <2>3
  <2>6. Ready(a) /\ Ready(b) => BootInv'
    BY <2>4, <2>5 DEF BootInv
  <2>7. ASSUME Both(s), Head(todo) \in {a, b} PROVE BootInv'
    <3>1. flash'[c] = flash[c] /\ flash'[d] = flash[d]
      BY <2>4, <2>7
    <3>2. (U!Whole(c) => U!Whole(c)') /\ (U!Whole(d) => U!Whole(d)')
      BY <3>1, WholeKept
    <3>3. Both(s)'
      BY <2>3, <2>7, <3>2 DEF Both
    <3> QED
      BY <2>5, <3>3 DEF BootInv
  <2>8. \/ Head(todo) \in {a, b}
        \/ Ready(a) /\ Ready(b)
    BY <2>2, <2>3, LeftHead
  <2>9. Both(s) \/ (Ready(a) /\ Ready(b))
    BY <1>3, <2>1, <2>3 DEF UpInv, BootInv
  <2> QED
    BY <2>6, <2>7, <2>8, <2>9
<1> QED
  BY <1>1, <1>2, <1>3

\* A step of main that writes nothing.
LEMMA Idle ==
  ASSUME UpInv, UpKinds', UNCHANGED <<img, flash, running, guessed, th>>, pc # "wait",
         pc' \in {"connect", "failed"}, pc' # "failed" => U!Verified
  PROVE  UpInv'
<1>1. FlashInv'
  BY KeepsFlash DEF UpInv, FlashInv
<1>2. BootInv'
  BY KeepsBoot DEF UpInv, UpKinds
<1>3. TodoInv'
  BY DEF TodoInv
<1>4. CountsInv'
  BY DEF UpInv, CountsInv
<1>5. RomInv'
  BY DEF RomInv, PastRom
<1> QED
  BY <1>1, <1>2, <1>3, <1>4, <1>5 DEF UpInv

-----------------------------------------------------------------------------
(* The steps of main.                                                      *)
LEMMA VerifySteps == ASSUME UpInv, U!Verify \/ U!Refuse \/ U!NoConnect PROVE UpInv'
<1>1. UpKinds'
  BY DEF UpInv, UpKinds, U!Verify, U!Refuse, U!NoConnect, U!Keep, U!Fail, U!Fault, U!device
<1>2. UNCHANGED <<img, flash, running, guessed, th>>
  BY DEF U!Verify, U!Refuse, U!NoConnect, U!Keep, U!Fail, U!device
<1>3. /\ pc # "wait" /\ pc' \in {"connect", "failed"}
      /\ pc' # "failed" => U!Verified
  BY DEF UpInv, FlashInv, U!Verify, U!Refuse, U!NoConnect, U!Fail
<1> QED
  BY <1>1, <1>2, <1>3, Idle

\* The rom code is next, unless the image has none.
LEMMA ConnectStep == ASSUME UpInv, U!Connect PROVE UpInv'
<1>1. /\ pc = "connect" /\ g_written_size' = 0
      /\ UNCHANGED <<img, flash, running, runs, guessed, faults, g_err, th>>
      /\ \/ /\ img.rom > 0 /\ pc' = "body" /\ todo' = <<"rom">> /\ left_len' = img.rom
         \/ ~ (img.rom > 0) /\ pc' = "runsys" /\ UNCHANGED <<todo, left_len>>
  BY DEF U!Connect, U!device
<1>2. img.rom \in Nat
  BY ImageKinds DEF UpInv
<1>3. UpKinds'
  <2>1. left_len' \in Nat /\ g_written_size' \in Nat /\ pc' \in {"body", "runsys"}
    BY <1>1, <1>2 DEF UpInv, UpKinds
  <2> QED
    BY <1>1, <2>1 DEF UpInv, UpKinds
<1>4. FlashInv'
  BY <1>1, KeepsFlash DEF UpInv, FlashInv
<1>5. BootInv'
  BY <1>1, KeepsBoot DEF UpInv, UpKinds
<1>6. CASE pc' = "body"
  <2>1. todo' = <<"rom">> /\ Head(todo') = "rom" /\ left_len' = img.rom
    BY <1>1, <1>6
  <2>2. U!Length("rom") = img.rom /\ U!Length("rom")' = img.rom /\ Fits("rom")'
    BY <1>1 DEF U!Length, Fits, U!Areas, U!IsApp
  <2>3. TodoInv'
    BY <1>6, <2>1, <2>2 DEF TodoInv
  <2>4. CountsInv'
    <3>1. g_written_size' + left_len' <= U!Length(Head(todo))'
      BY <1>1, <1>2, <2>1, <2>2
    <3> QED
      BY <1>1, <1>6, <3>1 DEF UpInv, CountsInv
  <2>5. RomInv'
    BY <1>6, <2>1 DEF RomInv, PastRom
  <2> QED
    BY <1>3, <1>4, <1>5, <2>3, <2>4, <2>5 DEF UpInv
<1>7. CASE pc' = "runsys"
  <2>1. TodoInv' /\ CountsInv'
    BY <1>1, <1>7 DEF UpInv, TodoInv, CountsInv
  <2>2. Complete("rom")
    <3>1. U!Length("rom") = 0
      BY <1>1, <1>2, <1>7 DEF U!Length
    <3>2. flash["rom"] \subseteq 1 .. U!Length("rom")
      BY DEF UpInv, FlashInv, Bounded, U!Areas
    <3>3. 1 .. U!Length("rom") = {}
      BY <3>1
    <3> QED
      BY <3>2, <3>3 DEF Complete
  <2>3. RomInv'
    BY <1>1, <2>2, Steady DEF RomInv
  <2> QED
    BY <1>3, <1>4, <1>5, <2>1, <2>3 DEF UpInv
<1> QED
  BY <1>1, <1>6, <1>7

LEMMA RunSysStep == ASSUME UpInv, U!RunSys PROVE UpInv'
<1>1. /\ pc = "runsys" /\ pc' = "next" /\ UNCHANGED <<img, flash, running, runs>>
      /\ UNCHANGED <<left_len, g_written_size, g_err, th>>
      /\ \/ todo' = U!Order(running) /\ UNCHANGED <<guessed, faults>>
         \/ /\ faults' = faults + 1 /\ todo' = U!Order(0)
            /\ guessed' = (guessed \/ running # 0)
  BY DEF U!RunSys, U!Keep, U!Fault
<1>2. running \in {0, 1} /\ guessed \in BOOLEAN /\ faults \in Nat
  BY DEF UpInv, UpKinds
<1>3. guessed' \in BOOLEAN /\ (guessed => guessed') /\ faults' \in Nat
  <2>1. faults' = faults \/ faults' = faults + 1
    BY <1>1
  <2>2. guessed' = guessed \/ guessed' = (guessed \/ running # 0)
    BY <1>1, Zenon
  <2>3. guessed' \in BOOLEAN /\ (guessed => guessed')
    BY <1>2, <2>2, Zenon
  <2> QED
    BY <1>2, <2>1, <2>3
<1>4. UpKinds'
  BY <1>1, <1>3 DEF UpInv, UpKinds
<1>5. FlashInv'
  BY <1>1, KeepsFlash DEF UpInv, FlashInv
<1>6. BootInv'
  BY <1>1, <1>2, <1>3, KeepsBoot DEF UpInv
<1>7. TodoInv'
  <2>1. ASSUME NEW s \in {0, 1}, todo' = U!Order(s) PROVE Left(s)'
    <3>1. PICK a, b, c, d : /\ a = U!gpt[2 - s] /\ b = U!app[2 - s]
                            /\ c = U!gpt[s + 1] /\ d = U!app[s + 1]
      OBVIOUS
    <3>2. todo' = <<a, b, c, d>>
      BY <2>1, <3>1 DEF U!Order
    <3> QED
      BY <3>1, <3>2 DEF Left
  <2>2. PICK s \in {0, 1} : todo' = U!Order(s) /\ (~ guessed' => s = running')
    BY <1>1, <1>2
  <2>3. Left(s)'
    BY <2>1, <2>2
  <2> QED
    BY <1>1, <2>2, <2>3 DEF TodoInv
<1>8. CountsInv'
  BY <1>1 DEF UpInv, CountsInv
<1>9. RomInv'
  BY <1>1, KeepsRom DEF UpInv, PastRom
<1> QED
  BY <1>4, <1>5, <1>6, <1>7, <1>8, <1>9 DEF UpInv

\* The list after a partition that is ready.
LEMMA Advance ==
  ASSUME UpInv, UpKinds', pc \in {"next", "body"}, pc' = "next", todo # <<>>, Ready(Head(todo)),
         todo # <<"rom">>,
         todo' = Tail(todo), UNCHANGED <<img, flash, running, guessed, th>>
  PROVE  UpInv'
<1>1. FlashInv'
  BY KeepsFlash DEF UpInv, FlashInv
<1>2. BootInv'
  BY KeepsBoot DEF UpInv, UpKinds
<1>3. TodoInv'
  <2>1. PICK s \in {0, 1} : Left(s) /\ (~ guessed => s = running)
    BY DEF UpInv, TodoInv
  <2>2. Left(s)'
    BY <2>1, LeftNext
  <2> QED
    BY <2>1, <2>2 DEF TodoInv
<1>4. CountsInv'
  BY DEF UpInv, CountsInv
<1>5. RomInv'
  BY KeepsRom DEF UpInv, PastRom
<1> QED
  BY <1>1, <1>2, <1>3, <1>4, <1>5 DEF UpInv

LEMMA PartitionStep == ASSUME UpInv, U!Sound, U!Partition PROVE UpInv'
<1>1. PICK h : h = Head(todo)
  OBVIOUS
<1>2. /\ pc = "next" /\ todo # <<>> /\ (~ U!IsApp(h) \/ ~ U!Unusable(h)) /\ g_written_size' = 0
      /\ todo # <<"rom">> /\ h \in U!Areas
      /\ UNCHANGED <<img, flash, running, runs, guessed, faults, g_err, th>>
  <2>1. /\ pc = "next" /\ todo # <<>> /\ (~ U!IsApp(h) \/ ~ U!Unusable(h)) /\ g_written_size' = 0
        /\ UNCHANGED <<img, flash, running, runs, guessed, faults, g_err, th>>
    BY <1>1 DEF U!Partition, U!device
  <2>2. PICK s \in {0, 1} : Left(s)
    BY <2>1 DEF UpInv, TodoInv
  <2>3. h \in Names
    BY <1>1, <2>1, <2>2, LeftHead
  <2>4. todo # <<"rom">>
    <3>1. h # "rom"
      BY <2>3 DEF Names
    <3> QED
      BY <1>1, <3>1
  <2> QED
    BY <2>1, <2>3, <2>4 DEF Names, U!Areas
<1>3. CASE U!IsApp(h) /\ U!Skipped(h)
  <2>1. todo' = Tail(todo) /\ pc' = pc /\ left_len' = left_len
    BY <1>1, <1>3 DEF U!Partition
  <2>2. Ready(h)
    BY <1>3 DEF Ready, Kept
  <2>3. UpKinds'
    BY <1>2, <2>1 DEF UpInv, UpKinds
  <2> QED
    BY <1>1, <1>2, <2>1, <2>2, <2>3, Advance
<1>4. CASE ~ U!IsApp(h) \/ ~ U!Skipped(h)
  <2>1. todo' = todo /\ left_len' = U!Length(h) /\ pc' = "body"
    BY <1>1, <1>4 DEF U!Partition
  <2>2. Fits(h)
    BY <1>2, <1>4 DEF Fits
  <2>3. U!Length(h) \in Nat
    BY <2>2, LengthKind DEF UpInv
  <2>4. UpKinds'
    BY <1>2, <2>1, <2>3 DEF UpInv, UpKinds
  <2>5. FlashInv'
    BY <1>2, KeepsFlash DEF UpInv, FlashInv
  <2>6. BootInv'
    BY <1>2, KeepsBoot DEF UpInv, UpKinds
  <2>7. /\ \A p \in Names : Ready(p) => Ready(p)'
        /\ Fits(h)' /\ U!Length(h)' = U!Length(h) /\ Head(todo)' = h
    BY <1>1, <1>2, <2>1, <2>2, Steady
  <2>8. TodoInv'
    <3>1. PICK s \in {0, 1} : Left(s) /\ (~ guessed => s = running)
      BY <1>2 DEF UpInv, TodoInv
    <3>2. Left(s)'
      BY <2>1, <2>7, <3>1, LeftSame
    <3>3. Fits(Head(todo))'
      BY <1>1, <2>1, <2>7
    <3> QED
      BY <1>2, <2>1, <3>1, <3>2, <3>3 DEF TodoInv
  <2>9. CountsInv'
    <3>1. U!Length(Head(todo))' = U!Length(h)
      BY <1>1, <2>1, <2>7
    <3>2. \A t \in U!Threads : th'[t].pc \in {"none", "end"}
      BY <1>2 DEF UpInv, CountsInv
    <3>3. g_written_size' + left_len' <= U!Length(Head(todo))'
      BY <1>2, <2>1, <2>3, <3>1
    <3> QED
      BY <2>1, <3>2, <3>3 DEF CountsInv
  <2>10. RomInv'
    <3>1. PastRom /\ pc' # "verify"
      BY <1>2, <2>1 DEF PastRom
    <3> QED
      BY <1>2, <3>1, KeepsRom DEF UpInv
  <2> QED
    BY <2>4, <2>5, <2>6, <2>8, <2>9, <2>10 DEF UpInv
<1> QED
  BY <1>3, <1>4

LEMMA BadPartitionStep == ASSUME UpInv, U!BadPartition PROVE UpInv'
<1>1. UpKinds'
  BY DEF UpInv, UpKinds, U!BadPartition, U!Keep, U!Fail, U!device
<1>2. UNCHANGED <<img, flash, running, guessed, th>> /\ pc = "next" /\ pc' = "failed"
  BY DEF U!BadPartition, U!Keep, U!Fail, U!device
<1> QED
  BY <1>1, <1>2, Idle

LEMMA DoneStep == ASSUME UpInv, U!Done PROVE UpInv'
<1>1. /\ pc = "next" /\ todo = <<>> /\ pc' = "done"
      /\ UNCHANGED <<img, flash, running, runs, guessed, faults, todo, left_len, g_written_size>>
      /\ UNCHANGED <<g_err, th>>
  BY DEF U!Done, U!Keep, U!device
<1>2. UpKinds'
  BY <1>1 DEF UpInv, UpKinds
<1>3. FlashInv'
  BY <1>1, KeepsFlash DEF UpInv, FlashInv
<1>4. BootInv'
  BY <1>1, KeepsBoot DEF UpInv, UpKinds
<1>5. TodoInv'
  <2>1. \A p \in Names : Ready(p)
    BY <1>1, LeftEmpty DEF UpInv, TodoInv
  <2>2. \A p \in Names : Ready(p)'
    BY <1>1, <2>1, Steady
  <2> QED
    BY <1>1, <2>2 DEF TodoInv
<1>6. CountsInv'
  BY <1>1 DEF UpInv, CountsInv
<1>7. RomInv'
  BY <1>1, KeepsRom DEF UpInv, PastRom
<1> QED
  BY <1>2, <1>3, <1>4, <1>5, <1>6, <1>7 DEF UpInv

LEMMA ChkCrcStep == ASSUME UpInv, U!ChkCrc PROVE UpInv'
<1>1. pc = "body" /\ UNCHANGED <<img, flash, running, guessed, th>>
  BY DEF U!ChkCrc, U!Checked, U!Keep, U!Fail, U!device
<1>2. UpKinds'
  BY DEF UpInv, UpKinds, U!ChkCrc, U!Checked, U!Keep, U!Fail, U!Fault, U!device
<1>3. CASE pc' = "failed"
  BY <1>1, <1>2, <1>3, Idle
<1>4. CASE pc' # "failed"
  <2>1. /\ pc' = IF Head(todo) = "rom" THEN "runsys" ELSE "next"
        /\ todo' = Tail(todo) /\ U!Same
    BY <1>4 DEF U!ChkCrc, U!Checked, U!Fail
  <2>2. todo # <<>> /\ Complete(Head(todo)) /\ (Head(todo) = "rom" <=> todo = <<"rom">>)
    <3>1. PICK h : h = Head(todo)
      OBVIOUS
    <3>2. todo # <<>> /\ Fits(h) /\ h \in U!Areas /\ Bounded
      BY <1>1, <3>1 DEF UpInv, TodoInv, FlashInv, Fits
    <3>3. h = "rom" => todo = <<"rom">>
      BY <1>1, <3>1, <3>2, LeftHead, SystemNames DEF UpInv, TodoInv
    <3>4. 1 .. U!Length(h) \subseteq flash[h] /\ flash[h] \subseteq 1 .. U!Length(h)
      BY <2>1, <3>1, <3>2 DEF U!Same, Bounded
    <3>5. flash[h] = 1 .. U!Length(h)
      BY <3>4
    <3>6. h = "rom" <=> todo = <<"rom">>
      BY <3>1, <3>3
    <3> QED
      BY <3>1, <3>2, <3>5, <3>6 DEF Complete
  <2>3. CASE todo = <<"rom">>
    <3>1. pc' = "runsys" /\ Complete("rom")
      BY <2>1, <2>2, <2>3
    <3>2. FlashInv' /\ BootInv'
      BY <1>1, KeepsFlash, KeepsBoot DEF UpInv, FlashInv, UpKinds
    <3>3. TodoInv' /\ CountsInv'
      BY <1>1, <3>1 DEF UpInv, TodoInv, CountsInv
    <3>4. RomInv'
      <4>1. Complete("rom")'
        BY <1>1, <3>1, Steady
      <4> QED
        BY <3>1, <4>1 DEF RomInv
    <3> QED
      BY <1>2, <3>2, <3>3, <3>4 DEF UpInv
  <2>4. CASE todo # <<"rom">>
    <3>1. Ready(Head(todo))
      BY <1>1, <2>2 DEF Ready, UpInv, TodoInv
    <3> QED
      BY <1>1, <1>2, <2>1, <2>2, <2>4, <3>1, Advance
  <2> QED
    BY <2>3, <2>4
<1> QED
  BY <1>3, <1>4

\* A system that boots is whole.
LEMMA BootsBoth == ASSUME NEW s \in {0, 1}, U!Boots(s) PROVE Both(s)
<1>1. U!gpt[s + 1] \in {"rom", "gpt0", "gpt1"}
  BY DEF U!gpt
<1> QED
  BY <1>1 DEF U!Boots, U!Untouched, U!Whole, Both

\* The program is started again.
LEMMA AgainStep == ASSUME UpInv, U!Again PROVE UpInv'
<1>1. /\ pc = "failed" /\ U!Verified /\ runs' = runs + 1 /\ pc' = "connect"
      /\ running' \in {running} \cup {s \in {0, 1} : U!Boots(s)}
      /\ g_err' = FALSE /\ th' = [t \in U!Threads |-> U!None]
      /\ UNCHANGED <<img, flash, guessed, faults, left_len, g_written_size>>
  BY DEF U!Again, U!Systems
<1>2. U!None \in Place /\ U!None.pc = "none"
  BY DEF U!None, Place
<1>3. UpKinds'
  <2>1. th' \in [U!Threads -> Place]
    BY <1>1, <1>2
  <2>2. running' \in {0, 1}
    BY <1>1 DEF UpInv, UpKinds
  <2>3. runs' \in Nat /\ g_err' \in BOOLEAN
    <3>1. runs' \in Nat
      BY <1>1 DEF UpInv, UpKinds
    <3>2. g_err' \in BOOLEAN
      BY <1>1, Zenon
    <3> QED
      BY <3>1, <3>2
  <2>4. /\ img' \in Images /\ guessed' \in BOOLEAN /\ faults' \in Nat
        /\ left_len' \in Nat /\ g_written_size' \in Nat
    BY <1>1 DEF UpInv, UpKinds
  <2>5. pc' \in {"verify", "connect", "runsys", "next", "body", "wait", "done", "failed"}
    BY <1>1
  <2> QED
    BY <2>1, <2>2, <2>3, <2>4, <2>5 DEF UpKinds
<1>4. FlashInv'
  BY <1>1, KeepsFlash DEF UpInv, FlashInv
<1>5. TodoInv'
  BY <1>1 DEF TodoInv
<1>6. CountsInv'
  BY <1>1, <1>2 DEF CountsInv
<1>7. BootInv'
  <2>1. CASE running' = running
    BY <1>1, <2>1, KeepsBoot DEF UpInv, UpKinds
  <2>2. CASE U!Boots(running')
    <3>1. PICK s \in {0, 1} : s = running'
      BY <1>3 DEF UpKinds
    <3>2. Both(s)'
      <4>1. Both(s)
        BY <2>2, <3>1, BootsBoth
      <4> QED
        BY <1>1, <4>1, Steady
    <3> QED
      BY <3>1, <3>2 DEF BootInv
  <2> QED
    BY <1>1, <2>1, <2>2
<1>8. RomInv'
  BY <1>1 DEF RomInv, PastRom
<1> QED
  BY <1>3, <1>4, <1>5, <1>6, <1>7, <1>8 DEF UpInv

-----------------------------------------------------------------------------
(* Counting.                                                               *)
LEMMA Products ==
  /\ \A a \in Nat, b \in Nat \ {0} : (a \div b) \in Nat /\ (a \div b) * b <= a
  /\ \A a, b, c \in Nat : a <= b => a * c <= b * c
  /\ \A a, b, c \in Nat : a * (b * c) = (a * b) * c /\ a * b = b * a /\ a * b \in Nat
<1>1. ASSUME NEW a \in Nat, NEW b \in Nat \ {0} PROVE (a \div b) \in Nat /\ (a \div b) * b <= a
  BY <1>1, Z3
<1>2. ASSUME NEW a \in Nat, NEW b \in Nat, NEW c \in Nat, a <= b PROVE a * c <= b * c
  BY <1>2, Z3
<1>3. ASSUME NEW a \in Nat, NEW b \in Nat, NEW c \in Nat
      PROVE  a * (b * c) = (a * b) * c /\ a * b = b * a /\ a * b \in Nat
  BY <1>3, Z3
<1> QED
  BY <1>1, <1>2, <1>3

\* The threads together write no more than is left.
LEMMA Shares ==
  ASSUME UpInv
  PROVE  /\ U!ThreadNum \in Nat /\ U!BlockLen \in Nat
         /\ U!ThreadNum * U!BlockLen <= left_len
<1>1. PICK q : q = left_len \div Block
  OBVIOUS
<1>2. left_len \in Nat /\ Block \in Nat \ {0} /\ MaxThreads \in Nat \ {0}
  BY UpgradeSizes DEF UpInv, UpKinds
<1>3. q \in Nat /\ q * Block <= left_len
  BY <1>1, <1>2, Products
<1>4. CASE q > MaxThreads
  <2>1. PICK k : k = q \div MaxThreads
    OBVIOUS
  <2>2. k \in Nat /\ k * MaxThreads <= q
    BY <1>2, <1>3, <2>1, Products
  <2>3. U!ThreadNum = MaxThreads /\ U!BlockLen = k * Block
    BY <1>1, <1>4, <2>1 DEF U!ThreadNum, U!BlockLen
  <2>4. /\ MaxThreads * (k * Block) = (MaxThreads * k) * Block
        /\ MaxThreads * k = k * MaxThreads /\ k * MaxThreads \in Nat /\ k * Block \in Nat
    BY <1>2, <2>2, Products
  <2>5. (k * MaxThreads) * Block <= q * Block
    BY <1>2, <1>3, <2>2, <2>4, Products
  <2>6. PICK x, y \in Int : x = (k * MaxThreads) * Block /\ y = q * Block
    BY <1>2, <1>3, <2>2, <2>4, Products
  <2>7. x <= left_len
    BY <1>2, <1>3, <2>5, <2>6
  <2> QED
    BY <1>2, <2>3, <2>4, <2>6, <2>7
<1>5. CASE ~ (q > MaxThreads)
  BY <1>1, <1>2, <1>3, <1>5 DEF U!ThreadNum, U!BlockLen
<1> QED
  BY <1>4, <1>5

\* The k-th share, from g on.
LEMMA ShareBounds ==
  ASSUME NEW g \in Nat, NEW b \in Nat, NEW k \in Nat \ {0}, NEW n \in Nat, k <= n
  PROVE  /\ g + (k - 1) * b \in Nat
         /\ U!Units(g + (k - 1) * b, b) = (g + (k - 1) * b + 1) .. (g + k * b)
         /\ k * b \in Nat /\ n * b \in Nat /\ k * b <= n * b
<1>1. PICK x, y, z \in Nat : x = (k - 1) * b /\ y = k * b /\ z = n * b
  BY Products
<1>2. y = x + b
  BY <1>1, Z3
<1>3. y <= z
  BY <1>1, Products
<1> QED
  BY <1>1, <1>2, <1>3 DEF U!Units

LEMMA FiniteUpTo ==
  ASSUME NEW a \in Int, NEW b \in Int, NEW X, X \subseteq a .. b
  PROVE  /\ IsFiniteSet(X) /\ Cardinality(X) \in Nat
         /\ \A n \in Nat : b + 1 - a <= n => Cardinality(X) <= n
<1>1. IsFiniteSet(a .. b) /\ Cardinality(a .. b) = IF a > b THEN 0 ELSE b - a + 1
  BY FS_Interval
<1>2. IsFiniteSet(X) /\ Cardinality(X) <= Cardinality(a .. b)
  BY <1>1, FS_Subset
<1>3. Cardinality(X) \in Nat
  BY <1>2, FS_CardinalityType
<1> QED
  BY <1>1, <1>2, <1>3

LEMMA TransmitStep == ASSUME UpInv, U!Sound, U!Transmit PROVE UpInv'
<1>1. PICK g, b, m, l : g = g_written_size /\ b = U!BlockLen /\ m = U!ThreadNum /\ l = left_len
  OBVIOUS
<1>2. /\ pc = "body" /\ pc' = "wait" /\ left_len' = l - b * m
      /\ UNCHANGED <<img, flash, running, runs, guessed, todo, g_written_size>>
  BY <1>1 DEF U!Transmit, U!device
<1>3. PICK n \in 0 .. m :
        /\ g_err' \in BOOLEAN /\ faults' \in {faults, faults + 1}
        /\ th' = [t \in U!Threads |-> IF t > n THEN U!None
                    ELSE [U!None EXCEPT !.pc = "check", !.at = g + (t - 1) * b, !.i = b]]
  BY <1>1 DEF U!Transmit, U!Fault
<1>4. /\ g \in Nat /\ b \in Nat /\ m \in Nat /\ l \in Nat /\ m * b <= l /\ b * m = m * b
      /\ m * b \in Nat /\ n \in Nat /\ n <= m
  <2>1. b \in Nat /\ m \in Nat /\ m * b <= l /\ g \in Nat /\ l \in Nat
    BY <1>1, Shares DEF UpInv, UpKinds
  <2> QED
    BY <2>1, Products
<1>5. PICK L : L = U!Length(Head(todo))
  OBVIOUS
<1>6. /\ L \in Nat /\ g + l <= L /\ todo # <<>> /\ Fits(Head(todo))
      /\ L = U!Length(Head(todo))' /\ Fits(Head(todo))'
  <2>1. todo # <<>> /\ Fits(Head(todo)) /\ g + l <= L
    BY <1>1, <1>2, <1>5 DEF UpInv, TodoInv, CountsInv
  <2>2. PICK h : h = Head(todo) /\ h = Head(todo')
    BY <1>2
  <2>3. U!Length(h)' = U!Length(h) /\ (Fits(h)' <=> Fits(h))
    BY <1>2, Steady
  <2>4. L \in Nat
    BY <1>5, <2>1, LengthKind DEF UpInv
  <2> QED
    BY <1>5, <2>1, <2>2, <2>3, <2>4
<1>7. ASSUME NEW t \in U!Threads
      PROVE  /\ th'[t] \in Place /\ th'[t].pc \in {"none", "check"} /\ t \in Nat \ {0}
             /\ t > n => Ahead(t)' = {}
             /\ t <= n => Ahead(t)' = (g + (t - 1) * b + 1) .. (g + t * b)
  <2>1. t \in Nat \ {0}
    BY UpgradeSizes DEF U!Threads
  <2>2. CASE t > n
    <3>1. th'[t] = [pc |-> "none", at |-> 0, i |-> 0, tries |-> 0, seen |-> 0]
      BY <1>3, <2>2 DEF U!None
    <3>2. Ahead(t)' = (0 + 1) .. (0 + 0)
      BY <3>1 DEF Ahead, U!Units
    <3> QED
      BY <1>4, <2>1, <2>2, <3>1, <3>2 DEF Place
  <2>3. CASE ~ (t > n)
    <3>1. PICK x : x = g + (t - 1) * b
      OBVIOUS
    <3>2. th'[t] = [pc |-> "check", at |-> x, i |-> b, tries |-> 0, seen |-> 0]
      BY <1>3, <2>3, <3>1 DEF U!None
    <3>3. t <= n
      BY <1>4, <2>1, <2>3
    <3>4. x \in Nat /\ U!Units(x, b) = (g + (t - 1) * b + 1) .. (g + t * b)
      BY <1>4, <2>1, <3>1, <3>3, ShareBounds
    <3>5. Ahead(t)' = U!Units(x, b)
      BY <3>2 DEF Ahead
    <3>6. th'[t] \in Place
      BY <1>4, <3>2, <3>4 DEF Place
    <3> QED
      BY <1>4, <2>1, <2>3, <3>2, <3>3, <3>4, <3>5, <3>6
  <2> QED
    BY <2>2, <2>3
<1>8. ASSUME NEW t \in U!Threads PROVE Ahead(t)' \subseteq (g + 1) .. (g + m * b)
  <2>1. CASE t > n
    BY <1>7, <2>1
  <2>2. CASE ~ (t > n)
    <3>1. t \in Nat \ {0} /\ t <= m
      BY <1>4, <1>7, <2>2
    <3>2. PICK x, y \in Nat : x = g + (t - 1) * b /\ y = t * b /\ y <= m * b /\ x >= g
      <4>1. (t - 1) * b \in Nat
        BY <1>4, <3>1, Products
      <4>2. PICK z \in Nat : z = (t - 1) * b
        BY <4>1
      <4> QED
        BY <1>4, <3>1, <4>2, ShareBounds
    <3>3. Ahead(t)' = (x + 1) .. (g + y)
      BY <1>4, <1>7, <2>2, <3>1, <3>2
    <3>4. PICK z, k \in Nat : z = m * b /\ k = g /\ y <= z /\ x >= k
      BY <1>4, <3>2
    <3>5. (x + 1) .. (k + y) \subseteq (k + 1) .. (k + z)
      BY <3>4
    <3>6. Ahead(t)' = (x + 1) .. (k + y)
      BY <3>3, <3>4, Zenon
    <3>7. (g + 1) .. (g + m * b) = (k + 1) .. (k + z)
      BY <3>4, Zenon
    <3> QED
      BY <3>5, <3>6, <3>7, Zenon
  <2> QED
    BY <2>1, <2>2
<1>9. ASSUME NEW t \in U!Threads, NEW u \in U!Threads, t < u PROVE Ahead(t)' \cap Ahead(u)' = {}
  <2>1. CASE u > n
    BY <1>7, <2>1
  <2>2. CASE ~ (u > n)
    <3>1. t \in Nat \ {0} /\ u \in Nat \ {0} /\ t <= u - 1 /\ t <= n /\ u <= n /\ u - 1 \in Nat
      BY <1>4, <1>7, <1>9, <2>2
    <3>2. t * b <= (u - 1) * b
      BY <1>4, <3>1, Products
    <3>3. PICK x, y, z, v \in Nat : /\ x = (t - 1) * b /\ y = t * b
                                    /\ z = (u - 1) * b /\ v = u * b
      BY <1>4, <3>1, Products
    <3>4. Ahead(t)' = (g + x + 1) .. (g + y) /\ Ahead(u)' = (g + z + 1) .. (g + v)
      BY <1>7, <3>1, <3>3
    <3>5. y <= z
      BY <3>2, <3>3
    <3>6. PICK k \in Nat : k = g
      BY <1>4
    <3>7. Ahead(t)' = (k + x + 1) .. (k + y) /\ Ahead(u)' = (k + z + 1) .. (k + v)
      BY <3>4, <3>6, Zenon
    <3>8. (k + x + 1) .. (k + y) \cap (k + z + 1) .. (k + v) = {}
      BY <3>5
    <3> QED
      BY <3>7, <3>8, Zenon
  <2> QED
    BY <2>1, <2>2
<1>10. CountsInv'
  <2>1. PICK z \in Nat : z = m * b
    BY <1>4
  <2>2. g_written_size' = g /\ left_len' = l - z /\ z <= l
    BY <1>1, <1>2, <1>4, <2>1
  <2>3. Remaining' \subseteq (g + 1) .. (g + z)
    BY <1>8, <2>1 DEF Remaining
  <2>4. PICK c \in Nat : c = Cardinality(Remaining)' /\ c <= z
    <3>1. PICK k \in Nat : k = g
      BY <1>4
    <3>2. k + 1 \in Int /\ k + z \in Int /\ (k + z) + 1 - (k + 1) <= z
      OBVIOUS
    <3>3. PICK R : R = Remaining' /\ R \subseteq (k + 1) .. (k + z)
      BY <2>3, <3>1
    <3>4. Cardinality(R) \in Nat /\ Cardinality(R) <= z
      BY <3>2, <3>3, FiniteUpTo
    <3> QED
      BY <3>3, <3>4
  <2>5. g_written_size' + Cardinality(Remaining)' + left_len' <= U!Length(Head(todo))'
    BY <1>4, <1>6, <2>1, <2>2, <2>4
  <2>6. \A t \in U!Threads : Ahead(t)' \subseteq 1 .. L
    <3>1. (g + 1) .. (g + z) \subseteq 1 .. L
      BY <1>4, <1>6, <2>1, <2>2
    <3> QED
      BY <1>8, <2>1, <3>1
  <2>7. \A t, u \in U!Threads : t # u => Ahead(t)' \cap Ahead(u)' = {}
    <3>1. \A t, u \in U!Threads : t # u => t < u \/ u < t
      BY <1>7
    <3> QED
      BY <1>9, <3>1
  <2>8. \A t \in U!Threads : th'[t].pc # "store"
    BY <1>7
  <2>9. pc' = "wait" /\ L = U!Length(Head(todo))'
    BY <1>2, <1>6
  <2> QED
    BY <2>5, <2>6, <2>7, <2>8, <2>9 DEF CountsInv
<1>11. UpKinds'
  <2>1. left_len' \in Nat
    BY <1>2, <1>4
  <2>2. th' \in [U!Threads -> Place]
    BY <1>3, <1>7
  <2>3. g_err' \in BOOLEAN
    BY <1>3
  <2>4. faults' \in Nat
    <3>1. faults \in Nat
      BY DEF UpInv, UpKinds
    <3>2. faults' = faults \/ faults' = faults + 1
      BY <1>3, Zenon
    <3> QED
      BY <3>1, <3>2
  <2>5. UNCHANGED <<img, running, runs, guessed, g_written_size>> /\ pc' = "wait"
    BY <1>2
  <2> QED
    BY <2>1, <2>2, <2>3, <2>4, <2>5 DEF UpInv, UpKinds
<1>12. FlashInv'
  BY <1>2, KeepsFlash DEF UpInv, FlashInv
<1>13. BootInv'
  BY <1>2, KeepsBoot DEF UpInv, UpKinds
<1>14. TodoInv'
  <2>1. CASE todo = <<"rom">>
    BY <1>2, <1>6, <2>1 DEF TodoInv
  <2>2. ASSUME NEW s \in {0, 1}, Left(s), ~ guessed => s = running PROVE TodoInv'
    <3>1. Left(s)'
      BY <1>2, <2>2, LeftSame, Steady
    <3> QED
      BY <1>2, <1>6, <2>2, <3>1 DEF TodoInv
  <2> QED
    BY <1>2, <2>1, <2>2 DEF UpInv, TodoInv
<1>15. RomInv'
  BY <1>2, KeepsRom DEF UpInv, PastRom
<1> QED
  BY <1>10, <1>11, <1>12, <1>13, <1>14, <1>15 DEF UpInv

\* What follows for a step that goes on with the same area.
LEMMA SameTurn ==
  ASSUME UpInv, pc \in {"body", "wait"}, UNCHANGED <<img, running, guessed, todo>>,
         \A p \in Names : Ready(p) => Ready(p)', pc' \in {"body", "wait", "failed"}
  PROVE  TodoInv'
<1>1. PICK h : h = Head(todo) /\ h = Head(todo')
  OBVIOUS
<1>2. Fits(h) /\ todo # <<>>
  BY <1>1 DEF UpInv, TodoInv
<1>3. Fits(h)'
  BY <1>2, SameImage
<1>4. CASE todo = <<"rom">>
  BY <1>1, <1>2, <1>3, <1>4 DEF TodoInv
<1>5. ASSUME NEW s \in {0, 1}, Left(s), ~ guessed => s = running PROVE TodoInv'
  <2>1. Left(s)'
    BY <1>5, LeftSame
  <2> QED
    BY <1>1, <1>2, <1>3, <1>5, <2>1 DEF TodoInv
<1> QED
  BY <1>4, <1>5 DEF UpInv, TodoInv

\* The length of the partition is the same then.
LEMMA TurnLength ==
  ASSUME UpInv, U!Sound, pc \in {"body", "wait"}, UNCHANGED <<img, todo>>
  PROVE  U!Length(Head(todo))' = U!Length(Head(todo)) /\ U!Length(Head(todo)) \in Nat
<1>1. PICK h : h = Head(todo) /\ h = Head(todo')
  OBVIOUS
<1>2. U!Length(h)' = U!Length(h)
  BY SameImage
<1>3. Fits(h)
  BY <1>1 DEF UpInv, TodoInv
<1>4. U!Length(h) \in Nat
  BY <1>3, LengthKind DEF UpInv
<1> QED
  BY <1>1, <1>2, <1>4

LEMMA RemainingKind ==
  ASSUME UpInv, U!Sound, pc = "wait"
  PROVE  IsFiniteSet(Remaining) /\ Cardinality(Remaining) \in Nat
<1>1. PICK n \in Nat : n = U!Length(Head(todo))
  BY LengthKind DEF UpInv, TodoInv
<1>2. Remaining \subseteq 1 .. n
  BY <1>1 DEF UpInv, CountsInv, Remaining
<1>3. 1 \in Int /\ n \in Int
  OBVIOUS
<1> QED
  BY <1>2, <1>3, FiniteUpTo

LEMMA TransmittedStep == ASSUME UpInv, U!Sound, U!Transmitted PROVE UpInv'
<1>1. /\ pc = "wait" /\ pc' \in {"failed", "body"}
      /\ \A t \in U!Threads : th[t].pc \in {"none", "end"}
      /\ UNCHANGED <<img, flash, running, runs, guessed, faults, todo, left_len, g_written_size>>
      /\ UNCHANGED <<g_err, th>>
  BY DEF U!Transmitted, U!Keep, U!device
<1>2. UpKinds'
  BY <1>1 DEF UpInv, UpKinds
<1>3. FlashInv'
  BY <1>1, KeepsFlash DEF UpInv, FlashInv
<1>4. BootInv'
  BY <1>1, KeepsBoot DEF UpInv, UpKinds
<1>5. TodoInv'
  BY <1>1, SameTurn, Steady
<1>6. CountsInv'
  <2>1. PICK g, c, l, n \in Nat : /\ g = g_written_size /\ c = Cardinality(Remaining)
                                  /\ l = left_len /\ n = U!Length(Head(todo))
    BY <1>1, TurnLength, RemainingKind DEF UpInv, UpKinds
  <2>2. g + c + l <= n
    BY <1>1, <2>1 DEF UpInv, CountsInv
  <2>3. g_written_size' + left_len' <= U!Length(Head(todo))'
    BY <1>1, <2>1, <2>2, TurnLength
  <2> QED
    BY <1>1, <2>3 DEF CountsInv
<1>7. RomInv'
  BY <1>1, KeepsRom DEF UpInv, PastRom
<1> QED
  BY <1>2, <1>3, <1>4, <1>5, <1>6, <1>7 DEF UpInv

LEMMA SmallerKind == ASSUME NEW n \in Nat PROVE U!Smaller(n) \in Nat /\ U!Smaller(n) <= n
<1> QED
  BY UpgradeSizes DEF U!Smaller

LEMMA RestStep == ASSUME UpInv, U!Sound, U!Rest PROVE UpInv'
<1>1. PICK g, l, n, s : /\ g = g_written_size /\ l = left_len /\ n = U!Length(Head(todo))
                        /\ s = U!Smaller(left_len)
  OBVIOUS
<1>2. /\ pc = "body" /\ UNCHANGED <<img, running, runs, guessed, todo, g_err, th>>
      /\ \/ U!Written(U!Units(g, s))
         \/ flash' = flash /\ pc' = "failed"
      /\ \/ /\ pc' = "body" /\ g_written_size' = g + s /\ left_len' = l - s /\ faults' = faults
         \/ /\ pc' = "failed" /\ UNCHANGED <<g_written_size, left_len>>
            /\ faults' = faults + RetryTimes + 1
  BY <1>1 DEF U!Rest, U!device
<1>3. /\ g \in Nat /\ l \in Nat /\ n \in Nat /\ s \in Nat /\ s <= l /\ g + l <= n
      /\ U!Length(Head(todo))' = n
  <2>1. g \in Nat /\ l \in Nat /\ g + l <= n
    BY <1>1, <1>2 DEF UpInv, UpKinds, CountsInv
  <2>2. n \in Nat /\ U!Length(Head(todo))' = n
    BY <1>1, <1>2, TurnLength
  <2> QED
    BY <1>1, <2>1, <2>2, SmallerKind
<1>4. /\ Bounded' /\ U!Verified' /\ RomInv'
      /\ \A p \in Names : Ready(p) => Ready(p)'
      /\ \A p \in Names : p # Head(todo) => flash'[p] = flash[p]
  <2>1. CASE U!Written(U!Units(g, s))
    <3>1. U!Units(g, s) \subseteq 1 .. U!Length(Head(todo))
      BY <1>1, <1>3 DEF U!Units
    <3> QED
      BY <1>2, <2>1, <3>1, Writes
  <2>2. CASE flash' = flash
    BY <1>2, <2>2, Steady, KeepsRom DEF UpInv, FlashInv, Bounded, PastRom
  <2> QED
    BY <1>2, <2>1, <2>2
<1>5. UpKinds'
  <2>1. faults' \in Nat /\ left_len' \in Nat /\ g_written_size' \in Nat
    BY <1>1, <1>2, <1>3, UpgradeSizes DEF UpInv, UpKinds
  <2> QED
    BY <1>2, <2>1 DEF UpInv, UpKinds
<1>6. FlashInv'
  BY <1>4 DEF FlashInv
<1>7. BootInv'
  BY <1>2, <1>4, WritesBoot
<1>8. TodoInv'
  BY <1>2, <1>4, SameTurn
<1>9. CountsInv'
  <2>1. \A t \in U!Threads : th'[t].pc \in {"none", "end"}
    BY <1>2 DEF UpInv, CountsInv
  <2>2. pc' = "body" => g_written_size' + left_len' <= U!Length(Head(todo))'
    BY <1>2, <1>3
  <2> QED
    BY <1>2, <2>1, <2>2 DEF CountsInv
<1> QED
  BY <1>4, <1>5, <1>6, <1>7, <1>8, <1>9 DEF UpInv

-----------------------------------------------------------------------------
(* The steps of a thread.                                                  *)
LEMMA Waiting ==
  ASSUME UpInv, NEW t \in U!Threads, th[t].pc \in {"check", "write", "load", "store"}
  PROVE  pc = "wait"
<1> QED
  BY DEF UpInv, CountsInv

\* A step that leaves what the thread is to write.
LEMMA SameShare ==
  ASSUME UpInv, U!Sound, pc = "wait", NEW t \in U!Threads, NEW d \in Place,
         th' = [th EXCEPT ![t] = d], d.at = th[t].at, d.i = th[t].i,
         d.pc = "store" => d.seen = g_written_size,
         UNCHANGED <<img, pc, todo, left_len, g_written_size>>
  PROVE  CountsInv' /\ th' \in [U!Threads -> Place]
<1>1. th \in [U!Threads -> Place]
  BY DEF UpInv, UpKinds
<1>2. th'[t] = d /\ \A u \in U!Threads : u # t => th'[u] = th[u]
  BY <1>1
<1>3. \A u \in U!Threads : Ahead(u)' = Ahead(u)
  BY <1>2 DEF Ahead, U!Units
<1>4. Remaining' = Remaining
  BY <1>3 DEF Remaining
<1>5. U!Length(Head(todo))' = U!Length(Head(todo))
  BY TurnLength
<1>6. ASSUME NEW u \in U!Threads, th'[u].pc = "store"
      PROVE  th'[u].seen + Cardinality(Remaining) + left_len <= U!Length(Head(todo))
  BY <1>2, <1>6 DEF UpInv, CountsInv
<1>7. /\ \A u \in U!Threads : Ahead(u) \subseteq 1 .. U!Length(Head(todo))
      /\ \A u, v \in U!Threads : u # v => Ahead(u) \cap Ahead(v) = {}
      /\ g_written_size + Cardinality(Remaining) + left_len <= U!Length(Head(todo))
  BY DEF UpInv, CountsInv
<1>8. th' \in [U!Threads -> Place]
  BY <1>1
<1> QED
  BY <1>3, <1>4, <1>5, <1>6, <1>7, <1>8 DEF CountsInv

\* A step of a thread that writes nothing.
LEMMA ThreadIdle ==
  ASSUME UpInv, pc = "wait", CountsInv', th' \in [U!Threads -> Place], g_err' \in BOOLEAN,
         faults' \in Nat, g_written_size' \in Nat,
         UNCHANGED <<img, flash, running, runs, guessed, pc, todo, left_len>>
  PROVE  UpInv'
<1>1. UpKinds'
  BY DEF UpInv, UpKinds
<1>2. FlashInv'
  BY KeepsFlash DEF UpInv, FlashInv
<1>3. BootInv'
  BY KeepsBoot DEF UpInv, UpKinds
<1>4. TodoInv'
  BY SameTurn, Steady
<1>5. RomInv'
  BY KeepsRom DEF UpInv, PastRom
<1> QED
  BY <1>1, <1>2, <1>3, <1>4, <1>5 DEF UpInv

\* A step of a thread that writes what it is to write next.
LEMMA ThreadWrites ==
  ASSUME UpInv, U!Sound, pc = "wait", NEW t \in U!Threads,
         U!Written(U!Units(th[t].at, U!Smaller(th[t].i))),
         CountsInv', th' \in [U!Threads -> Place], g_err' \in BOOLEAN, faults' \in Nat,
         UNCHANGED <<img, running, runs, guessed, pc, todo, left_len, g_written_size>>
  PROVE  UpInv'
<1>1. UpKinds'
  BY DEF UpInv, UpKinds
<1>2. U!Units(th[t].at, U!Smaller(th[t].i)) \subseteq 1 .. U!Length(Head(todo))
  <2>1. PICK a, i \in Nat : a = th[t].at /\ i = th[t].i
    BY DEF UpInv, UpKinds, Place
  <2>2. PICK s \in Nat : s = U!Smaller(i) /\ s <= i
    BY SmallerKind
  <2>3. (a + 1) .. (a + s) \subseteq (a + 1) .. (a + i)
    BY <2>2
  <2>4. Ahead(t) = (a + 1) .. (a + i)
    BY <2>1 DEF Ahead, U!Units
  <2>5. Ahead(t) \subseteq 1 .. U!Length(Head(todo))
    BY DEF UpInv, CountsInv
  <2>6. U!Units(th[t].at, U!Smaller(th[t].i)) = (a + 1) .. (a + s)
    BY <2>1, <2>2 DEF U!Units
  <2> QED
    BY <2>3, <2>4, <2>5, <2>6
<1>3. /\ Bounded' /\ U!Verified' /\ RomInv'
      /\ \A p \in Names : Ready(p) => Ready(p)'
      /\ \A p \in Names : p # Head(todo) => flash'[p] = flash[p]
  BY <1>2, Writes
<1>4. FlashInv'
  BY <1>3 DEF FlashInv
<1>5. BootInv'
  BY <1>3, WritesBoot
<1>6. TodoInv'
  BY <1>3, SameTurn
<1> QED
  BY <1>1, <1>3, <1>4, <1>5, <1>6 DEF UpInv

LEMMA TCheckStep == ASSUME UpInv, U!Sound, NEW t \in U!Threads, U!TCheck(t) PROVE UpInv'
<1>1. PICK d : d = [th[t] EXCEPT !.pc = IF g_err \/ th[t].i = 0 THEN "end" ELSE "write",
                                 !.tries = 0]
  OBVIOUS
<1>2. /\ th' = [th EXCEPT ![t] = d] /\ th[t].pc = "check"
      /\ UNCHANGED <<img, running, runs, guessed, pc, todo, left_len>>
      /\ UNCHANGED <<flash, faults, g_written_size, g_err>>
  BY <1>1 DEF U!TCheck, U!T, U!Goes, U!Mine, U!device
<1>3. th[t] \in Place /\ faults \in Nat /\ g_written_size \in Nat /\ g_err \in BOOLEAN
  BY DEF UpInv, UpKinds
<1>4. d \in Place /\ d.at = th[t].at /\ d.i = th[t].i /\ d.pc # "store"
  BY <1>1, <1>3 DEF Place
<1>5. pc = "wait"
  BY <1>2, Waiting
<1>6. CountsInv' /\ th' \in [U!Threads -> Place]
  BY <1>2, <1>4, <1>5, SameShare
<1> QED
  BY <1>2, <1>3, <1>5, <1>6, ThreadIdle

LEMMA TWriteStep == ASSUME UpInv, U!Sound, NEW t \in U!Threads, U!TWrite(t) PROVE UpInv'
<1>1. PICK d : d = [th[t] EXCEPT !.pc = "load"]
  OBVIOUS
<1>2. /\ th' = [th EXCEPT ![t] = d] /\ th[t].pc = "write"
      /\ U!Written(U!Units(th[t].at, U!Smaller(th[t].i)))
      /\ UNCHANGED <<img, running, runs, guessed, pc, todo, left_len>>
      /\ UNCHANGED <<faults, g_written_size, g_err>>
  BY <1>1 DEF U!TWrite, U!T, U!Goes, U!Mine, U!device
<1>3. th[t] \in Place /\ faults \in Nat /\ g_written_size \in Nat /\ g_err \in BOOLEAN
  BY DEF UpInv, UpKinds
<1>4. d \in Place /\ d.at = th[t].at /\ d.i = th[t].i /\ d.pc # "store"
  BY <1>1, <1>3 DEF Place
<1>5. pc = "wait"
  BY <1>2, Waiting
<1>6. CountsInv' /\ th' \in [U!Threads -> Place]
  BY <1>2, <1>4, <1>5, SameShare
<1> QED
  BY <1>2, <1>3, <1>5, <1>6, ThreadWrites

LEMMA TLoadStep == ASSUME UpInv, U!Sound, NEW t \in U!Threads, U!TLoad(t) PROVE UpInv'
<1>1. PICK d : d = [th[t] EXCEPT !.pc = "store", !.seen = g_written_size]
  OBVIOUS
<1>2. /\ th' = [th EXCEPT ![t] = d] /\ th[t].pc = "load"
      /\ UNCHANGED <<img, running, runs, guessed, pc, todo, left_len>>
      /\ UNCHANGED <<flash, faults, g_written_size, g_err>>
  BY <1>1 DEF U!TLoad, U!T, U!Goes, U!Mine, U!device
<1>3. th[t] \in Place /\ faults \in Nat /\ g_written_size \in Nat /\ g_err \in BOOLEAN
  BY DEF UpInv, UpKinds
<1>4. d \in Place /\ d.at = th[t].at /\ d.i = th[t].i /\ d.seen = g_written_size
  BY <1>1, <1>3 DEF Place
<1>5. pc = "wait"
  BY <1>2, Waiting
<1>6. CountsInv' /\ th' \in [U!Threads -> Place]
  BY <1>2, <1>4, <1>5, SameShare
<1> QED
  BY <1>2, <1>3, <1>5, <1>6, ThreadIdle

LEMMA TFaultStep == ASSUME UpInv, U!Sound, NEW t \in U!Threads, U!TFault(t) PROVE UpInv'
<1>1. PICK d : d = [th[t] EXCEPT !.tries = IF @ = RetryTimes THEN 0 ELSE @ + 1,
                                 !.pc = IF th[t].tries = RetryTimes THEN "end" ELSE @]
  OBVIOUS
<1>2. /\ th' = [th EXCEPT ![t] = d] /\ th[t].pc = "write" /\ faults' = faults + 1
      /\ \/ U!Written(U!Units(th[t].at, U!Smaller(th[t].i)))
         \/ flash' = flash
      /\ UNCHANGED <<img, running, runs, guessed, pc, todo, left_len, g_written_size>>
      /\ g_err' = (g_err \/ th[t].tries = RetryTimes)
  BY <1>1 DEF U!TFault, U!T, U!Goes, U!Mine, U!device, U!Fault
<1>3. th[t] \in Place /\ faults \in Nat /\ g_written_size \in Nat /\ g_err \in BOOLEAN
  BY DEF UpInv, UpKinds
<1>4. d \in Place /\ d.at = th[t].at /\ d.i = th[t].i /\ d.pc # "store"
  <2>1. PICK n, p : /\ n = IF th[t].tries = RetryTimes THEN 0 ELSE th[t].tries + 1
                    /\ p = IF th[t].tries = RetryTimes THEN "end" ELSE th[t].pc
    OBVIOUS
  <2>2. n \in Nat /\ p \in {"end", "write"}
    BY <1>2, <1>3, <2>1 DEF Place
  <2>3. d = [th[t] EXCEPT !.tries = n, !.pc = p]
    BY <1>1, <1>3, <2>1 DEF Place
  <2> QED
    BY <1>3, <2>2, <2>3 DEF Place
<1>5. pc = "wait"
  BY <1>2, Waiting
<1>6. CountsInv' /\ th' \in [U!Threads -> Place]
  BY <1>2, <1>4, <1>5, SameShare
<1>7. g_err' \in BOOLEAN /\ faults' \in Nat
  BY <1>2, <1>3
<1>8. CASE flash' = flash
  BY <1>2, <1>3, <1>5, <1>6, <1>7, <1>8, ThreadIdle
<1>9. CASE U!Written(U!Units(th[t].at, U!Smaller(th[t].i)))
  BY <1>2, <1>5, <1>6, <1>7, <1>9, ThreadWrites
<1> QED
  BY <1>2, <1>8, <1>9

\* What a thread counts is no more among what remains, whichever count it
\* saw: that count was taken before.
LEMMA TStoreStep == ASSUME UpInv, U!Sound, NEW t \in U!Threads, U!TStore(t) PROVE UpInv'
<1>1. th[t] \in Place /\ g_err \in BOOLEAN /\ faults \in Nat /\ th \in [U!Threads -> Place]
  BY DEF UpInv, UpKinds
<1>2. PICK a, i, e \in Nat : a = th[t].at /\ i = th[t].i /\ e = th[t].seen
  BY <1>1 DEF Place
<1>3. PICK n \in Nat : n = U!Smaller(i) /\ n <= i
  BY SmallerKind
<1>4. PICK d : d = [th[t] EXCEPT !.pc = "check", !.at = a + n, !.i = i - n, !.seen = 0]
  OBVIOUS
<1>5. /\ th' = [th EXCEPT ![t] = d] /\ th[t].pc = "store" /\ g_written_size' = e + n
      /\ UNCHANGED <<img, running, runs, guessed, pc, todo, left_len, flash, faults, g_err>>
  <2>1. d = [th[t] EXCEPT !.pc = "check", !.at = @ + n, !.i = @ - n, !.seen = 0]
    BY <1>1, <1>2, <1>4 DEF Place
  <2> QED
    BY <1>2, <1>3, <2>1 DEF U!TStore, U!T, U!Goes, U!Mine, U!device
<1>6. d \in Place /\ d.at = a + n /\ d.i = i - n /\ d.pc = "check"
  <2>1. i - n \in Nat /\ a + n \in Nat
    BY <1>3
  <2> QED
    BY <1>1, <1>4, <2>1 DEF Place
<1>7. pc = "wait"
  BY <1>5, Waiting
<1>8. th'[t] = d /\ \A u \in U!Threads : u # t => th'[u] = th[u]
  BY <1>1, <1>5
<1>9. PICK X, A, B : X = U!Units(a, n) /\ A = Ahead(t) /\ B = U!Units(a + n, i - n)
  OBVIOUS
<1>10. X = (a + 1) .. (a + n) /\ A = (a + 1) .. (a + i) /\ B = (a + n + 1) .. (a + i)
  <2>1. (a + n) + (i - n) = a + i
    BY <1>3
  <2> QED
    BY <1>2, <1>9, <2>1 DEF Ahead, U!Units
<1>11. X \subseteq A /\ B \subseteq A /\ X \cap B = {}
  BY <1>3, <1>10
<1>12. Ahead(t)' = B /\ \A u \in U!Threads : u # t => Ahead(u)' = Ahead(u)
  BY <1>6, <1>8, <1>9 DEF Ahead
<1>13. /\ \A u \in U!Threads : Ahead(u) \subseteq 1 .. U!Length(Head(todo))
       /\ \A u, v \in U!Threads : u # v => Ahead(u) \cap Ahead(v) = {}
  BY <1>7 DEF UpInv, CountsInv
<1>14. /\ \A u \in U!Threads : Ahead(u)' \subseteq Ahead(u)
       /\ \A u \in U!Threads : Ahead(u)' \cap X = {}
  BY <1>9, <1>11, <1>12, <1>13
<1>15. PICK R, Q : R = Remaining /\ Q = Remaining'
  OBVIOUS
<1>16. Q \subseteq R /\ X \subseteq R /\ Q \cap X = {}
  BY <1>9, <1>11, <1>14, <1>15 DEF Remaining
<1>17. PICK c, k \in Nat : c = Cardinality(R) /\ k = Cardinality(Q) /\ k + n <= c
  <2>1. IsFiniteSet(R) /\ Cardinality(R) \in Nat
    BY <1>7, <1>15, RemainingKind
  <2>2. IsFiniteSet(Q) /\ IsFiniteSet(X) /\ Cardinality(Q) \in Nat
    BY <1>16, <2>1, FS_Subset, FS_CardinalityType
  <2>3. Cardinality(X) = n
    <3>1. a + 1 \in Int /\ a + n \in Int
      OBVIOUS
    <3>2. Cardinality(X) = IF a + 1 > a + n THEN 0 ELSE a + n - (a + 1) + 1
      BY <1>10, <3>1, FS_Interval
    <3> QED
      BY <3>2
  <2>4. Cardinality(Q \cup X) = Cardinality(Q) + Cardinality(X) - Cardinality(Q \cap X)
    BY <2>2, FS_Union
  <2>5. Cardinality(Q \cap X) = 0
    BY <1>16, FS_EmptySet
  <2>6. Cardinality(Q \cup X) <= Cardinality(R)
    BY <1>16, <2>1, FS_Subset
  <2> QED
    BY <2>1, <2>2, <2>3, <2>4, <2>5, <2>6
<1>18. PICK l, L \in Nat : /\ l = left_len /\ L = U!Length(Head(todo))
                           /\ L = U!Length(Head(todo))'
  BY <1>5, <1>7, TurnLength DEF UpInv, UpKinds
<1>19. e + c + l <= L
  BY <1>2, <1>5, <1>7, <1>15, <1>17, <1>18 DEF UpInv, CountsInv
<1>20. g_written_size' + Cardinality(Remaining)' + left_len' <= L
  BY <1>5, <1>15, <1>17, <1>18, <1>19
<1>21. ASSUME NEW u \in U!Threads, th'[u].pc = "store"
       PROVE  th'[u].seen + Cardinality(Remaining)' + left_len' <= L
  <2>1. u # t /\ th'[u] = th[u]
    BY <1>6, <1>8, <1>21
  <2>2. PICK f \in Nat : f = th[u].seen
    BY <1>1 DEF Place
  <2>3. f + c + l <= L
    BY <1>7, <1>15, <1>17, <1>18, <1>21, <2>1, <2>2 DEF UpInv, CountsInv
  <2> QED
    BY <1>5, <1>15, <1>17, <1>18, <2>1, <2>2, <2>3
<1>22. CountsInv'
  <2>1. \A u \in U!Threads : Ahead(u)' \subseteq 1 .. L
    BY <1>13, <1>14, <1>18
  <2>2. \A u, v \in U!Threads : u # v => Ahead(u)' \cap Ahead(v)' = {}
    BY <1>13, <1>14
  <2>3. pc' = "wait"
    BY <1>5, <1>7
  <2> QED
    BY <1>18, <1>20, <1>21, <2>1, <2>2, <2>3 DEF CountsInv
<1>23. th' \in [U!Threads -> Place]
  BY <1>1, <1>5, <1>6
<1>24. g_written_size' \in Nat
  BY <1>5
<1> QED
  BY <1>1, <1>5, <1>7, <1>22, <1>23, <1>24, ThreadIdle

-----------------------------------------------------------------------------
(* The theorem.                                                            *)
LEMMA UpInit == ASSUME U!Init PROVE UpInv
<1>1. /\ img \in Images /\ flash = [p \in U!Areas |-> {}] /\ running \in {0, 1} /\ runs = 1
      /\ guessed = FALSE /\ faults = 0 /\ pc = "verify" /\ todo = <<>> /\ left_len = 0
      /\ g_written_size = 0 /\ g_err = FALSE /\ th = [t \in U!Threads |-> U!None]
  BY DEF U!Init, U!Systems, Names
<1>2. U!None \in Place /\ U!None.pc = "none"
  BY DEF U!None, Place
<1>3. UpKinds
  BY <1>1, <1>2 DEF UpKinds
<1>4. FlashInv
  BY <1>1 DEF FlashInv, Bounded
<1>5. TodoInv
  BY <1>1 DEF TodoInv
<1>6. CountsInv
  BY <1>1, <1>2 DEF CountsInv
<1>7. BootInv
  <2>1. PICK s, c, d : s = running /\ c = U!gpt[s + 1] /\ d = U!app[s + 1]
    OBVIOUS
  <2>2. c \in Names /\ d \in Names
    BY <1>1, <2>1, SystemNames
  <2>3. flash[c] = {} /\ flash[d] = {}
    BY <1>1, <2>2 DEF Names, U!Areas
  <2> QED
    BY <2>1, <2>3 DEF BootInv, Both, U!Whole
<1>8. RomInv
  BY <1>1 DEF RomInv, PastRom, U!Areas
<1> QED
  BY <1>3, <1>4, <1>5, <1>6, <1>7, <1>8 DEF UpInv

LEMMA UpNext == ASSUME UpInv, U!Sound, U!Next PROVE UpInv'
<1>1. CASE U!Main
  BY <1>1, VerifySteps, ConnectStep, RunSysStep, PartitionStep, BadPartitionStep, DoneStep, TransmitStep,
     TransmittedStep, RestStep, ChkCrcStep DEF U!Main
<1>2. CASE U!Again
  BY <1>2, AgainStep
<1>3. CASE \E t \in U!Threads : U!Writer(t) \/ U!TFault(t)
  BY <1>3, TCheckStep, TWriteStep, TLoadStep, TStoreStep, TFaultStep DEF U!Writer
<1> QED
  BY <1>1, <1>2, <1>3 DEF U!Next

LEMMA UpStill == ASSUME UpInv, UNCHANGED uvars PROVE UpInv'
<1>1. UNCHANGED <<img, flash, running, runs, guessed, faults, pc, todo, left_len>>
      /\ UNCHANGED <<g_written_size, g_err, th>>
  BY DEF uvars
<1>2. UpKinds'
  BY <1>1 DEF UpInv, UpKinds
<1>3. FlashInv'
  BY <1>1, KeepsFlash DEF UpInv, FlashInv
<1>4. BootInv'
  BY <1>1, KeepsBoot DEF UpInv, UpKinds
<1>5. \A p : (Ready(p)' <=> Ready(p)) /\ (Fits(p)' <=> Fits(p)) /\ U!Length(p)' = U!Length(p)
  BY <1>1, Steady
<1>6. TodoInv'
  <2>1. \A s \in {0, 1} : Left(s) => Left(s)'
    BY <1>1, <1>5, LeftSame
  <2>2. PICK h : h = Head(todo) /\ h = Head(todo')
    BY <1>1
  <2> QED
    BY <1>1, <1>5, <2>1, <2>2 DEF UpInv, TodoInv
<1>7. CountsInv'
  <2>1. PICK h : h = Head(todo) /\ h = Head(todo')
    BY <1>1
  <2>2. (\A t : Ahead(t)' = Ahead(t)) /\ Remaining' = Remaining
    BY <1>1 DEF Ahead, Remaining, U!Units, U!Threads
  <2>3. U!Length(Head(todo))' = U!Length(Head(todo))
    BY <1>5, <2>1
  <2> QED
    BY <1>1, <2>2, <2>3 DEF UpInv, CountsInv
<1>8. RomInv'
  BY <1>1, KeepsRom DEF UpInv, PastRom
<1> QED
  BY <1>2, <1>3, <1>4, <1>6, <1>7, <1>8 DEF UpInv

LEMMA UpSafe == ASSUME UpInv, U!Sound PROVE UpgradeSafe
<1>1. U!TypeOK
  BY DEF UpInv, UpKinds, U!TypeOK, Place
<1>2. Bounded /\ running \in {0, 1}
  BY DEF UpInv, FlashInv, UpKinds
<1>3. ASSUME ~ U!Moved, ~ guessed, U!Whole("rom") PROVE \E s \in U!Systems : U!Boots(s)
  <2>1. \A s : Both(s) => U!Boots(s)
    BY <1>3 DEF Both, U!Boots
  <2>2. CASE Both(running)
    BY <1>2, <2>1, <2>2 DEF U!Systems
  <2>3. CASE Ready(U!gpt[2 - running]) /\ Ready(U!app[2 - running])
    <3>1. PICK s : s = 1 - running
      OBVIOUS
    <3>2. s \in {0, 1} /\ U!gpt[s + 1] = U!gpt[2 - running] /\ U!app[s + 1] = U!app[2 - running]
      BY <1>2, <3>1, SystemNames
    <3>3. U!Boots(s)
      BY <1>2, <2>1, <2>3, <3>2, ReadyBoots
    <3> QED
      BY <3>2, <3>3 DEF U!Systems
  <2> QED
    BY <1>3, <2>2, <2>3 DEF UpInv, BootInv
<1>4. U!Whole("rom") \/ pc \in {"connect", "failed"} \/ Head(todo) = "rom"
  <2>1. CASE PastRom
    BY <1>2, <2>1, CompleteWhole DEF UpInv, RomInv, U!Areas
  <2>2. CASE pc = "verify"
    BY <2>2 DEF UpInv, RomInv, U!Whole
  <2>3. CASE todo = <<"rom">>
    BY <2>3
  <2> QED
    BY <2>1, <2>2, <2>3 DEF PastRom, UpInv, UpKinds
<1>5. ASSUME NEW p \in U!Areas PROVE flash[p] \subseteq 1 .. U!Room(p)
  <2>1. CASE flash[p] = {}
    BY <2>1
  <2>2. CASE flash[p] # {}
    <3>1. U!Verified /\ Fits(p) /\ flash[p] \subseteq 1 .. U!Length(p) /\ UpKinds
      BY <1>2, <2>2 DEF Bounded, UpInv
    <3>2. CASE ~ U!IsApp(p)
      BY <3>1, <3>2 DEF U!Room
    <3>3. CASE U!IsApp(p)
      <4>1. Placed(p)
        BY <3>1 DEF Placed, Fits, U!Unusable
      <4>2. PICK n \in Nat : n = U!Room(p) /\ n = img.parts[U!Index(p)].len
        BY <3>1, <3>3, <4>1, RoomKind
      <4>3. PICK l \in Nat : l = U!Length(p)
        BY <3>1, LengthKind
      <4>4. \A u \in 1 .. l : u <= n
        BY <3>1, <3>3, <4>2, <4>3, InBounds
      <4> QED
        BY <3>1, <4>2, <4>3, <4>4
    <3> QED
      BY <3>2, <3>3
  <2> QED
    BY <2>1, <2>2
<1>6. ASSUME pc = "done"
      PROVE  /\ \A p \in U!Areas : (U!IsApp(p) /\ U!Skipped(p)) \/ U!Full(p)
             /\ (~ U!Moved \/ img.rom > 0) => \A s \in U!Systems : U!Boots(s)
  <2>1. ASSUME NEW p \in U!Areas PROVE Ready(p) /\ (~ U!IsApp(p) => Complete(p))
    <3>1. p = "rom" \/ p \in Names
      BY DEF Names, U!Areas
    <3>2. Complete("rom") /\ \A q \in Names : Ready(q)
      BY <1>6 DEF UpInv, RomInv, PastRom, TodoInv
    <3>3. \A q \in Names : ~ U!IsApp(q) => Complete(q)
      BY <3>2 DEF Ready, Kept
    <3>4. Ready("rom")
      BY <3>2 DEF Ready, Fits, U!IsApp, U!Areas
    <3> QED
      BY <3>1, <3>2, <3>3, <3>4
  <2>2. ASSUME NEW p \in U!Areas, ~ (U!IsApp(p) /\ U!Skipped(p)) PROVE U!Full(p)
    <3>1. Complete(p)
      BY <2>1, <2>2 DEF Ready, Kept
    <3>2. CASE ~ U!IsApp(p)
      BY <1>2, <3>1, <3>2, CompleteWhole
    <3>3. CASE U!IsApp(p)
      <4>1. Fits(p)
        BY <2>1, <2>2 DEF Ready, Kept
      <4> QED
        BY <3>1, <3>3, <4>1 DEF U!Full, Complete, Fits, U!Unusable
    <3> QED
      BY <3>2, <3>3
  <2>3. ASSUME ~ U!Moved \/ img.rom > 0, NEW s \in {0, 1} PROVE U!Boots(s)
    <3>1. PICK c, d : c = U!gpt[s + 1] /\ d = U!app[s + 1]
      OBVIOUS
    <3>2. c \in U!Areas /\ ~ U!IsApp(c) /\ d \in U!Areas /\ "rom" \in U!Areas /\ ~ U!IsApp("rom")
      BY <3>1, SystemNames DEF U!Areas, U!IsApp
    <3>3. U!Full(c) /\ U!Full("rom") /\ U!Whole(d)
      BY <1>2, <2>1, <2>2, <3>2, CompleteWhole DEF Ready
    <3> QED
      BY <2>3, <3>1, <3>3 DEF U!Boots, U!Whole
  <2> QED
    BY <2>2, <2>3 DEF U!Systems
<1> QED
  BY <1>1, <1>3, <1>4, <1>5, <1>6 DEF UpgradeSafe, U!UpgradeSafe

\* For every image, sizes and numbers of threads, faults and runs: with a
\* sound image a system boots at any moment, unless the one that runs was
\* guessed, the rom code is cut off, only while it is written, or the new one
\* has another length; done means done, and nothing is written outside its
\* area (UpgradeSafe).
THEOREM Upgrade == PartsSpec => []UpgradeSafe
<1> DEFINE Inv == U!Sound => UpInv
<1>1. PartsInit => Inv
  BY UpInit DEF PartsInit
<1>2. Inv /\ [PartsNext]_allvars => Inv'
  <2> SUFFICES ASSUME Inv, [PartsNext]_allvars, U!Sound' PROVE UpInv'
    OBVIOUS
  <2>1. U!Next \/ UNCHANGED uvars
    BY DEF PartsNext, OfTunnel, OfFrames, OfUpgrade, allvars
  <2>2. img' = img
    BY <2>1 DEF uvars, U!Next, U!Main, U!Writer, U!Again, U!Verify, U!Refuse, U!NoConnect, U!Connect,
       U!RunSys, U!Partition, U!BadPartition, U!Done, U!Transmit, U!Transmitted, U!Rest, U!ChkCrc,
       U!Checked, U!Fail, U!TCheck, U!TWrite, U!TLoad, U!TStore, U!TFault, U!Mine, U!device
  <2>3. U!Sound /\ UpInv
    BY <2>2 DEF U!Sound
  <2> QED
    BY <2>1, <2>3, UpNext, UpStill
<1>3. Inv => UpgradeSafe
  BY UpSafe DEF UpgradeSafe, U!UpgradeSafe
<1> QED
  BY <1>1, <1>2, <1>3, PTL DEF PartsSpec
=============================================================================
