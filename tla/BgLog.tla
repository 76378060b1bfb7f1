-------------------------------- MODULE BgLog --------------------------------
(***************************************************************************)
(* The log of the daemon: com_log puts lines into a ring                   *)
(* (com/com_log.c), and a thread of its own takes them out in batches and  *)
(* writes them to the standard output and a file (com/bg_proc.c).          *)
(*                                                                         *)
(* The ring is the queue of bytes that RingBuffer implements.  A line is a *)
(* number of bytes <<line, place>>.  bg_write holds the mutex from its     *)
(* first to its last access, so that it is one action; bg_close does not   *)
(* take the mutex.  Left out: the text of a line; calls after bg_close.    *)
(***************************************************************************)
EXTENDS Integers, Sequences

CONSTANTS
  Size, Batch,   \* bytes of the ring, and of a batch
  LineMax,       \* bytes of the longest line
  MaxLines,      \* bound: lines
  MaxShort       \* bound: writes to the standard output that fail or are cut

VARIABLES
  level,              \* print_level
  rb, bg, batch, stop_flg,
  close,              \* bg_close
  log_fp,             \* is there a file?
  lines, short,       \* counts
  stdout, file,       \* what has been written
  entered, dropped,   \* history: bytes put into the ring; how many of them a write lost
  missed,             \* history: the signal of bg_close came before the wait
  killed              \* fwrite was given a length of -1

vars == <<level, rb, bg, batch, stop_flg, close, log_fp, lines, short, stdout, file,
          entered, dropped, missed, killed>>
ring == <<rb, entered>>
outs == <<stdout, file, short, dropped, killed>>

Levels == {0, 1}    \* of a module, and of print_level

Min2(a, b) == IF a < b THEN a ELSE b

\* com_log_init: a file, if the daemon was started with --log-file and it opens.
LogFile == BOOLEAN

\* bg_init.
Init ==
  /\ level = 0 /\ rb = <<>> /\ bg = "lock" /\ batch = <<>> /\ stop_flg = FALSE /\ close = "open"
  /\ log_fp \in LogFile /\ lines = 0 /\ short = 0
  /\ stdout = <<>> /\ file = <<>> /\ entered = <<>> /\ dropped = 0 /\ missed = FALSE /\ killed = FALSE

\* pthread_cond_signal.
Signalled(pc) == IF pc = "wait" THEN "woken" ELSE pc

\* ringbuffer_in: as much of the line as there is room for.
Put(line) ==
  LET in == SubSeq(line, 1, Min2(Len(line), Size - Len(rb))) IN
    /\ rb' = rb \o in /\ entered' = entered \o in

\* The mutex is not held.
Free == bg # "look"

\* com_vprintf, and bg_write for the lines that are printed.
Log ==
  /\ ~ killed /\ close = "open" /\ lines < MaxLines /\ Free
  /\ lines' = lines + 1
  /\ \E n \in 1 .. LineMax, l \in Levels :
       IF l < level THEN UNCHANGED <<bg, ring>>
       ELSE Put([k \in 1 .. n |-> <<lines, k>>]) /\ bg' = Signalled(bg)
  /\ UNCHANGED <<level, batch, stop_flg, close, log_fp, outs, missed>>

\* com_log_set_level.
SetLevel ==
  /\ ~ killed /\ \E l \in Levels \ {level} : level' = l
  /\ UNCHANGED <<ring, bg, batch, stop_flg, close, log_fp, lines, outs, missed>>

\* bg_write_thread: the mutex, and the flag.
Lock ==
  /\ ~ killed /\ bg = "lock" /\ bg' = (IF stop_flg THEN "end" ELSE "look")
  /\ UNCHANGED <<level, ring, batch, stop_flg, close, log_fp, lines, outs, missed>>

Wait ==
  /\ bg = "look" /\ rb = <<>> /\ bg' = "wait"
  /\ missed' = (close = "join")
  /\ UNCHANGED <<level, ring, batch, stop_flg, close, log_fp, lines, outs>>

\* ringbuffer_out.
Take(n) == batch' = SubSeq(rb, 1, n) /\ rb' = SubSeq(rb, n + 1, Len(rb)) /\ entered' = entered

\* After the wait the ring may be empty, and a batch of no bytes is written.
Out ==
  /\ ~ killed /\ ((bg = "look" /\ rb # <<>>) \/ bg = "woken")
  /\ Take(Min2(Len(rb), Batch)) /\ bg' = "write"
  /\ UNCHANGED <<level, stop_flg, close, log_fp, lines, outs, missed>>

\* log_write: what the standard output took, the file is given as well; when
\* it took nothing, the file is given -1 bytes.
Write ==
  /\ ~ killed /\ bg = "write" /\ bg' = "lock" /\ batch' = <<>>
  /\ \E n \in IF short < MaxShort THEN -1 .. Len(batch) ELSE {Len(batch)} :
       /\ short' = short + (IF n < Len(batch) THEN 1 ELSE 0)
       /\ killed' = (log_fp /\ n = -1)
       /\ LET done == SubSeq(batch, 1, n) IN
            /\ stdout' = stdout \o done
            /\ file' = (IF log_fp THEN file \o done ELSE file)
            /\ dropped' = dropped + Len(batch) - Len(done)
  /\ UNCHANGED <<level, ring, stop_flg, close, log_fp, lines, missed>>

Bg == Lock \/ Wait \/ Out \/ Write

\* bg_close: the flag and the signal, without the mutex; then the join.
CloseSet ==
  /\ ~ killed /\ close = "open" /\ close' = "signal" /\ stop_flg' = TRUE
  /\ UNCHANGED <<level, ring, bg, batch, log_fp, lines, outs, missed>>

CloseSignal ==
  /\ ~ killed /\ close = "signal" /\ close' = "join" /\ bg' = Signalled(bg)
  /\ UNCHANGED <<level, ring, batch, stop_flg, log_fp, lines, outs, missed>>

CloseJoin ==
  /\ ~ killed /\ close = "join" /\ bg = "end" /\ close' = "closed"
  /\ UNCHANGED <<level, ring, bg, batch, stop_flg, log_fp, lines, outs, missed>>

Closing == CloseSignal \/ CloseJoin

Next == Log \/ SetLevel \/ Bg \/ CloseSet \/ Closing

Spec == Init /\ [][Next]_vars
FairSpec == Spec /\ WF_vars(Bg) /\ WF_vars(Closing)
-----------------------------------------------------------------------------
Before(a, b) == a[1] < b[1] \/ (a[1] = b[1] /\ a[2] < b[2])

(* Bytes that entered the ring are written once and in their order, and    *)
(* none is missing but those a write to the standard output did not take;  *)
(* the file has what the standard output has.  The process is killed only  *)
(* if there is a file and a write failed, and the ring is freed only after *)
(* its thread has ended.                                                   *)
LogSafe ==
  LET kept == stdout \o batch \o rb IN
  /\ Len(rb) <= Size /\ Len(entered) = Len(kept) + dropped
  /\ \A i, j \in 1 .. Len(kept) : i < j => Before(kept[i], kept[j])
  /\ log_fp => file = stdout
  /\ killed => log_fp /\ short > 0
  /\ close = "closed" => bg = "end"

(* What is in the ring is written, and bg_close returns, unless its signal *)
(* came between the look at the flag and the wait.                         *)
LogSettled ==
  /\ rb = <<>> \/ stop_flg \/ killed
  /\ stop_flg => close = "closed" \/ missed \/ killed
LogEnds == <>[]LogSettled
=============================================================================
