------------------------------ MODULE Upgrade ------------------------------
(***************************************************************************)
(* The firmware upgrade (app/ota_upgrade): the image is verified, then the *)
(* rom code, if it has one, is written over the only copy, at the begin of *)
(* flash, and the two systems of the device, each a partition table and an *)
(* application, one after the other, the one that runs last.  The body of  *)
(* an area is written by threads that count what they wrote in             *)
(* g_written_size without a lock; the rest by main, from that count on.    *)
(*                                                                         *)
(* Flash is written in units; the device is external: a failed write has   *)
(* written or not, a write of what is there changes nothing; it boots by   *)
(* its rom code, from a table right behind that (the tables' addresses are *)
(* told by the rom code's size) and the table's application.  Its          *)
(* partitions are those of the image.  Left out: partitions of several     *)
(* segments and the sum of their sizes, messages and arguments.            *)
(***************************************************************************)
EXTENDS Integers, Sequences, FiniteSets

CONSTANTS
  Images,      \* images: [rom, parts, segs], rom_size and the tables
  Roms,        \* how long the rom code of a device is, 0 where it has none
  Chunk,       \* UPGRADE_WRITE_MAX_SIZE
  Block,       \* 0x1000, also GPT_FLASH_SIZE
  GptOffset,   \* GPT_FLASH_OFFSET, also the longest rom code
  MaxThreads,  \* BB_REMOTE_CMD_WAIT_MAX
  RetryTimes,  \* WRITE_RETRY_TIMES
  MaxFaults,   \* bound: calls that fail
  MaxRuns      \* bound: how often the program is started

Threads == 1 .. MaxThreads
Systems == {0, 1}
gpt == <<"gpt0", "gpt1">>
app == <<"app0", "app1">>
Areas == {"rom", "gpt0", "gpt1", "app0", "app1"}

VARIABLES
  img,            \* the image of this upgrade
  rom,            \* the length of the device's rom code
  flash,          \* units of an area that hold the image; 0: others do not
                  \* hold what they did, another area was written over them
  running, runs, guessed, faults, \* the device's system, and history
  pc, todo,       \* of main: place, partitions left
  left_len, g_written_size, g_err,
  th              \* the writer threads

vars ==
  <<img, rom, flash, running, runs, guessed, faults, pc, todo, left_len, g_written_size, g_err, th>>
device == <<img, rom, running, runs, guessed>>

None == [pc |-> "none", at |-> 0, i |-> 0, tries |-> 0, seen |-> 0]

Init ==
  /\ img \in Images /\ rom \in Roms /\ flash = [p \in Areas |-> {}]
  /\ running \in Systems /\ runs = 1 /\ guessed = FALSE /\ faults = 0
  /\ pc = "verify" /\ todo = << >> /\ left_len = 0 /\ g_written_size = 0 /\ g_err = FALSE
  /\ th = [t \in Threads |-> None]

-----------------------------------------------------------------------------
(* The tables of the image.                                                *)
\* get_part_info_offset
PartOf(s) == {p \in 1 .. Len(img.parts) :
                img.segs[s].off >= img.parts[p].off
                  /\ img.segs[s].off + img.segs[s].size <= img.parts[p].off + img.parts[p].len}

\* do_verify_image: the rom code is not too long, every segment lies in one
\* partition.
Verified == img.rom <= GptOffset /\ \A s \in 1 .. Len(img.segs) : PartOf(s) # {}

\* ar8030_upgrade_partition_byname
Part(name) == {p \in 1 .. Len(img.parts) : img.parts[p].name = name}
Index(name) == CHOOSE p \in Part(name) : \A q \in Part(name) : p <= q
Segment(name) == Cardinality({p \in 1 .. Index(name) : img.parts[p].is_upgrade})
Matches(name) ==
  Segment(name) > 0 /\ img.segs[Segment(name)].off = img.parts[Index(name)].off
Skipped(name) == Part(name) # {} /\ ~ img.parts[Index(name)].is_upgrade
Unusable(name) == Part(name) = {} \/ (~ Skipped(name) /\ ~ Matches(name))

IsApp(name) == name \in {"app0", "app1"}
Length(name) == CASE name = "rom" -> img.rom
                  [] name \in {"gpt0", "gpt1"} -> Block
                  [] OTHER -> img.segs[Segment(name)].size

(* Where the areas are, and how long; written by main and ..._byname.      *)
Start(p) == CASE p = "rom" -> 0
              [] p = "gpt0" -> img.rom
              [] p = "gpt1" -> img.rom + Block
              [] OTHER -> GptOffset + img.parts[Index(p)].off
Room(p) == IF ~ IsApp(p) THEN Length(p)
           ELSE IF Part(p) = {} THEN 0 ELSE img.parts[Index(p)].len

-----------------------------------------------------------------------------
(* main                                                                    *)
Fault == faults < MaxFaults /\ faults' = faults + 1
Keep == UNCHANGED <<left_len, g_written_size, g_err, th>>
Fail == pc' = "failed" /\ UNCHANGED <<device, flash, todo>> /\ Keep

\* do_verify_image
Verify ==
  /\ pc = "verify" /\ Verified /\ pc' = "connect" /\ Keep
  /\ UNCHANGED <<device, flash, faults, todo>>

Refuse == pc = "verify" /\ ~ Verified /\ Fail /\ UNCHANGED faults

\* bb_host_connect, bb_dev_getlist, bb_dev_open
NoConnect == pc = "connect" /\ Fault /\ Fail

\* The rom code is written first, where it is.
Connect ==
  /\ pc = "connect"
  /\ IF img.rom > 0 THEN pc' = "body" /\ todo' = <<"rom">> /\ left_len' = img.rom
     ELSE pc' = "runsys" /\ UNCHANGED <<todo, left_len>>
  /\ g_written_size' = 0 /\ UNCHANGED <<device, flash, faults, g_err, th>>

Order(s) == <<gpt[2 - s], app[2 - s], gpt[s + 1], app[s + 1]>>

\* upgrade_runsys_get; a failure counts as BB_RUNSYS_MASTER.
RunSys ==
  /\ pc = "runsys" /\ pc' = "next"
  /\ \/ todo' = Order(running) /\ UNCHANGED <<guessed, faults>>
     \/ Fault /\ todo' = Order(0) /\ guessed' = (guessed \/ running # 0)
  /\ Keep /\ UNCHANGED <<img, rom, flash, running, runs>>

\* The next partition, if its entry is there and fits its segment.
Partition ==
  /\ pc = "next" /\ todo # << >> /\ (IsApp(Head(todo)) => ~ Unusable(Head(todo)))
  /\ IF IsApp(Head(todo)) /\ Skipped(Head(todo))
     THEN todo' = Tail(todo) /\ pc' = pc /\ UNCHANGED left_len
     ELSE todo' = todo /\ left_len' = Length(Head(todo)) /\ pc' = "body"
  /\ g_written_size' = 0 /\ UNCHANGED <<device, flash, faults, g_err, th>>

BadPartition ==
  /\ pc = "next" /\ todo # << >> /\ IsApp(Head(todo)) /\ Unusable(Head(todo))
  /\ Fail /\ UNCHANGED faults

Done ==
  /\ pc = "next" /\ todo = << >> /\ pc' = "done"
  /\ Keep /\ UNCHANGED <<device, flash, faults, todo>>

\* ar8030_data_transmit: how many threads, and how much each writes.
ThreadNum == IF left_len \div Block > MaxThreads THEN MaxThreads ELSE left_len \div Block
BlockLen == IF left_len \div Block > MaxThreads
            THEN ((left_len \div Block) \div MaxThreads) * Block ELSE Block

\* The threads start behind what was counted.
Transmit ==
  /\ pc = "body" /\ left_len > Block /\ pc' = "wait"
  /\ \E n \in 0 .. ThreadNum :
       /\ IF n < ThreadNum THEN Fault /\ g_err' = TRUE ELSE faults' = faults /\ g_err' = FALSE
       /\ th' = [t \in Threads |-> IF t > n THEN None
                   ELSE [None EXCEPT !.pc = "check", !.at = g_written_size + (t - 1) * BlockLen,
                                     !.i = BlockLen]]
  /\ left_len' = left_len - BlockLen * ThreadNum
  /\ UNCHANGED <<device, flash, todo, g_written_size>>

\* Main waits for all of the threads.
Transmitted ==
  /\ pc = "wait" /\ \A t \in Threads : th[t].pc \in {"none", "end"}
  /\ pc' = IF g_err THEN "failed" ELSE "body"
  /\ Keep /\ UNCHANGED <<device, flash, faults, todo>>

Smaller(n) == IF n > Chunk THEN Chunk ELSE n
Units(at, n) == (at + 1) .. (at + n)
\* What of another area lies at the addresses that are written.
Hit(p, units) == {u \in 1 .. Room(p) : \E v \in units : Start(p) + u = Start(Head(todo)) + v}
Written(units) ==
  flash' = [p \in Areas |-> IF p = Head(todo) THEN flash[p] \cup units
                            ELSE IF Hit(p, units) = {} THEN flash[p]
                            ELSE (flash[p] \ Hit(p, units)) \cup {0}]

\* What is left, from the count on; RetryTimes failures end it.
Rest ==
  /\ pc = "body" /\ left_len \in 1 .. Block
  /\ \/ /\ Written(Units(g_written_size, Smaller(left_len)))
        /\ g_written_size' = g_written_size + Smaller(left_len)
        /\ left_len' = left_len - Smaller(left_len) /\ UNCHANGED <<faults, pc>>
     \/ /\ faults + RetryTimes < MaxFaults /\ faults' = faults + RetryTimes + 1 /\ pc' = "failed"
        /\ \/ Written(Units(g_written_size, Smaller(left_len)))
           \/ flash' = flash
        /\ UNCHANGED <<g_written_size, left_len>>
  /\ UNCHANGED <<device, todo, g_err, th>>

\* ar8030_upgrade_chk_crc, by the device.
Same == 1 .. Length(Head(todo)) \subseteq flash[Head(todo)]

\* Behind the rom code, bb_get_version changes nothing, and its failure
\* neither.
Checked ==
  /\ pc' = IF Head(todo) = "rom" THEN "runsys" ELSE "next"
  /\ todo' = Tail(todo) /\ UNCHANGED <<device, flash, faults>> /\ Keep

\* Slip: the answer is not looked at.
ChkCrcNot == pc = "body" /\ left_len = 0 /\ Checked

ChkCrc ==
  /\ pc = "body" /\ left_len = 0
  /\ \/ Same /\ Checked
     \/ ~ Same /\ Fail /\ UNCHANGED faults
     \/ Fault /\ Fail

-----------------------------------------------------------------------------
(* ar8030_upgrade_write_thread                                             *)
T(t, from) == th[t].pc = from
Goes(t, r) == th' = [th EXCEPT ![t] = r]
Mine == UNCHANGED <<device, pc, todo, left_len>>

\* Slip: a thread that sees the error of another one ends without sem_post.
TCheckNot(t) ==
  /\ T(t, "check") /\ ~ g_err
  /\ Goes(t, [th[t] EXCEPT !.pc = IF th[t].i = 0 THEN "end" ELSE "write", !.tries = 0])
  /\ Mine /\ UNCHANGED <<flash, faults, g_written_size, g_err>>

\* The thread ends when it is through or another one failed.
TCheck(t) ==
  /\ T(t, "check")
  /\ Goes(t, [th[t] EXCEPT !.pc = IF g_err \/ th[t].i = 0 THEN "end" ELSE "write", !.tries = 0])
  /\ Mine /\ UNCHANGED <<flash, faults, g_written_size, g_err>>

TWrite(t) ==
  /\ T(t, "write") /\ Goes(t, [th[t] EXCEPT !.pc = "load"])
  /\ Written(Units(th[t].at, Smaller(th[t].i)))
  /\ Mine /\ UNCHANGED <<faults, g_written_size, g_err>>

\* ar8030_upgrade_write: a failed write is repeated.
TFault(t) ==
  /\ T(t, "write") /\ Fault
  /\ \/ Written(Units(th[t].at, Smaller(th[t].i)))
     \/ flash' = flash
  /\ g_err' = (g_err \/ th[t].tries = RetryTimes)
  /\ Goes(t, [th[t] EXCEPT !.tries = IF @ = RetryTimes THEN 0 ELSE @ + 1,
                           !.pc = IF th[t].tries = RetryTimes THEN "end" ELSE @])
  /\ Mine /\ UNCHANGED g_written_size

\* g_written_size += n is a read and a write.
TLoad(t) ==
  /\ T(t, "load") /\ Goes(t, [th[t] EXCEPT !.pc = "store", !.seen = g_written_size])
  /\ Mine /\ UNCHANGED <<flash, faults, g_written_size, g_err>>

TStore(t) ==
  LET n == Smaller(th[t].i) IN
  /\ T(t, "store") /\ g_written_size' = th[t].seen + n
  /\ Goes(t, [th[t] EXCEPT !.pc = "check", !.at = @ + n, !.i = @ - n, !.seen = 0])
  /\ Mine /\ UNCHANGED <<flash, faults, g_err>>

Writer(t) == TCheck(t) \/ TWrite(t) \/ TLoad(t) \/ TStore(t)

\* What a device boots of: areas that hold what they did, or the image.  A
\* rom code of another size has the tables elsewhere.
Full(p) == /\ IsApp(p) => Part(p) # {} /\ Matches(p)
           /\ 1 .. Length(p) \subseteq flash[p]
Whole(p) == flash[p] = {} \/ Full(p)
Moved == img.rom # rom
Untouched == \A p \in {"rom", "gpt0", "gpt1"} : flash[p] = {}
Boots(s) ==
  /\ Whole(app[s + 1])
  /\ IF Moved THEN Untouched \/ (img.rom > 0 /\ Full("rom") /\ Full(gpt[s + 1]))
     ELSE Whole("rom") /\ Whole(gpt[s + 1])

\* The program is started again; the device may have booted before.
Again ==
  /\ pc = "failed" /\ Verified /\ runs < MaxRuns /\ runs' = runs + 1 /\ pc' = "connect"
  /\ running' \in {running} \cup {s \in Systems : Boots(s)}
  /\ todo' = << >> /\ g_err' = FALSE /\ th' = [t \in Threads |-> None]
  /\ UNCHANGED <<img, rom, flash, guessed, faults, left_len, g_written_size>>

Main == \/ Verify \/ Refuse \/ NoConnect \/ Connect \/ RunSys \/ Partition \/ BadPartition \/ Done
        \/ Transmit \/ Transmitted \/ Rest \/ ChkCrc

Next == Main \/ Again \/ \E t \in Threads : Writer(t) \/ TFault(t)

(* The program and its threads run.                                        *)
Fairness == WF_vars(Main) /\ \A t \in Threads : WF_vars(Writer(t))
UpgradeSpec == Init /\ [][Next]_vars /\ Fairness
-----------------------------------------------------------------------------
TypeOK ==
  /\ pc \in {"verify", "connect", "runsys", "next", "body", "wait", "done", "failed"}
  /\ \A t \in Threads : th[t].pc \in {"none", "check", "write", "load", "store", "end"}
  /\ g_err \in BOOLEAN /\ left_len \in Nat /\ g_written_size \in Nat

(* What do_verify_image does not look at: the tables fit before the        *)
(* partitions, an upgraded partition has a segment, and partitions are not *)
(* empty and do not overlap.                                               *)
Sound ==
  /\ img.rom + 2 * Block <= GptOffset
  /\ Cardinality({p \in 1 .. Len(img.parts) : img.parts[p].is_upgrade}) <= Len(img.segs)
  /\ \A p \in 1 .. Len(img.parts) : img.parts[p].len > 0
  /\ \A p, q \in 1 .. Len(img.parts) :
       p # q => \/ img.parts[p].off + img.parts[p].len <= img.parts[q].off
                \/ img.parts[q].off + img.parts[q].len <= img.parts[p].off

(* With a sound image: at any moment, whatever failed before, one of the   *)
(* two systems boots, while the rom code is not cut off, which is the only *)
(* area that has no second one, the image's is as long as the device's,    *)
(* and a running system that could not be read was not guessed wrong.  The *)
(* rom code is cut only while it is written and after a failure of that:   *)
(* nothing else is written then.  Nothing is written outside of its area.  *)
(* An upgrade that says that it is done has written all of the image, and  *)
(* both systems boot, unless there is no rom code in it for a device that  *)
(* has one, over which the tables are then written.                        *)
UpgradeSafe ==
  Sound =>
    /\ TypeOK
    /\ ~ Moved /\ ~ guessed /\ Whole("rom") => \E s \in Systems : Boots(s)
    /\ Whole("rom") \/ pc \in {"connect", "failed"} \/ Head(todo) = "rom"
    /\ \A p \in Areas : flash[p] \subseteq 1 .. Room(p)
    /\ pc = "done" => /\ \A p \in Areas : (IsApp(p) /\ Skipped(p)) \/ Full(p)
                      /\ (~ Moved \/ img.rom > 0) => \A s \in Systems : Boots(s)

(* The upgrade ends.                                                       *)
UpgradeEnds == []<>(pc \in {"done", "failed"})
=============================================================================
