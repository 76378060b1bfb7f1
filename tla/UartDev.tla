------------------------------ MODULE UartDev ------------------------------
(***************************************************************************)
(* Serial devices coming and going (daemon/dev8030/uart8030/uart_dev.c):   *)
(* a line is opened and searched by a thread of its own, a device that     *)
(* answers is handed to the poll thread, which puts it to work; a device   *)
(* whose line is gone is handed back, removed and its line opened again.   *)
(* The poll thread and a client's BB_RPC_SERIAL_SETUP add lines at the     *)
(* same time.  Framing is module UartPkt; the threads of a working device  *)
(* are module UsbDev's.                                                    *)
(*                                                                         *)
(* Left out: failing allocations; the serial number, which is only shown.  *)
(***************************************************************************)
EXTENDS Integers, Sequences, SequencesExt, FiniteSets

CONSTANTS
  Names,        \* device files of the lines
  MaxAdds,      \* bound: how often a line is opened
  MaxTurns,     \* bound: how often a line changes
  ClockSteps    \* may CLOCK_REALTIME jump while the poll thread starts a device?

VARIABLES
  line, turns,  \* what is at the other end of a line: see Lines
  uarts,        \* the uart8030_info made so far; named is history: the id was given
  head,         \* head_idle, head_hotplug, head_work, head_unplug
  working_cnt,
  poll, cur,    \* the poll thread, and the device it is about
  adder,        \* add_uart_dev of the poll thread and of a client
  nxtid, told,  \* working ids given, hotplug events sent
  overtaken     \* history: devices that were pushed out of head_hotplug

dev == <<line, turns>>
vars == <<line, turns, uarts, head, working_cnt, poll, cur, adder, nxtid, told, overtaken>>

\* "silent" is a line whose other end is off: a read blocks (VMIN is 1).
Lines == {"answers", "silent", "gone"}
Adders == {"poll", "client"}
Lists == {"idle", "hotplug", "work", "unplug"}

\* reg_uartrpc_platform adds the first line before the threads run.
Init ==
  /\ line \in [Names -> Lines] /\ turns = 0
  /\ uarts = <<>> /\ head = [l \in Lists |-> <<>>] /\ working_cnt = 0
  /\ poll = "add" /\ cur = 0 /\ nxtid = 0 /\ told = <<>> /\ overtaken = {}
  /\ \E n \in Names : adder = [poll |-> [pc |-> "find", name |-> n],
                               client |-> [pc |-> "idle", name |-> n]]

Turn ==
  /\ turns < MaxTurns /\ turns' = turns + 1
  /\ \E n \in Names, s \in Lines : line[n] # s /\ line' = [line EXCEPT ![n] = s]
  /\ UNCHANGED <<uarts, head, working_cnt, poll, cur, adder, nxtid, told, overtaken>>

Without(i) == [l \in Lists |-> RemoveFirst(head[l], i)]
Move(i, l) == head' = [Without(i) EXCEPT ![l] = Append(@, i)]
Set(i, f, v) == uarts' = [uarts EXCEPT ![i][f] = v]

-----------------------------------------------------------------------------
(* add_uart_dev: the list is searched, then the line is opened, then the   *)
(* device is inserted, with mtx released in between.                       *)
Names_of(l) == {uarts[i].name : i \in ToSet(head[l])}
Find(name) == \E l \in Lists : name \in Names_of(l)

\* The bound counts the lines that are being opened.
Opening == {a \in Adders : adder[a].pc \in {"open", "insert"}}
Room == Len(uarts) + Cardinality(Opening) < MaxAdds

AddDone(a) == IF a = "poll" /\ poll = "add" THEN poll' = "unplug" ELSE poll' = poll

\* uartrpc_opt_ctrl.
SerialSetup ==
  /\ adder["client"].pc = "idle"
  /\ \E n \in Names : adder' = [adder EXCEPT !["client"] = [pc |-> "find", name |-> n]]
  /\ UNCHANGED <<dev, uarts, head, working_cnt, poll, cur, nxtid, told, overtaken>>

AddFind(a) ==
  /\ adder[a].pc = "find"
  /\ IF Find(adder[a].name) \/ ~ Room
     THEN adder' = [adder EXCEPT ![a].pc = "idle"] /\ AddDone(a)
     ELSE adder' = [adder EXCEPT ![a].pc = "open"] /\ poll' = poll
  /\ UNCHANGED <<dev, uarts, head, working_cnt, cur, nxtid, told, overtaken>>

\* opt->op; the device of the poll thread whose line cannot be opened is
\* not tried again.
AddOpen(a) ==
  /\ adder[a].pc = "open"
  /\ IF line[adder[a].name] = "gone"
     THEN adder' = [adder EXCEPT ![a].pc = "idle"] /\ AddDone(a)
     ELSE adder' = [adder EXCEPT ![a].pc = "insert"] /\ poll' = poll
  /\ UNCHANGED <<dev, uarts, head, working_cnt, cur, nxtid, told, overtaken>>

AddInsert(a) ==
  /\ adder[a].pc = "insert"
  /\ uarts' = Append(uarts, [name |-> adder[a].name, usta |-> "idle", id |-> 0, plist |-> "null",
                             named |-> FALSE,
                             offline |-> FALSE, search |-> TRUE, recv |-> FALSE, freed |-> FALSE])
  /\ head' = [head EXCEPT !["idle"] = Append(@, Len(uarts) + 1)]
  /\ adder' = [adder EXCEPT ![a].pc = "idle"] /\ AddDone(a)
  /\ UNCHANGED <<dev, working_cnt, cur, nxtid, told, overtaken>>

-----------------------------------------------------------------------------
\* A mutant: the device is found and left where it was.
ToHotplugNot(i) == head' = head

ToHotplug(i) == head' = [Without(i) EXCEPT !["hotplug"] = <<i>>]

\* uart_search_dev asks every 1000 ms until the device answers.  list_del,
\* then list_add_tail with its arguments exchanged: what is in head_hotplug
\* afterwards is this device alone.
Search(i) ==
  /\ uarts[i].search /\ line[uarts[i].name] = "answers"
  /\ uarts' = [uarts EXCEPT ![i].search = FALSE, ![i].usta = "hotplug"]
  /\ ToHotplug(i)
  /\ overtaken' = overtaken \cup (ToSet(head["hotplug"]) \ {i})
  /\ UNCHANGED <<dev, working_cnt, poll, cur, adder, nxtid, told>>

\* uart_ev_loop: reads have failed for more than 1000 ms (the ring is never
\* full: module UartPkt).  The poll thread takes less than that to start a
\* device, unless the clock is set forward meanwhile.
EvLoop(i) ==
  /\ uarts[i].recv /\ ~ uarts[i].offline /\ line[uarts[i].name] = "gone"
  /\ ~ ClockSteps => ~ (cur = i /\ poll \in {"raw", "start", "id"})
  /\ uarts' = [uarts EXCEPT ![i].offline = TRUE, ![i].usta = "unplug"]
  /\ Move(i, "unplug")
  /\ UNCHANGED <<dev, working_cnt, poll, cur, adder, nxtid, told, overtaken>>

-----------------------------------------------------------------------------
(* uartrpc_8030_poll.                                                      *)
Goto(a, b) == poll = a /\ poll' = b

PollPlug ==
  /\ head["hotplug"] # <<>> /\ Goto("hotplug", "raw")
  /\ LET i == Head(head["hotplug"]) IN cur' = i /\ Move(i, "work") /\ Set(i, "usta", "work")
  /\ working_cnt' = working_cnt + 1
  /\ UNCHANGED <<dev, adder, nxtid, told, overtaken>>

PollNext ==
  /\ head["hotplug"] = <<>> /\ Goto("hotplug", "unplug")
  /\ UNCHANGED <<dev, uarts, head, working_cnt, cur, adder, nxtid, told, overtaken>>

\* set_uart_devinfo: the list is stored before dev_node_list_init.
SetPlist ==
  /\ Goto("raw", "start") /\ Set(cur, "plist", "raw")
  /\ UNCHANGED <<dev, head, working_cnt, cur, adder, nxtid, told, overtaken>>

SetUp ==
  /\ Goto("start", "id")
  /\ uarts' = [uarts EXCEPT ![cur].plist = "ready", ![cur].recv = TRUE]
  /\ UNCHANGED <<dev, head, working_cnt, cur, adder, nxtid, told, overtaken>>

PollId ==
  /\ Goto("id", "tell") /\ nxtid' = nxtid + 1
  /\ uarts' = [uarts EXCEPT ![cur].offline = FALSE, ![cur].id = nxtid, ![cur].named = TRUE]
  /\ UNCHANGED <<dev, head, working_cnt, cur, adder, told, overtaken>>

Event(status) == told' = Append(told, [id |-> uarts[cur].id, status |-> status])

PollTell ==
  /\ Goto("tell", "hotplug") /\ Event(1)
  /\ UNCHANGED <<dev, uarts, head, working_cnt, cur, adder, nxtid, overtaken>>

PollUnplug ==
  /\ head["unplug"] # <<>> /\ Goto("unplug", "kill")
  /\ cur' = Head(head["unplug"])
  /\ head' = [head EXCEPT !["unplug"] = Tail(@)]
  /\ working_cnt' = working_cnt - 1
  /\ UNCHANGED <<dev, uarts, adder, nxtid, told, overtaken>>

PollAgain ==
  /\ head["unplug"] = <<>> /\ Goto("unplug", "hotplug")
  /\ UNCHANGED <<dev, uarts, head, working_cnt, cur, adder, nxtid, told, overtaken>>

\* A mutant: the device is freed without its threads being joined.
UnplugAtOnce == uarts' = [uarts EXCEPT ![cur].plist = "freed", ![cur].freed = TRUE]

\* uart_8030_unplug: dev_node_force_exit joins the threads of the device.
Unplug == uarts' = [uarts EXCEPT ![cur].recv = FALSE, ![cur].plist = "freed", ![cur].freed = TRUE]

PollKill ==
  /\ Goto("kill", "gone") /\ Unplug
  /\ UNCHANGED <<dev, head, working_cnt, cur, adder, nxtid, told, overtaken>>

PollTellGone ==
  /\ Goto("gone", "add") /\ Event(0)
  /\ adder' = [adder EXCEPT !["poll"] = [pc |-> "find", name |-> uarts[cur].name]]
  /\ UNCHANGED <<dev, uarts, head, working_cnt, cur, nxtid, overtaken>>

Poll == \/ PollPlug \/ PollNext \/ SetPlist \/ SetUp \/ PollId \/ PollTell
        \/ PollUnplug \/ PollAgain \/ PollKill \/ PollTellGone

-----------------------------------------------------------------------------
AddOf(a) == AddFind(a) \/ AddOpen(a) \/ AddInsert(a)

Next == \/ Turn \/ SerialSetup \/ Poll
        \/ \E a \in Adders : AddOf(a)
        \/ \E i \in 1 .. Len(uarts) : Search(i) \/ EvLoop(i)

Insts == 1 .. MaxAdds
Searches(i) == i <= Len(uarts) /\ Search(i)
Expires(i) == i <= Len(uarts) /\ EvLoop(i)

(* The threads run; a line that is gone and stays so is noticed.           *)
Fairness == /\ WF_vars(Poll)
            /\ \A a \in Adders : WF_vars(AddOf(a))
            /\ \A i \in Insts : WF_vars(Searches(i)) /\ WF_vars(Expires(i))

Spec == Init /\ [][Next]_vars
FairSpec == Spec /\ Fairness
-----------------------------------------------------------------------------
In(i) == {l \in Lists : i \in ToSet(head[l])}

TypeOK ==
  /\ line \in [Names -> Lines] /\ turns \in 0 .. MaxTurns
  /\ Len(uarts) <= MaxAdds /\ nxtid \in 0 .. MaxAdds
  /\ \A i \in 1 .. Len(uarts) :
       /\ uarts[i].name \in Names /\ uarts[i].usta \in Lists
       /\ uarts[i].plist \in {"null", "raw", "ready", "freed"}
  /\ poll \in {"hotplug", "raw", "start", "id", "tell", "unplug", "kill", "gone", "add"}

\* uartrpc_get_info: the first device of head_work with this id.
Lookup(id) == LET at == {k \in DOMAIN head["work"] : uarts[head["work"][k]].id = id}
              IN IF at = {} THEN 0 ELSE head["work"][Min(at)]

(* A device is in at most one list, in the one its usta names, and a       *)
(* device that was freed is in none and has no thread: no timeout puts it  *)
(* back.  The count that getsz returns and that bounds getid_all never     *)
(* hides a working device.  A device that was announced and is still at    *)
(* work has a device list whose threads run and is the one its id finds,   *)
(* though a device has the id 0 before it is given one; and every id is    *)
(* announced and withdrawn once, in this order.                            *)
UartSafe ==
  /\ TypeOK
  /\ \A i \in 1 .. Len(uarts) :
       /\ Cardinality(In(i)) <= 1
       /\ \A l \in In(i) : uarts[i].usta = l
       /\ uarts[i].freed => In(i) = {} /\ ~ uarts[i].recv
       /\ "work" \in In(i) /\ uarts[i].named =>
            uarts[i].plist = "ready" /\ uarts[i].recv /\ Lookup(uarts[i].id) = i
       /\ In(i) = {} => i \in overtaken \/ uarts[i].freed \/ (i = cur /\ poll = "kill")
  /\ working_cnt = Len(head["work"]) + Len(head["unplug"])
  /\ \A j, k \in 1 .. Len(told) :
       j < k /\ told[j].id = told[k].id => told[j].status = 1 /\ told[k].status = 0
  /\ \A j \in 1 .. Len(told) : told[j].status = 0 => \E k \in 1 .. j - 1 : told[k].id = told[j].id

Announced(i) == i <= Len(uarts) /\ uarts[i].named

(* A device that was found is announced, unless another one was found      *)
(* before the poll thread looked; and a device whose line is gone for good *)
(* is announced as gone.                                                   *)
FoundSettled ==
  \A i \in 1 .. Len(uarts) :
    /\ uarts[i].usta = "hotplug" => i \in overtaken \/ Announced(i)
    /\ uarts[i].recv /\ turns = MaxTurns /\ line[uarts[i].name] = "gone" => uarts[i].freed
FoundWorks == <>[]FoundSettled
=============================================================================
