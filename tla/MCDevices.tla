----------------------------- MODULE MCDevices ------------------------------
(***************************************************************************)
(* The two drivers of the daemon, for TLC.  Part "usb": module UsbDev with *)
(* one port, two transfers each way and two devices one after the other.   *)
(* Part "uart": module UartDev with two lines.  The part that is not run   *)
(* keeps a first state.                                                    *)
(***************************************************************************)
EXTENDS UsbDev

CONSTANTS Names, MaxAdds, MaxTurns, ClockSteps
ASSUME NamesAssumption == Names # {}
ASSUME UartBounds == MaxAdds \in Nat \ {0} /\ MaxTurns \in Nat /\ ClockSteps \in BOOLEAN

VARIABLES part, line, turns, uarts, head, working_cnt, hotplug, cur, adder, nxtid, hotplugs, overtaken
uartVars == <<line, turns, uarts, head, working_cnt, hotplug, cur, adder, nxtid, hotplugs, overtaken>>
usbVars == vars
allVars == <<part, usbVars, uartVars>>

S == INSTANCE UartDev WITH poll <- hotplug, told <- hotplugs

PartsInit ==
  /\ Init /\ S!Init /\ part \in {"usb", "uart"}
  /\ part = "usb" =>
       /\ line = [n \in Names |-> "answers"] /\ adder.poll.name = CHOOSE n \in Names : TRUE
  /\ part = "uart" => mode = CHOOSE m \in Modes : TRUE

OfUsb(A) == part = "usb" /\ A /\ UNCHANGED <<part, uartVars>>
OfUart(A) == part = "uart" /\ A /\ UNCHANGED <<part, usbVars>>

PartsNext ==
  \/ part = "usb" /\ Next /\ UNCHANGED <<part, uartVars>>
  \/ part = "uart" /\ S!Next /\ UNCHANGED <<part, usbVars>>

(* The fairness of the two modules, an action of each in one conjunct:     *)
(* only one part runs.                                                     *)
Each(A, B) == OfUsb(A) \/ OfUart(B)

PartsSpec ==
  /\ PartsInit /\ [][PartsNext]_allVars
  /\ WF_allVars(Each(Poll, S!Poll)) /\ WF_allVars(Each(Send, S!AddOf("poll")))
  /\ WF_allVars(Each(TxDone, S!AddOf("client"))) /\ WF_allVars(Each(TxAborted, S!Searches(1)))
  /\ WF_allVars(Each(RxData, S!Searches(2))) /\ WF_allVars(Each(RxAborted, S!Expires(1)))
  /\ WF_allVars(Each(AliveCb, S!Expires(2))) /\ WF_allVars(OfUsb(RecvEnd))

(* UartSafe of module UartDev.                                             *)
UartSafe == S!UartSafe
(* An unplugged device is gone in the end (UnplugEnds of UsbDev), and a    *)
(* serial device that is found is put to work (FoundWorks of UartDev).     *)
DevicesGoOn == UnplugEnds /\ S!FoundWorks
=============================================================================
