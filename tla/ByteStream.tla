----------------------------- MODULE ByteStream -----------------------------
(***************************************************************************)
(* What the daemon promises for the transmit direction of one baseband     *)
(* socket, without rings, cursors, packets or threads: a stream of bytes   *)
(* that the daemon accepted from the application, of which the device has  *)
(* received a prefix, of which a prefix has been confirmed to the          *)
(* application as written.                                                 *)
(***************************************************************************)
EXTENDS Naturals, Sequences

CONSTANT Byte          \* the values a byte may take

VARIABLES
  accepted,            \* every byte the daemon took from the application
  delivered,           \* every byte the device took from the daemon
  confirmed            \* how many bytes were reported written

streamVars == <<accepted, delivered, confirmed>>

\* s is a prefix of t, byte by byte.
Extends(s, t) ==
  /\ Len(s) <= Len(t)
  /\ \A i \in 1 .. Len(s) : s[i] = t[i]

Init ==
  /\ accepted = <<>>
  /\ delivered = <<>>
  /\ confirmed = 0

(* The daemon accepts some more bytes: none already accepted changes.      *)
Accept ==
  /\ accepted' \in Seq(Byte)
  /\ Extends(accepted, accepted')
  /\ UNCHANGED <<delivered, confirmed>>

(* The device receives the next bytes of the stream: nothing is skipped,   *)
(* repeated, reordered or altered.                                         *)
Deliver ==
  /\ delivered' \in Seq(Byte)
  /\ Extends(delivered, delivered')
  /\ Extends(delivered', accepted)
  /\ UNCHANGED <<accepted, confirmed>>

(* The application is told of more bytes, all of which the device has.     *)
Confirm ==
  /\ confirmed' \in confirmed .. Len(delivered)
  /\ UNCHANGED <<accepted, delivered>>

Next == Accept \/ Deliver \/ Confirm

Spec == Init /\ [][Next]_streamVars
=============================================================================
