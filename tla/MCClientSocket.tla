--------------------------- MODULE MCClientSocket ---------------------------
(* Instances of ClientSocket for TLC: up to two writers or readers, a ring *)
(* smaller than what is received, writes of two messages.                  *)
EXTENDS ClientSocket

TwoWriters == {"w1", "w2"}
TwoReaders == {"r1", "r2"}
OneQuerier == {"q1"}

Kind(callers, may, msgs) == [callers |-> callers, may |-> may, msgs |-> msgs]

\* Each way a call may go wrong, alone and beside calls of the other kinds.
AllKinds ==
  {Kind({"r1", "r2"}, {"data", "timeout", "close"}, 0),
   Kind({"r1", "w1"}, {"hangup", "close"}, 1),
   Kind({"w1"}, {"timeout", "full", "close"}, 2), Kind({"w1"}, {"full", "close"}, 3),
   Kind({"w1", "w2"}, {}, 1),
   Kind({"q1", "r1"}, {"data", "hangup", "discard", "close"}, 0),
   Kind({}, {"refuse", "hangup"}, 0),
   Kind({"r1"}, {"data", "spurious", "close"}, 0)}
=============================================================================
