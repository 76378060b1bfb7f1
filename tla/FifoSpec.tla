------------------------------ MODULE FifoSpec ------------------------------
(***************************************************************************)
(* A bounded byte queue as its users see it: the content, and the last     *)
(* call with its arguments and the bytes it handed to its caller.          *)
(***************************************************************************)
EXTENDS Fifo

CONSTANTS Size, Chunks, Limits, Counts

VARIABLES content, last

Call(op, data, a, b, out) == [op |-> op, data |-> data, a |-> a, b |-> b, out |-> out]

Init == content = <<>> /\ last = Call("reset", <<>>, 0, 0, <<>>)

Put(data, limit) ==
  /\ content' = Pushed(content, data, Taken(content, Size, Len(data), limit))
  /\ last' = Call("in", data, limit, 0, <<>>)

Take(n) ==
  /\ last' = Call("out", <<>>, n, 0, Oldest(content, n))
  /\ content' = Dropped(content, n)

Look(start, n) ==
  /\ last' = Call("get", <<>>, start, n, Peeked(content, start, n))
  /\ UNCHANGED content

Clear == content' = <<>> /\ last' = Call("reset", <<>>, 0, 0, <<>>)

Next ==
  \/ \E data \in Chunks, limit \in Limits : Put(data, limit)
  \/ \E n \in Counts : Take(n)
  \/ \E start, n \in Counts : Look(start, n)
  \/ Clear

Spec == Init /\ [][Next]_<<content, last>>
=============================================================================
