----------------------------- MODULE MCSockNode -----------------------------
(* Instances of SockNode for TLC.  Sessions are model values.              *)
EXTENDS SockNode

CONSTANTS s1, s2, s3
Three == {s1, s2, s3}

Kind(used, overlap, exit, unplug) ==
  [used |-> used, overlap |-> overlap, exit |-> exit, unplug |-> unplug]

\* Three sessions in turn; two, with exits and an unplugged device; and two
\* of which the second may open while the first one still closes.
OneAfterTheOther == {Kind(Three, "never", FALSE, FALSE),
                     Kind({s1, s2}, "never", TRUE, TRUE),
                     Kind({s1, s2}, "closing", FALSE, FALSE)}
\* The device is unplugged.
Unplugging == {Kind({s1, s2}, "never", FALSE, TRUE)}
=============================================================================
