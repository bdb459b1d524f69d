------------------------------- MODULE Stream -------------------------------
(***************************************************************************)
(* What a reliable byte stream through the proxy promises: the reader gets *)
(* what the writer sent, in order and without gaps, from some point on.    *)
(*                                                                         *)
(* A stream may be cut short, when the connection ends.  It may also lose  *)
(* its beginning, but only as long as the reader has not got anything:     *)
(* that is what a failover does to a client that speaks first.             *)
(***************************************************************************)
EXTENDS Integers, Sequences

CONSTANT Bytes

VARIABLES
    sent,       \* all that the writer has sent
    got,        \* all that the reader's side has been given
    from        \* how much of sent comes before what is in got

vars == <<sent, got, from>>

Init == sent = <<>> /\ got = <<>> /\ from = 0

Put ==
    /\ \E b \in Bytes : sent' = Append(sent, b)
    /\ UNCHANGED <<got, from>>

\* The reader gets some of what comes next.
Deliver ==
    /\ \E n \in from + Len(got) + 1 .. Len(sent) : got' = SubSeq(sent, from + 1, n)
    /\ UNCHANGED <<sent, from>>

\* What has been sent so far may be lost before the first delivery.
Skip ==
    /\ got = <<>>
    /\ from' \in from + 1 .. Len(sent)
    /\ UNCHANGED <<sent, got>>

Next == Put \/ Deliver \/ Skip

Spec == Init /\ [][Next]_vars
=============================================================================
