---------------------------- MODULE MCSelection -----------------------------
(* Three servers, one of them redundant, and two client groups with the source  *)
(* of the connection.  The run starts from three families of states, each large *)
(* where the others are small: what the callback may write during a selection,  *)
(* to one server's limits or to two servers' use, and the figures of a score.   *)
EXTENDS Selection, TLC

CONSTANTS k1, k2, s1, s2, s3

\* With group k1 full the second balancer serves k2.
MCBalancers == << [clients |-> <<k1>>, servers |-> <<s1, s3>>,
                   method |-> "bybusyness", metrics |-> {"cap", "mem", "cpu"}],
                  [clients |-> <<k1, k2>>, servers |-> <<s3, s1, s2>>,
                   method |-> "byrequests", metrics |-> {"cap", "cpu"}] >>

\* The second balancer does not list the server s1 of the first one.
ApartBalancers == << [clients |-> <<k1>>, servers |-> <<s1, s2>>,
                      method |-> "bybusyness", metrics |-> {"cap"}],
                     [clients |-> <<k1, k2>>, servers |-> <<s3, s2>>,
                      method |-> "byrequests", metrics |-> {"cap"}] >>

MCWeight == s1 :> 100 @@ s2 :> 50 @@ s3 :> 50
MCConfSlots == [s \in Servers |-> MaxSlots]
MCClientSlots == k1 :> 1 @@ k2 :> 1

Records(actives, limits, users, cmaxs, figures) ==
    [active : actives, limit : limits, users : users, cmax : cmaxs, mem : figures, cpu : figures]

\* What the callback may write during the selection: all that limits s1, in states
\* with another server, or whether a server is active or full.
Limits == {s1 :> x @@ s2 :> y @@ s3 :> z : x \in Records(BOOLEAN, 1 .. 2, 0 .. 1, 0 .. 1, {None}),
                                           y \in Records(BOOLEAN, {1}, {0}, {0}, {None}),
                                           z \in Records({TRUE}, {1}, {0}, {0}, {None})}

Switches == LET full == Records(BOOLEAN, {1}, {0, 2}, {0}, {None})
            IN {s1 :> x @@ s2 :> y @@ s3 :> z : x \in full, y \in full,
                                                z \in Records(BOOLEAN, {1}, {0}, {0}, {None})}

Written ==
    /\ status \in Limits \cup Switches
    /\ num_slots \in {s1 :> m @@ s2 :> 0 @@ s3 :> 1 - m : m \in 0 .. 1}
    /\ \E m \in 0 .. 1 : client_slots = k1 :> m @@ k2 :> 0

\* Two fields are written in a selection, each as often as it may.
FewWritten == Cardinality({<<s, f>> \in Servers \X {"active", "limit", "users", "cmax"} :
                              Cardinality(seen[s][f]) > 1}) <= 2

\* s1 and s3 with all figures, limits and numbers of channels; nothing is written.
Measured ==
    /\ \E x, y \in Records({TRUE}, 1 .. 2, {0}, {0}, Percent \cup {None}) :
         \E z \in Records({TRUE}, {1}, {0}, {0}, {None}) :
           status = s1 :> x @@ s2 :> z @@ s3 :> y
    /\ \E m, n \in 0 .. 2 : num_slots = s1 :> m @@ s2 :> 0 @@ s3 :> n
    /\ \E m \in 0 .. 1 : client_slots = k1 :> m @@ k2 :> 0
    /\ nosvr = None

MCInit == (Written \/ Measured) /\ Init

MCNext ==
    \/ Select
    \/ /\ \E s \in Servers : Write(s)
       /\ \E family \in {Limits, Switches} : {status, status'} \subseteq family
       /\ FewWritten'

MCSpec == MCInit /\ [][MCNext]_vars
=============================================================================
