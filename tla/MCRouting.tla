----------------------------- MODULE MCRouting -----------------------------
(***************************************************************************)
(* A small proxy for TLC: two hosts, two client groups, two balancers and  *)
(* two servers, one of them redundant.                                     *)
(***************************************************************************)
EXTENDS Routing, TLC

CONSTANTS h1, h2, k1, k2, s1, s2

MCHosts   == {h1, h2}
MCClients == {k1, k2}
MCServers == {s1, s2}

\* Host h1 is in both groups, so that it overflows from k1 to k2.
MCSources == k1 :> {h1} @@ k2 :> {h1, h2}

MCBalancers == << [clients |-> <<k1, k2>>, servers |-> {s1, s2}],
                  [clients |-> <<k2>>,     servers |-> {s2}] >>

MCRedundant   == {s2}
MCConfSlots   == s1 :> 1 @@ s2 :> 2
MCClientSlots == k1 :> 1 @@ k2 :> 2

Symmetry == Permutations(Routes) \cup Permutations(Chans)
-----------------------------------------------------------------------------
\* One host, for the questions that need no second one.
OneHost    == {h1}
OneClient  == {k1}
OneSources == k1 :> {h1}
OneBalancer == << [clients |-> <<k1>>, servers |-> {s1, s2}] >>
OneClientSlots == k1 :> 2
=============================================================================
