------------------------------ MODULE MCProxy ------------------------------
(***************************************************************************)
(* One host and one server that synchronizes its limit.                    *)
(***************************************************************************)
EXTENDS Proxy, TLC

CONSTANTS h1, k1, s1, m1

MCHosts   == {h1}
MCClients == {k1}
MCServers == {s1}
MCSources   == k1 :> {h1}
MCBalancers == << [clients |-> <<k1>>, servers |-> {s1}] >>
MCRedundant   == {}
MCConfSlots   == s1 :> 2
MCClientSlots == k1 :> 2
MCMachines  == {m1}
MCMachineOf == s1 :> m1
MCCheckMode == s1 :> 3
=============================================================================
