----------------------------- MODULE MCMonitor -----------------------------
(***************************************************************************)
(* Two servers on one machine, one of them only checked for connections.   *)
(***************************************************************************)
EXTENDS Monitor, TLC

CONSTANTS s1, s2, m1

MCServers   == {s1, s2}
MCMachines  == {m1}
MCMachineOf == s1 :> m1 @@ s2 :> m1
MCCheckMode == s1 :> 1 @@ s2 :> 3
MCConfSlots == s1 :> 1 @@ s2 :> 2
=============================================================================
