------------------------------- MODULE Proxy -------------------------------
(***************************************************************************)
(* The proxy as a whole: the main thread of Routing and the callback of    *)
(* Monitor, on the servers they share without a lock.  Each module has the *)
(* other one as its environment; here both run, and the proxy implements   *)
(* each of them: what is shown of Routing or of Monitor holds of the       *)
(* proxy.                                                                  *)
(***************************************************************************)
EXTENDS Routing

CONSTANTS Machines, MachineOf, CheckMode, InfoLimits, SlotBound

VARIABLES check_mode, first_check, stat_due, info_due, up, callback

Mon == INSTANCE Monitor

ASSUME ProxyAssumption ==
    /\ MachineOf \in [Servers -> Machines]
    /\ CheckMode \in [Servers -> 0 .. 3]
    /\ InfoLimits \in SUBSET Nat
    /\ SlotBound \in Nat /\ Cardinality(Chans) <= SlotBound

monitor == <<check_mode, first_check, stat_due, info_due, up, callback>>
proxy   == <<vars, monitor>>

ProxyInit == Init /\ Mon!Init

\* A step of the main thread, of the callback (or of what it waits for), or of
\* the clock.
MainStep     == MainNext /\ UNCHANGED monitor
CallbackStep == /\ \/ Mon!Callback \/ Mon!Events \/ Mon!Clock
                   \/ \E s \in Servers : Mon!UpOrDown(s)
                /\ UNCHANGED <<client_slots, objects, sweep, main>>
ClockStep    == Tick /\ UNCHANGED monitor

ProxyNext == MainStep \/ CallbackStep \/ ClockStep

ProxySpec == ProxyInit /\ [][ProxyNext]_proxy /\ WF_vars(Proceed) /\ Mon!Fairness

-----------------------------------------------------------------------------
\* The proxy implements Routing: everything the callback does to a server is a
\* status change that Routing expects.
ImplementsRouting == Spec

\* The proxy implements Monitor: everything the main thread does to a server is a
\* fault, a connection or a change of slots that Monitor expects.
ImplementsMonitor == Mon!Spec
=============================================================================
