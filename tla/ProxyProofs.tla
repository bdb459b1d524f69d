---------------------------- MODULE ProxyProofs ----------------------------
(***************************************************************************)
(* The proxy implements Routing and Monitor: what is proved of one of them *)
(* under its environment holds when both run.                              *)
(***************************************************************************)
EXTENDS Proxy, RoutingProofs

USE ProxyAssumption

\* What a step of the callback relies on: its list has servers of the
\* configuration, and the server of its turn is in the list.
CallbackOK ==
    /\ callback \in Mon!CallbackRec
    /\ callback.at \in {"check", "ask"} => callback.svr \in callback.todo

ProxyInv == IInv /\ CallbackOK

-----------------------------------------------------------------------------
(* The callback.                                                           *)

LEMMA DoneOK ==
    ASSUME CallbackOK, NEW s \in callback.todo, callback.at # "check"
    PROVE  /\ Mon!Done(s) \in Mon!CallbackRec
           /\ Mon!Done(s).at \notin {"check", "ask"}
  BY DEF CallbackOK, Mon!CallbackRec, Mon!Done, Mon!Idle

\* Every step that moves the callback leaves it in order.
LEMMA CallbackKeeps ==
    ASSUME CallbackOK, Mon!Callback \/ Mon!Events
    PROVE  CallbackOK'
<1>1. ASSUME NEW s \in Servers, Mon!BeginCheck(s) \/ Mon!SkipCheck(s) PROVE CallbackOK'
  BY <1>1 DEF CallbackOK, Mon!CallbackRec, Mon!BeginCheck, Mon!SkipCheck
<1>2. ASSUME NEW s \in Servers, Mon!Apply(s) PROVE CallbackOK'
  BY <1>2, DoneOK DEF CallbackOK, Mon!Apply
<1>3. CASE Mon!EndCheck
  BY <1>3 DEF CallbackOK, Mon!CallbackRec, Mon!EndCheck
<1>4. CASE Mon!Ask
  BY <1>4, DoneOK DEF CallbackOK, Mon!Ask
<1>5. CASE Mon!Events
  BY <1>5 DEF CallbackOK, Mon!CallbackRec, Mon!Events, Mon!TimerEvent, Mon!InfoEvent
<1> QED
  BY <1>1, <1>2, <1>3, <1>4, <1>5 DEF Mon!Callback

LEMMA ProxyKeepsCallback ==
    ASSUME CallbackOK, [ProxyNext]_proxy
    PROVE  CallbackOK'
<1>1. CASE UNCHANGED callback
  BY <1>1 DEF CallbackOK
<1>2. CASE Mon!Callback \/ Mon!Events
  BY <1>2, CallbackKeeps
<1>3. CASE Mon!Clock \/ \E s \in Servers : Mon!UpOrDown(s)
  BY <1>1, <1>3 DEF Mon!Clock, Mon!StatDue, Mon!InfoDue, Mon!UpOrDown
<1> QED
  BY <1>1, <1>2, <1>3 DEF ProxyNext, MainStep, CallbackStep, ClockStep, proxy, monitor

\* What the end of a check does to its server is a change of status.
LEMMA EndCheckStep ==
    ASSUME CallbackOK, Mon!EndCheck
    PROVE  /\ \E s \in Servers : Activate(s) \/ Deactivate(s)
           /\ UNCHANGED num_slots
<1>1. callback.svr \in Servers
  BY DEF CallbackOK, Mon!CallbackRec, Mon!EndCheck
<1>2. Activate(callback.svr) \/ Deactivate(callback.svr)
  BY DEF Mon!EndCheck, Mon!Deactivate, Mon!Set, Activate, Deactivate
<1> QED
  BY <1>1, <1>2 DEF Mon!EndCheck

\* The info of a server changes its status, lowers its limit, or nothing.
LEMMA ApplyStep ==
    ASSUME IInv, CallbackOK, NEW s \in Servers, Mon!Apply(s)
    PROVE  /\ Inform(s) \/ Deactivate(s) \/ UNCHANGED status
           /\ UNCHANGED num_slots
<1> DEFINE item == callback.item
<1>1. /\ Mon!Ignore(s) \/ Mon!Degrade(s, item) \/ Mon!TakeOver(s, item) \/ Mon!Lost(s, item)
      /\ UNCHANGED num_slots
      /\ item \in Mon!Item
  BY DEF CallbackOK, Mon!CallbackRec, Mon!Apply
<1>2. CASE Mon!Ignore(s) \/ Mon!Degrade(s, item)
  BY <1>1, <1>2 DEF Mon!Ignore, Mon!Degrade, Mon!shared, status
<1>3. CASE Mon!TakeOver(s, item)
  <2>1. max_slots[s] \in Nat \ {0}
    BY DEF IInv, TypeOK
  <2>2. \E n \in 1 .. max_slots[s] : max_slots' = [max_slots EXCEPT ![s] = n]
    <3> DEFINE shrinks == check_mode[s] >= Mon!SYNC /\ item.cmax \in 1 .. max_slots[s] - 1
               n == IF shrinks THEN item.cmax ELSE max_slots[s]
    <3>1. n \in 1 .. max_slots[s]
      BY <2>1
    <3>2. max_slots' = [max_slots EXCEPT ![s] = n]
      BY <1>3, Zenon DEF Mon!TakeOver, Mon!Set
    <3> QED
      BY <3>1, <3>2
  <2>3. item.active \in BOOLEAN /\ active' = [active EXCEPT ![s] = item.active]
    BY <1>1, <1>3 DEF Mon!TakeOver, Mon!Set, Mon!Item
  <2>4. UNCHANGED num_faults
    BY <1>3 DEF Mon!TakeOver
  <2> QED
    BY <1>1, <2>2, <2>3, <2>4 DEF Inform
<1>4. CASE Mon!Lost(s, item)
  BY <1>1, <1>4 DEF Mon!Lost, Mon!Deactivate, Mon!Set, Deactivate
<1> QED
  BY <1>1, <1>2, <1>3, <1>4

\* Every step of the proxy is a step of Routing, or changes nothing in it.
LEMMA RoutingStep ==
    ASSUME IInv, CallbackOK, [ProxyNext]_proxy
    PROVE  [Next]_vars
<1>1. CASE MainStep \/ ClockStep
  BY <1>1 DEF MainStep, ClockStep, Next
<1>2. CASE CallbackStep
  <2>1. UNCHANGED <<client_slots, objects, sweep, main>>
    BY <1>2 DEF CallbackStep
  <2>2. ASSUME NEW s \in Servers, Mon!BeginCheck(s) \/ Mon!SkipCheck(s) \/ Mon!UpOrDown(s)
        PROVE  UNCHANGED <<status, num_slots>>
    BY <2>2 DEF Mon!BeginCheck, Mon!SkipCheck, Mon!UpOrDown, Mon!shared, status
  <2>3. CASE Mon!Ask \/ Mon!Events \/ Mon!Clock
    <3>1. UNCHANGED <<status, num_slots>>
      BY <2>3 DEF Mon!Ask, Mon!Events, Mon!TimerEvent, Mon!InfoEvent, Mon!Clock,
                  Mon!StatDue, Mon!InfoDue, Mon!shared, status
    <3> QED
      BY <2>1, <3>1 DEF vars, counts
  <2>4. ASSUME NEW s \in Servers, Activate(s) \/ Deactivate(s) \/ Inform(s), UNCHANGED num_slots
        PROVE  Next
    BY <2>1, <2>4 DEF Next, StatusChange, counts
  <2>5. CASE Mon!EndCheck
    BY <2>4, <2>5, EndCheckStep
  <2>6. ASSUME NEW s \in Servers, Mon!Apply(s) PROVE [Next]_vars
    BY <2>1, <2>4, <2>6, ApplyStep DEF vars, counts
  <2> QED
    BY <1>2, <2>1, <2>2, <2>3, <2>5, <2>6 DEF CallbackStep, Mon!Callback, vars, counts
<1>3. CASE UNCHANGED proxy
  BY <1>3 DEF proxy
<1> QED
  BY <1>1, <1>2, <1>3 DEF ProxyNext

LEMMA InitProxyInv == ProxyInit => ProxyInv
<1>1. Mon!Init => CallbackOK
  BY DEF Mon!Init, Mon!Idle, CallbackOK, Mon!CallbackRec
<1> QED
  BY <1>1, InitIInv DEF ProxyInit, ProxyInv

LEMMA NextProxyInv ==
    ASSUME ProxyInv, [ProxyNext]_proxy
    PROVE  ProxyInv'
  BY RoutingStep, NextIInv, ProxyKeepsCallback DEF ProxyInv

\* The callback thread does to the servers only what Routing expects of it, so
\* that every property of Routing holds of the proxy with its real callback.
THEOREM ProxyImplementsRouting == ProxySpec => ImplementsRouting
<1>1. ProxyInv /\ [ProxyNext]_proxy => ProxyInv'
  BY NextProxyInv
<1>2. ProxyInv /\ [ProxyNext]_proxy => [Next]_vars
  BY RoutingStep DEF ProxyInv
<1>3. ProxyInit => Init
  BY DEF ProxyInit
<1> QED
  BY InitProxyInv, <1>1, <1>2, <1>3, PTL DEF ProxySpec, ImplementsRouting, Spec

-----------------------------------------------------------------------------
(* The main thread.                                                        *)

\* The model's bound of the channels bounds the slots of every server, and of a
\* server that a channel is added to.
LEMMA SlotsBounded ==
    ASSUME IInv, NEW s \in Servers
    PROVE  /\ num_slots[s] \in 0 .. SlotBound
           /\ Chans \ DOMAIN chan # {} => num_slots[s] + 1 \in 0 .. SlotBound
<1>1. /\ num_slots[s] = Cardinality(OnServer(s)) /\ num_slots[s] \in Nat
      /\ OnServer(s) \subseteq DOMAIN chan /\ DOMAIN chan \subseteq Chans
  BY DEF IInv, SlotsExact, TypeOK, OnServer
<1>2. IsFiniteSet(Chans) /\ Cardinality(Chans) \in Nat /\ Cardinality(Chans) <= SlotBound
  BY RoutingAssumption, FS_CardinalityType
<1>3. Cardinality(OnServer(s)) <= Cardinality(Chans)
  BY <1>1, <1>2, FS_Subset
<1>4. ASSUME NEW c \in Chans \ DOMAIN chan PROVE num_slots[s] + 1 <= SlotBound
  <2>1. OnServer(s) \subseteq Chans \ {c}
    BY <1>1
  <2>2. /\ IsFiniteSet(Chans \ {c})
        /\ Cardinality(Chans \ {c}) = Cardinality(Chans) - 1
    BY <1>2, FS_RemoveElement
  <2>3. Cardinality(OnServer(s)) <= Cardinality(Chans \ {c})
    BY <2>1, <2>2, FS_Subset
  <2> QED
    BY <1>1, <1>2, <2>2, <2>3
<1> QED
  BY <1>1, <1>2, <1>3, <1>4

LEMMA ServerOfType ==
    ASSUME IInv, NEW c \in DOMAIN chan
    PROVE  ServerOf(c) \in Servers
  BY DEF IInv, TypeOK, NoDangling, RouteRec, ServerOf

\* A channel that goes takes its slot away.
LEMMA ReleaseStep ==
    ASSUME IInv, NEW c \in DOMAIN chan, Release(c), UNCHANGED <<status, monitor>>
    PROVE  Mon!Next
<1> DEFINE s == ServerOf(c)
<1>1. s \in Servers
  BY ServerOfType
<1>2. Dec(num_slots[s]) \in 0 .. SlotBound
  BY <1>1, SlotsBounded DEF Dec
<1>3. num_slots' = [num_slots EXCEPT ![s] = Dec(num_slots[s])]
  BY DEF Release
<1>4. Mon!Slots(s)
  BY <1>2, <1>3 DEF Mon!Slots, Mon!Set, Mon!shared, Mon!timers, status, monitor
<1> QED
  BY <1>1, <1>4 DEF Mon!Next, Mon!MainThread

LEMMA ConnectStartedStep ==
    ASSUME IInv, ConnectStarted, UNCHANGED monitor
    PROVE  Mon!Next
<1> DEFINE s == route[main.route].server
<1>1. s \in Servers
  BY DEF IInv, TypeOK, NoDangling, PhaseOK, RouteRec, ConnectStarted
<1>2. Chans \ DOMAIN chan # {}
  BY DEF ConnectStarted
<1>3. num_slots[s] + 1 \in 0 .. SlotBound
  BY <1>1, <1>2, SlotsBounded
<1>4. num_slots' = [num_slots EXCEPT ![s] = num_slots[s] + 1] /\ UNCHANGED status
  BY DEF ConnectStarted
<1>5. Mon!Slots(s)
  BY <1>3, <1>4 DEF Mon!Slots, Mon!Set, Mon!shared, Mon!timers, status, monitor
<1> QED
  BY <1>1, <1>5 DEF Mon!Next, Mon!MainThread

\* Every step of the proxy is a step of Monitor, or changes nothing in it.
LEMMA MonitorStep ==
    ASSUME IInv, [ProxyNext]_proxy
    PROVE  [Mon!Next]_(Mon!vars)
<1> USE DEF Mon!vars, Mon!shared, Mon!timers, status, monitor
<1>1. CASE CallbackStep
  BY <1>1 DEF CallbackStep, Mon!Next
<1>2. CASE ClockStep
  BY <1>2 DEF ClockStep, Tick, counts
<1>3. CASE MainStep
  <2>1. UNCHANGED monitor
    BY <1>3 DEF MainStep
  <2>2. ASSUME NEW c \in DOMAIN chan, ConnectError(c) PROVE Mon!Next
    <3>1. Mon!Fault(ServerOf(c))
      BY <2>1, <2>2 DEF ConnectError, counts, Mon!Fault, Mon!Set
    <3> QED
      BY <3>1, ServerOfType DEF Mon!Next, Mon!MainThread
  <2>3. ASSUME NEW c \in DOMAIN chan, SetConnected(c) PROVE Mon!Next
    <3>1. Mon!Connected(ServerOf(c))
      BY <2>1, <2>3 DEF SetConnected, counts, Mon!Connected, Mon!Set
    <3> QED
      BY <3>1, ServerOfType DEF Mon!Next, Mon!MainThread
  <2>4. ASSUME NEW c \in DOMAIN chan, Close(c) PROVE Mon!Next
    BY <2>1, <2>4, ReleaseStep DEF Close
  <2>5. CASE DropFailed
    <3>1. main.failed \in DOMAIN chan
      BY <2>5 DEF IInv, PhaseOK, NoDangling, DropFailed
    <3> QED
      BY <2>1, <2>5, <3>1, ReleaseStep DEF DropFailed
  <2>6. CASE ConnectStarted
    BY <2>1, <2>6, ConnectStartedStep
  <2>7. CASE \/ \E h \in Hosts : Accept(h)
             \/ RouteCached \/ PeerGone \/ ConnectRefused
             \/ \E busy \in SUBSET Servers : RouteFresh(busy) \/ RouteNone(busy)
    BY <2>1, <2>7 DEF Accept, RouteCached, PeerGone, ConnectRefused, RouteFresh, RouteNone, counts
  <2> QED
    BY <1>3, <2>2, <2>3, <2>4, <2>5, <2>6, <2>7 DEF MainStep, MainNext, Proceed
<1>4. CASE UNCHANGED proxy
  BY <1>4 DEF proxy, vars, counts
<1> QED
  BY <1>1, <1>2, <1>3, <1>4 DEF ProxyNext

\* The main thread does to the servers only what Monitor expects of it: what is
\* checked of the status checks there holds beside real connections.
THEOREM ProxyImplementsMonitor == ProxySpec => ImplementsMonitor
<1>1. ProxyInv /\ [ProxyNext]_proxy => ProxyInv'
  BY NextProxyInv
<1>2. ProxyInv /\ [ProxyNext]_proxy => [Mon!Next]_(Mon!vars)
  BY MonitorStep DEF ProxyInv
<1>3. ProxyInit => Mon!Init
  BY DEF ProxyInit
<1> QED
  BY InitProxyInv, <1>1, <1>2, <1>3, PTL DEF ProxySpec, ImplementsMonitor, Mon!Spec

-----------------------------------------------------------------------------
(* What the proxy inherits.                                                *)

\* The slot counters, the route objects and the cache stay consistent while the
\* callback thread switches servers on and off and lowers their limits.
THEOREM ProxyInvariant == ProxySpec => [](NoDangling /\ SlotsExact /\ OneOwner)
<1>1. IInv => NoDangling /\ SlotsExact /\ OneOwner
  BY DEF IInv
<1> QED
  BY ProxyImplementsRouting, Invariance, <1>1, PTL DEF ImplementsRouting
=============================================================================
