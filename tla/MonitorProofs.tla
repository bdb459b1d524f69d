--------------------------- MODULE MonitorProofs ---------------------------
(***************************************************************************)
(* Type correctness of Monitor.                                            *)
(***************************************************************************)
EXTENDS Monitor, TLAPS

USE MonitorAssumption

\* A function on the servers that is changed at one of them.
LEMMA SetType ==
    ASSUME NEW V, NEW f \in [Servers -> V], NEW s \in Servers, NEW v \in V
    PROVE  Set(f, s, v) \in [Servers -> V]
  BY DEF Set

LEMMA DeactivateType ==
    ASSUME TypeOK, NEW s \in Servers, Deactivate(s)
    PROVE  /\ active' \in [Servers -> BOOLEAN]
           /\ num_faults' \in [Servers -> 0 .. MaxFaults - 1]
           /\ max_slots' = max_slots
<1>1. 0 \in 0 .. MaxFaults - 1
  OBVIOUS
<1>2. active' \in [Servers -> BOOLEAN]
  BY DEF TypeOK, Deactivate, Set
<1>3. num_faults' \in [Servers -> 0 .. MaxFaults - 1]
  <2>1. num_faults \in [Servers -> 0 .. MaxFaults - 1]
    BY DEF TypeOK
  <2>2. Set(num_faults, s, 0) \in [Servers -> 0 .. MaxFaults - 1]
    BY <1>1, <2>1, SetType
  <2> QED
    BY <2>1, <2>2 DEF Deactivate
<1> QED
  BY <1>2, <1>3 DEF Deactivate

LEMMA DoneType ==
    ASSUME callback \in CallbackRec, NEW s \in callback.todo, callback.at # "check"
    PROVE  /\ Done(s) \in CallbackRec
           /\ Done(s).at \notin {"check", "ask"}
  BY DEF CallbackRec, Done, Idle

LEMMA CheckType ==
    ASSUME TypeOK, NEW s \in Servers, BeginCheck(s) \/ SkipCheck(s)
    PROVE  TypeOK'
<1>1. stat_due' \in [Servers -> BOOLEAN]
  BY DEF TypeOK, BeginCheck, SkipCheck, timers, Set
<1>2. /\ callback' \in CallbackRec
      /\ callback'.at \in {"check", "ask"} => callback'.svr \in callback'.todo
  BY DEF TypeOK, CallbackRec, BeginCheck, SkipCheck
<1> QED
  BY <1>1, <1>2 DEF TypeOK, BeginCheck, SkipCheck, shared, timers

LEMMA EndCheckType ==
    ASSUME TypeOK, EndCheck
    PROVE  TypeOK'
<1> DEFINE s == callback.svr
<1>1. s \in Servers /\ s \in callback.todo /\ callback.at = "check"
  BY DEF TypeOK, CallbackRec, EndCheck
<1>2. /\ active' \in [Servers -> BOOLEAN]
      /\ num_faults' \in [Servers -> 0 .. MaxFaults - 1]
      /\ max_slots' = max_slots
  <2>1. CASE Deactivate(s)
    BY <1>1, <2>1, DeactivateType
  <2>2. CASE active' = Set(active, s, TRUE) /\ UNCHANGED <<max_slots, num_faults>>
    BY <1>1, <2>2 DEF TypeOK, Set
  <2> QED
    BY <2>1, <2>2 DEF EndCheck
<1>3. stat_due' \in [Servers -> BOOLEAN]
  BY <1>1, SetType DEF TypeOK, EndCheck
<1>4. /\ callback' \in CallbackRec
      /\ callback'.at \in {"check", "ask"} => callback'.svr \in callback'.todo
  BY <1>1 DEF TypeOK, CallbackRec, EndCheck
<1> QED
  BY <1>2, <1>3, <1>4 DEF TypeOK, EndCheck

LEMMA AskType ==
    ASSUME TypeOK, Ask
    PROVE  TypeOK'
<1> DEFINE s == callback.svr
<1>1. s \in Servers /\ s \in callback.todo /\ callback.at = "ask"
  BY DEF TypeOK, CallbackRec, Ask
<1>2. first_check' \in [Servers -> BOOLEAN] /\ info_due' \in [Servers -> BOOLEAN]
  BY <1>1, SetType DEF TypeOK, Ask
<1>3. /\ callback' \in CallbackRec
      /\ callback'.at \notin {"check", "ask"}
  BY <1>1, DoneType DEF TypeOK, Ask
<1> QED
  BY <1>2, <1>3 DEF TypeOK, Ask, shared

LEMMA ApplyType ==
    ASSUME TypeOK, NEW s \in Servers, Apply(s)
    PROVE  TypeOK'
<1>1. /\ callback.at = "info" /\ s \in callback.todo
      /\ callback' = Done(s) /\ UNCHANGED <<num_slots, up>>
      /\ callback.item \in Item
  BY DEF TypeOK, CallbackRec, Apply
<1>2. /\ callback' \in CallbackRec
      /\ callback'.at \notin {"check", "ask"}
  BY <1>1, DoneType DEF TypeOK
<1>3. CASE Ignore(s)
  BY <1>1, <1>2, <1>3 DEF TypeOK, Ignore, shared, timers
<1>4. CASE ~Ignore(s)
  <2> DEFINE item == callback.item
  <2>1. /\ Degrade(s, item) \/ TakeOver(s, item) \/ Lost(s, item)
        /\ info_due' = Set(info_due, s, FALSE)
        /\ UNCHANGED <<first_check, stat_due>>
    BY <1>4 DEF Apply
  <2>2. info_due' \in [Servers -> BOOLEAN]
    BY <2>1, SetType DEF TypeOK
  <2>3. /\ active' \in [Servers -> BOOLEAN]
        /\ max_slots' \in [Servers -> Nat]
        /\ \A x \in Servers : max_slots'[x] \in 1 .. ConfSlots[x]
        /\ num_faults' \in [Servers -> 0 .. MaxFaults - 1]
        /\ check_mode' \in [Servers -> 0 .. 3]
    <3>1. CASE Degrade(s, item)
      <4>1. check_mode' \in [Servers -> 0 .. 3]
        BY <3>1 DEF TypeOK, Degrade, CONN, Set
      <4> QED
        BY <3>1, <4>1 DEF TypeOK, Degrade, shared
    <3>2. CASE TakeOver(s, item)
      <4>1. PICK n \in Nat : n \in 1 .. ConfSlots[s] /\ max_slots' = Set(max_slots, s, n)
        <5>1. max_slots[s] \in Nat /\ max_slots[s] \in 1 .. ConfSlots[s] /\ ConfSlots[s] \in Nat
          BY DEF TypeOK
        <5>2. CASE item.cmax \in 1 .. max_slots[s] - 1
          <6>1. item.cmax \in Nat /\ item.cmax \in 1 .. ConfSlots[s]
            BY <5>1, <5>2
          <6> QED
            BY <3>2, <5>1, <6>1 DEF TakeOver
        <5>3. CASE item.cmax \notin 1 .. max_slots[s] - 1
          BY <3>2, <5>1, <5>3 DEF TakeOver
        <5> QED
          BY <5>2, <5>3
      <4>2. /\ max_slots' \in [Servers -> Nat]
            /\ \A x \in Servers : max_slots'[x] \in 1 .. ConfSlots[x]
        BY <4>1 DEF TypeOK, Set
      <4>3. active' \in [Servers -> BOOLEAN]
        BY <1>1, <3>2, SetType DEF TypeOK, TakeOver, Item
      <4> QED
        BY <3>2, <4>2, <4>3 DEF TypeOK, TakeOver
    <3>3. CASE Lost(s, item)
      BY <3>3, DeactivateType DEF TypeOK, Lost
    <3> QED
      BY <2>1, <3>1, <3>2, <3>3
  <2> QED
    BY <1>1, <1>2, <2>1, <2>2, <2>3 DEF TypeOK
<1> QED
  BY <1>3, <1>4

LEMMA EventType ==
    ASSUME TypeOK, Events
    PROVE  TypeOK'
<1>1. /\ callback' \in CallbackRec
      /\ callback'.at \notin {"check", "ask"}
      /\ UNCHANGED <<shared, num_slots, timers, up>>
  BY DEF Events, TimerEvent, InfoEvent, CallbackRec
<1> QED
  BY <1>1 DEF TypeOK, shared, timers

\* The steps of the environment.
LEMMA EnvironmentType ==
    ASSUME TypeOK, NEW s \in Servers,
           \/ StatDue(s) \/ InfoDue(s) \/ UpOrDown(s)
           \/ Fault(s) \/ Connected(s) \/ Slots(s)
    PROVE  TypeOK'
<1>1. CASE StatDue(s) \/ InfoDue(s) \/ UpOrDown(s)
  <2>1. CASE StatDue(s)
    <3>1. stat_due' \in [Servers -> BOOLEAN]
      BY <2>1 DEF TypeOK, StatDue, Set
    <3> QED
      BY <2>1, <3>1 DEF TypeOK, StatDue, shared
  <2>2. CASE InfoDue(s)
    <3>1. info_due' \in [Servers -> BOOLEAN]
      BY <2>2 DEF TypeOK, InfoDue, Set
    <3> QED
      BY <2>2, <3>1 DEF TypeOK, InfoDue, shared
  <2>3. CASE UpOrDown(s)
    <3>1. up' \in [Servers -> BOOLEAN]
      BY <2>3 DEF TypeOK, UpOrDown, Set
    <3> QED
      BY <2>3, <3>1 DEF TypeOK, UpOrDown, shared, timers
  <2> QED
    BY <1>1, <2>1, <2>2, <2>3
<1>2. CASE Fault(s)
  <2>1. num_faults[s] \in 0 .. MaxFaults - 1
    BY DEF TypeOK
  <2>2. (IF num_faults[s] + 1 >= MaxFaults THEN 0 ELSE num_faults[s] + 1) \in 0 .. MaxFaults - 1
    BY <2>1
  <2>3. /\ num_faults' \in [Servers -> 0 .. MaxFaults - 1]
        /\ active' \in [Servers -> BOOLEAN]
    BY <1>2, <2>2, SetType DEF TypeOK, Fault
  <2> QED
    BY <1>2, <2>3 DEF TypeOK, Fault, timers
<1>3. CASE Connected(s)
  <2>1. 0 \in 0 .. MaxFaults - 1
    OBVIOUS
  <2> QED
    BY <1>3, <2>1, SetType DEF TypeOK, Connected, timers
<1>4. CASE Slots(s)
  <2>1. PICK n \in 0 .. SlotBound : num_slots' = Set(num_slots, s, n)
    BY <1>4 DEF Slots
  <2>2. num_slots' \in [Servers -> 0 .. SlotBound]
    BY <2>1 DEF TypeOK, Set
  <2> QED
    BY <1>4, <2>2 DEF TypeOK, Slots, shared, timers
<1> QED
  BY <1>1, <1>2, <1>3, <1>4

\* Every variable of the monitor keeps its type: limits stay within the
\* configuration whatever servers report, and a check has its server in its list.
THEOREM TypeCorrect == Spec => []TypeOK
<1>1. Init => TypeOK
  BY DEF Init, TypeOK, CallbackRec, Idle
<1>2. TypeOK /\ [Next]_vars => TypeOK'
  <2> SUFFICES ASSUME TypeOK, [Next]_vars PROVE TypeOK'
    OBVIOUS
  <2>1. CASE Callback
    BY <2>1, CheckType, ApplyType, EndCheckType, AskType DEF Callback
  <2>2. CASE Events
    BY <2>2, EventType
  <2>3. CASE Clock \/ MainThread \/ \E s \in Servers : UpOrDown(s)
    BY <2>3, EnvironmentType DEF Clock, MainThread
  <2>4. CASE UNCHANGED vars
    BY <2>4 DEF TypeOK, vars, shared, timers
  <2> QED
    BY <2>1, <2>2, <2>3, <2>4 DEF Next
<1> QED
  BY <1>1, <1>2, PTL DEF Spec
=============================================================================
