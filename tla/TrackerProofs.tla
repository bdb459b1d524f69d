--------------------------- MODULE TrackerProofs ---------------------------
(***************************************************************************)
(* The threads of the proxy wait for each other only in one situation, and *)
(* only the control thread may still use the objects of the proxy when they *)
(* are deleted, for any servers, connect timeouts and times to exit.       *)
(***************************************************************************)
EXTENDS Tracker, TLAPS

USE TrackerAssumption

\* A mutex that is seen as held is held in one place: the section by the tracker
\* that reports, the list's mutex by the control thread, the callbacks' mutex by the
\* thread that is in the callback.
InCallback == {"visit", "alarm", "resolve", "connect", "ask", "send"}

HoldersOK ==
    /\ holder["section"] \in {Nobody, "info"}
    /\ holder["section"] = "info" => pc["info"] = "report"
    /\ holder["servers"] \in {Nobody, "control"}
    /\ holder["callbacks"] \in {Nobody, "info", "control"}
    /\ holder["callbacks"] = "info" => pc["info"] \in InCallback

\* The tracker has its handle as long as it runs.
InfoHandle == handle["info"] \/ pc["info"] \in {"none", "done"}

\* Each thread is in some place.
Places == pc = [t \in Threads |-> pc[t]]

TInv == TypeOK /\ Places /\ HoldersOK /\ InfoHandle

LEMMA InitTInv == Init => TInv
<1> SUFFICES ASSUME Init PROVE TInv
  OBVIOUS
<1>1. TypeOK
  <2>1. ThreadsOK
    BY DEF Init, ThreadsInit, ThreadsOK
  <2>2. 0 \in 0 .. NumServers
    OBVIOUS
  <2> QED
    BY <2>1, <2>2 DEF Init, TypeOK
<1>2. Places /\ HoldersOK /\ InfoHandle
  BY DEF Init, ThreadsInit, Places, HoldersOK, InfoHandle
<1> QED
  BY <1>1, <1>2 DEF TInv

\* The steps of a thread in the callback.
LEMMA CallbackKeeps ==
    ASSUME TInv, NEW t \in {"info", "control"}, CallbackOwn(t) \/ Resolve(t) \/ Answer(t)
    PROVE  TInv'
<1> USE DEF TInv, TypeOK, ThreadsOK, Places, HoldersOK, InfoHandle, InCallback, Go, Idle,
            FreeFor, Lock, Unlock
<1>1. CASE Leave(t)
  BY <1>1 DEF Leave
<1>2. CASE Visit(t)
  BY <1>2 DEF Visit
<1>3. CASE SetAlarm(t)
  BY <1>3 DEF SetAlarm
<1>4. CASE Aborted(t)
  BY <1>4 DEF Aborted
<1>5. CASE Ask(t)
  BY <1>5 DEF Ask
<1>6. CASE Send(t)
  BY <1>6 DEF Send
<1>7. CASE Resolve(t)
  BY <1>7 DEF Resolve
<1>8. CASE Answer(t)
  BY <1>8 DEF Answer
<1> QED
  BY <1>1, <1>2, <1>3, <1>4, <1>5, <1>6, <1>7, <1>8 DEF CallbackOwn

LEMMA EnterKeeps ==
    ASSUME TInv, InfoTimer \/ ControlTimer
    PROVE  TInv'
<1> USE DEF TInv, TypeOK, ThreadsOK, Places, HoldersOK, InfoHandle, InCallback, Go, Idle,
            FreeFor, Lock, Enter
<1>1. NumServers \in 0 .. NumServers
  OBVIOUS
<1>2. CASE InfoTimer
  BY <1>1, <1>2 DEF InfoTimer
<1>3. CASE ControlTimer
  BY <1>1, <1>3 DEF ControlTimer
<1> QED
  BY <1>2, <1>3

\* What the steps of one thread leave of the types of the others' variables.
LEMMA InfoKeeps ==
    ASSUME TInv, InfoOwn
    PROVE  TInv'
<1> USE DEF TInv, TypeOK, ThreadsOK, Places, HoldersOK, InCallback, InfoHandle, Go, Fixed, FreeFor, Lock, Unlock
<1>1. CASE InfoRestart
  BY <1>1 DEF InfoRestart
<1>2. CASE InfoSleep
  BY <1>2 DEF InfoSleep
<1>3. CASE InfoAnnounce
  BY <1>3 DEF InfoAnnounce
<1>4. CASE InfoCreateOk
  BY <1>4 DEF InfoCreateOk
<1>5. CASE InfoCreateFails
  BY <1>5 DEF InfoCreateFails
<1>6. CASE InfoCreateNot
  BY <1>6 DEF InfoCreateNot
<1>7. CASE InfoReport
  BY <1>7 DEF InfoReport
<1>8. CASE InfoLoop
  BY <1>8 DEF InfoLoop
<1>9. CASE InfoClosed
  BY <1>9 DEF InfoClosed
<1>10. CASE InfoEvent
  BY <1>10 DEF InfoEvent
<1>11. CASE InfoClear
  BY <1>11 DEF InfoClear
<1>12. CASE InfoStopped
  BY <1>12 DEF InfoStopped
<1>13. CASE InfoEnd
  BY <1>13 DEF InfoEnd, KillHandle
<1> QED
  BY <1>1, <1>2, <1>3, <1>4, <1>5, <1>6, <1>7, <1>8, <1>9, <1>10, <1>11, <1>12, <1>13,
     CallbackKeeps, EnterKeeps DEF InfoOwn

LEMMA DatagramKeeps ==
    ASSUME TInv, Datagram
    PROVE  TInv'
<1> USE DEF TInv, TypeOK, ThreadsOK, Places, HoldersOK, InCallback, InfoHandle, Go, Fixed, FreeFor
<1>1. CASE InfoBad
  BY <1>1 DEF InfoBad
<1>2. ASSUME NEW h \in Hosts, NEW msg \in {"here", "lost"}, InfoHear(h, msg)
      PROVE  TInv'
  <2>1. Heard(h, msg) \subseteq {"none", "here", "list", "lost"}
    BY DEF Heard
  <2> QED
    BY <1>2, <2>1, ZenonT(40) DEF InfoHear
<1> QED
  BY <1>1, <1>2 DEF Datagram

LEMMA ControlKeeps ==
    ASSUME TInv, ControlOwn \/ Network
    PROVE  TInv'
<1> USE DEF TInv, TypeOK, ThreadsOK, Places, HoldersOK, InCallback, InfoHandle, Go, Idle,
            FreeFor, Lock, Unlock
<1>1. CASE ControlSleep
  BY <1>1 DEF ControlSleep
<1>2. CASE ControlCheck
  BY <1>2 DEF ControlCheck
<1>3. CASE ControlListed
  BY <1>3 DEF ControlListed
<1>4. CASE ControlEnd
  BY <1>4 DEF ControlEnd, KillHandle
<1> QED
  BY <1>1, <1>2, <1>3, <1>4, CallbackKeeps, EnterKeeps DEF ControlOwn, Network

LEMMA MainKeeps ==
    ASSUME TInv, MainOwn
    PROVE  TInv'
<1> USE DEF TInv, TypeOK, ThreadsOK, Places, HoldersOK, InCallback, InfoHandle, Go, Rest, FreeFor
<1>0. WaitTicks(StopTime) \in Nat \cup {Forever} /\ WaitTicks(TrackerTime) \in Nat \cup {Forever}
  BY DEF WaitTicks
<1>1. CASE MainStartControl
  BY <1>1 DEF MainStartControl, CreateThread
<1>2. CASE MainStartInfo
  BY <1>2 DEF MainStartInfo, CreateThread
<1>3. CASE MainStop
  <2>1. CASE handle["control"]
    BY <1>0, <1>3, <2>1, ZenonT(40) DEF MainStop
  <2>2. CASE ~ handle["control"]
    BY <1>3, <2>2 DEF MainStop
  <2> QED
    BY <2>1, <2>2
<1>4. CASE MainStopped
  BY <1>4 DEF MainStopped, KillHandle
<1>5. CASE MainStopInfo
  BY <1>5, ZenonT(40) DEF MainStopInfo
<1>6. CASE MainCloseInfo
  BY <1>0, <1>6 DEF MainCloseInfo
<1>7. CASE MainInfoStopped
  BY <1>7 DEF MainInfoStopped
<1>8. CASE MainClearInfo
  BY <1>8 DEF MainClearInfo
<1>9. CASE MainDelete
  BY <1>9 DEF MainDelete
<1>10. CASE MainExit
  BY <1>10 DEF MainExit
<1> QED
  BY <1>1, <1>2, <1>3, <1>4, <1>5, <1>6, <1>7, <1>8, <1>9, <1>10 DEF MainOwn

LEMMA SignalKeeps ==
    ASSUME TInv, Term \/ Abort \/ Tick
    PROVE  TInv'
<1> USE DEF TInv, TypeOK, ThreadsOK, Places, HoldersOK, InCallback, InfoHandle, Handled, threadVars
<1>1. CASE Term
  BY <1>1 DEF Term
<1>2. CASE Abort
  BY <1>2 DEF Abort
<1>3. CASE Tick
  <2>1. alarm' \in Nat /\ waited' \in Nat \cup {Forever}
    BY <1>3 DEF Tick, Forever
  <2>2. (alarm = 1 /\ term) \in BOOLEAN
    OBVIOUS
  <2> QED
    BY <1>3, <2>1, <2>2 DEF Tick
<1> QED
  BY <1>1, <1>2, <1>3

LEMMA NextTInv == TInv /\ [Next]_vars => TInv'
<1> SUFFICES ASSUME TInv, [Next]_vars PROVE TInv'
  OBVIOUS
<1>1. CASE Next
  BY <1>1, InfoKeeps, DatagramKeeps, ControlKeeps, MainKeeps, SignalKeeps DEF Next
<1>2. CASE UNCHANGED vars
  BY <1>2 DEF vars, threadVars, TInv, TypeOK, ThreadsOK, Places, HoldersOK, InCallback, InfoHandle
<1> QED
  BY <1>1, <1>2

\* Every variable of the threads keeps its type: left counts the servers a callback
\* still visits, a wait counts down to 0 and not below.
THEOREM TrackerTypes == Spec => []TypeOK
<1>1. TInv => TypeOK
  BY DEF TInv
<1> QED
  BY <1>1, InitTInv, NextTInv, PTL DEF Spec

\* A thread in the callback waits for the section only, which only the tracker that
\* reports may hold, so every circle of waiting threads contains the tracker there.
LEMMA NoOtherCircle ==
    ASSUME HoldersOK, NEW W \in SUBSET Threads, Circular(W, Wants)
    PROVE  "info" \in W /\ pc["info"] = "report"
<1>1. \A u \in Threads : Wants[u] \subseteq Locks
  BY DEF Wants
<1>2. CASE \E t \in W : \E l \in Wants[t] : holder[l] = "info" /\ l = "section" /\ "info" \in W
  BY <1>2 DEF HoldersOK
<1>3. CASE "info" \in W /\ holder["callbacks"] = "info"
  <2>1. PICK l \in Wants["info"] : holder[l] \in W \ {"info"}
    BY <1>3 DEF Circular
  <2>2. l = "section"
    BY <1>3, <2>1 DEF HoldersOK, InCallback, Wants
  <2> QED
    BY <2>1, <2>2 DEF HoldersOK
<1>4. CASE "control" \in W
  <2>1. PICK l \in Wants["control"] : holder[l] \in W \ {"control"}
    BY <1>4 DEF Circular
  <2>2. l \in Locks
    BY <1>1, <2>1
  <2> QED
    BY <1>2, <1>3, <1>4, <2>1, <2>2 DEF HoldersOK
<1>5. PICK t \in W : \E l \in Wants[t] : holder[l] \in W \ {t}
  BY DEF Circular
<1>6. PICK l \in Wants[t] : holder[l] \in W \ {t}
  BY <1>5
<1>7. l \in Locks
  BY <1>1, <1>6
<1> QED
  BY <1>2, <1>3, <1>4, <1>6, <1>7 DEF HoldersOK

\* The threads of the tracker, the callback and main wait for each other only when
\* the tracker reports, with its section held, that it could not create its socket.
THEOREM DeadlocksOnlyInReport == Spec => []OnlyReportDeadlocks
<1>1. TInv => OnlyReportDeadlocks
  BY NoOtherCircle DEF TInv, OnlyReportDeadlocks, Deadlocked
<1> QED
  BY <1>1, InitTInv, NextTInv, PTL DEF Spec

-----------------------------------------------------------------------------
(* The end of the process. *)

\* Places of main after it has stopped the control thread, and the tracker as well.
WithoutControl == {"stop info", "close info", "wait info", "clear info", "delete", "exit", "done"}
WithoutInfo    == {"clear info", "delete", "exit", "done"}

\* The alarm is set from the termination to the end.
AlarmSet ==
    /\ alarm <= conn_timeout \/ alarm <= ExitTicks
    /\ term /\ ~ended => alarm > 0
    /\ pc["main"] \in {"wait control"} \cup WithoutControl => term

\* A check that is still to set the alarm does so before any time passes.  If there is
\* time enough, the alarm ends the process before main gives up on the control thread.
AlarmFirst ==
    pc["main"] = "wait control" =>
        /\ pc["control"] = "alarm" \/ pc["info"] = "alarm" => waited = WaitTicks(StopTime)
        /\ InTime /\ ~ended => waited = Forever \/ waited > alarm

\* The tracker has ended when main has waited for it; the control thread has, or it
\* has been given up and will begin no check.
Stopped ==
    /\ \/ handle["control"] \/ pc["control"] \in {"none", "done"}
       \/ pc["main"] \in WithoutControl
    /\ pc["main"] \in WithoutControl =>
          /\ ~handle["control"] /\ pc["control"] # "alarm"
          /\ InTime => pc["control"] \in {"none", "done"}
    /\ pc["main"] = "wait info" => waited = Forever
    /\ pc["main"] \in WithoutInfo => ~ handle["info"]
    /\ ~active => pc["main"] \in {"exit", "done"}

ExitInv == TInv /\ AlarmSet /\ AlarmFirst /\ Stopped

LEMMA InitExitInv == Init => ExitInv
<1> SUFFICES ASSUME Init PROVE ExitInv
  OBVIOUS
<1>1. TInv
  BY InitTInv
<1>2. AlarmSet /\ AlarmFirst /\ Stopped
  BY DEF Init, ThreadsInit, AlarmSet, AlarmFirst, Stopped, WithoutControl, WithoutInfo
<1> QED
  BY <1>1, <1>2 DEF ExitInv

LEMMA WaitTypes ==
    /\ WaitTicks(StopTime) \in Nat \cup {Forever}
    /\ Forever = -1
  BY DEF WaitTicks, Forever

LEMMA TickTypes ==
    ASSUME ExitInv
    PROVE  conn_timeout \in Nat /\ conn_timeout > 0 /\ ExitTicks \in Nat /\ ExitTicks > 0
  BY DEF ExitInv, TInv, TypeOK

\* A thread in the callback leaves main, the wait and the other threads alone.
LEMMA CallbackExit ==
    ASSUME ExitInv, NEW t \in {"info", "control"}, CallbackOwn(t) \/ Resolve(t) \/ Answer(t),
           TInv'
    PROVE  ExitInv'
<1> USE DEF Go, Idle, Lock, Unlock
<1>0. ThreadsOK /\ Places /\ alarm \in Nat /\ waited \in Nat \cup {Forever}
  BY DEF ExitInv, TInv, TypeOK
<1>1. /\ \A u \in Threads : u # t => pc'[u] = pc[u]
      /\ UNCHANGED <<handle, term, ended, waited, active, conn_timeout>>
      /\ pc[t] \notin {"none", "done"} /\ pc'[t] \notin {"none", "done"}
  BY <1>0 DEF Places, CallbackOwn, Leave, Visit, SetAlarm, Aborted, Ask, Send, Resolve, Answer
<1>2. InTime' = InTime
  BY <1>1 DEF InTime
<1>3. pc'["main"] = pc["main"]
  BY <1>1
<1>4. CASE SetAlarm(t)
  <2>1. alarm' = conn_timeout /\ pc[t] = "alarm" /\ pc'[t] = "resolve"
    BY <1>0, <1>4 DEF SetAlarm, Places
  <2>2. AlarmSet'
    <3>1. alarm' <= conn_timeout' /\ alarm' > 0
      BY <1>1, <2>1, TickTypes
    <3>2. pc'["main"] \in {"wait control"} \cup WithoutControl => term'
      BY <1>1, <1>3 DEF ExitInv, AlarmSet
    <3> QED
      BY <3>1, <3>2 DEF AlarmSet
  <2>3. AlarmFirst'
    <3>1. SUFFICES ASSUME pc["main"] = "wait control"
                   PROVE  AlarmFirst'
      BY <1>3 DEF AlarmFirst
    <3>2. waited' = WaitTicks(StopTime)
      BY <1>1, <2>1, <3>1 DEF ExitInv, AlarmFirst
    <3>3. InTime => waited' = Forever \/ waited' > alarm'
      <4> DEFINE W == WaitTicks(StopTime)
      <4>1. SUFFICES ASSUME InTime PROVE W = Forever \/ W > conn_timeout
        BY <2>1, <3>2
      <4>2. W = Forever \/ (conn_timeout < W /\ ExitTicks < W)
        BY <4>1 DEF InTime
      <4>3. W \in Nat \cup {Forever}
        BY WaitTypes
      <4> HIDE DEF W
      <4> QED
        BY <4>2, <4>3, TickTypes
    <3> QED
      BY <1>2, <3>2, <3>3 DEF AlarmFirst
  <2>4. Stopped'
    BY <1>1, <1>2, <1>3, <2>1 DEF ExitInv, Stopped, WithoutControl, WithoutInfo
  <2> QED
    BY <2>2, <2>3, <2>4 DEF ExitInv
<1>5. CASE ~ SetAlarm(t)
  <2>1. UNCHANGED alarm
    BY <1>5 DEF CallbackOwn, Leave, Visit, Aborted, Ask, Send, Resolve, Answer
  <2>2. pc["main"] \in {"wait control"} \cup WithoutControl => pc'[t] # "alarm"
    <3>1. SUFFICES ASSUME term PROVE pc'[t] # "alarm"
      BY DEF ExitInv, AlarmSet
    <3> QED
      BY <1>0, <1>5, <3>1 DEF Places, CallbackOwn, Leave, Visit, Aborted, Ask, Send, Resolve,
                              Answer
  <2> QED
    BY <1>1, <1>2, <1>3, <2>1, <2>2 DEF ExitInv, AlarmSet, AlarmFirst, Stopped, WithoutControl,
                                        WithoutInfo
<1> QED
  BY <1>4, <1>5

\* Steps that leave main, the alarm, the wait and the control thread alone.
LEMMA InfoExit ==
    ASSUME ExitInv, InfoOwn \/ Datagram, TInv'
    PROVE  ExitInv'
<1> USE DEF Go, Fixed, Idle, Lock, Unlock, KillHandle, Enter
<1>0. ThreadsOK /\ Places
  BY DEF ExitInv, TInv, TypeOK
<1>1. CASE CallbackOwn("info")
  BY <1>1, CallbackExit
<1>2. CASE ~ CallbackOwn("info")
  <2>1. /\ pc'["main"] = pc["main"] /\ pc'["control"] = pc["control"]
        /\ handle'["control"] = handle["control"]
        /\ UNCHANGED <<alarm, term, ended, waited, active, conn_timeout>>
        /\ pc'["info"] # "alarm"
        /\ ~ handle["info"] => ~ handle'["info"]
    BY <1>0, <1>2 DEF ThreadsOK, Places, InfoOwn, Datagram, InfoRestart, InfoSleep,
           InfoAnnounce, InfoCreateOk, InfoCreateFails, InfoCreateNot, InfoReport, InfoLoop,
           InfoClosed, InfoEvent, InfoTimer, InfoClear, InfoStopped, InfoEnd, InfoBad, InfoHear
  <2>2. InTime' = InTime
    BY <2>1 DEF InTime
  <2> QED
    BY <2>1, <2>2 DEF ExitInv, AlarmSet, AlarmFirst, Stopped
<1> QED
  BY <1>1, <1>2

LEMMA ControlExit ==
    ASSUME ExitInv, ControlOwn \/ Network, TInv'
    PROVE  ExitInv'
<1> USE DEF Go, Idle, Lock, Unlock, KillHandle, Enter
<1>0. ThreadsOK /\ Places
  BY DEF ExitInv, TInv, TypeOK
<1>1. CASE CallbackOwn("control") \/ Network
  BY <1>1, CallbackExit DEF Network
<1>2. CASE ControlOwn /\ ~ CallbackOwn("control")
  <2>1. /\ pc'["main"] = pc["main"] /\ pc'["info"] = pc["info"]
        /\ handle'["info"] = handle["info"]
        /\ UNCHANGED <<alarm, term, ended, waited, active, conn_timeout>>
        /\ pc["control"] \notin {"none", "done"} /\ pc'["control"] # "alarm"
        /\ \/ handle'["control"] = handle["control"]
           \/ ~ handle'["control"] /\ pc'["control"] = "done"
    BY <1>0, <1>2 DEF ThreadsOK, Places, ControlOwn, ControlSleep, ControlCheck, ControlListed,
                      ControlTimer, ControlEnd
  <2>2. InTime' = InTime
    BY <2>1 DEF InTime
  <2> QED
    BY <2>1, <2>2 DEF ExitInv, AlarmSet, AlarmFirst, Stopped
<1> QED
  BY <1>1, <1>2

\* What the code gives of the times: main waits for the control thread at all, and for
\* the tracker without end.
TimesOK == WaitTicks(StopTime) # 0 /\ WaitTicks(TrackerTime) = Forever

LEMMA MainExitInv ==
    ASSUME TimesOK, ExitInv, ~ended, MainOwn, TInv'
    PROVE  ExitInv'
<1> USE DEF Go, Rest, KillHandle, WithoutControl, WithoutInfo
<1>a. UNCHANGED conn_timeout /\ InTime' = InTime
  BY DEF InTime, MainOwn, MainStartControl, MainStartInfo, MainStop, MainStopped, MainStopInfo,
         MainCloseInfo, MainInfoStopped, MainClearInfo, MainDelete, MainExit
<1>0. ThreadsOK /\ Places /\ alarm \in Nat /\ waited \in Nat \cup {Forever}
  BY DEF ExitInv, TInv, TypeOK
<1>1. CASE MainStartControl
  BY <1>a, <1>0, <1>1 DEF MainStartControl, CreateThread, ThreadsOK, Places, ExitInv, AlarmSet,
                    AlarmFirst, Stopped
<1>2. CASE MainStartInfo
  <2>1. /\ pc["main"] = "start" /\ pc'["main"] = "run" /\ pc'["control"] = pc["control"]
        /\ handle'["control"] = handle["control"]
    BY <1>a, <1>0, <1>2 DEF MainStartInfo, CreateThread, ThreadsOK, Places
  <2>2. UNCHANGED <<alarm, term, ended, waited, active>>
    BY <1>2 DEF MainStartInfo
  <2> QED
    BY <1>a, <2>1, <2>2 DEF ExitInv, AlarmSet, AlarmFirst, Stopped
<1>3. CASE MainStop
  <2>1. term /\ UNCHANGED <<alarm, term, ended, handle, active>> /\ pc'["control"] = pc["control"]
    BY <1>a, <1>0, <1>3 DEF MainStop, Places
  <2>2. CASE handle["control"]
    <3>1. pc'["main"] = "wait control" /\ waited' = WaitTicks(StopTime)
      BY <1>a, <1>0, <1>3, <2>2 DEF MainStop, Places
    <3>2. InTime => waited' = Forever \/ waited' > alarm'
      <4> DEFINE W == WaitTicks(StopTime)
      <4>1. SUFFICES ASSUME InTime PROVE W = Forever \/ W > alarm
        BY <2>1, <3>1
      <4>2. alarm <= conn_timeout \/ alarm <= ExitTicks
        BY DEF ExitInv, AlarmSet
      <4>3. W = Forever \/ (conn_timeout < W /\ ExitTicks < W)
        BY <4>1 DEF InTime
      <4>4. W \in Nat \cup {Forever}
        BY WaitTypes
      <4> HIDE DEF W
      <4> QED
        BY <1>0, <4>2, <4>3, <4>4, TickTypes
    <3>3. AlarmFirst'
      BY <1>a, <3>1, <3>2 DEF AlarmFirst
    <3>4. AlarmSet'
      BY <1>a, <2>1, <3>1 DEF ExitInv, AlarmSet
    <3>5. Stopped'
      <4>1. pc["main"] = "run"
        BY <1>3 DEF MainStop
      <4> QED
        BY <1>a, <2>1, <3>1, <4>1 DEF ExitInv, Stopped
    <3> QED
      BY <3>3, <3>4, <3>5 DEF ExitInv
  <2>3. CASE ~ handle["control"]
    <3>1. pc'["main"] = "stop info"
      BY <1>a, <1>0, <1>3, <2>3 DEF MainStop, Places
    <3>2. pc["main"] = "run"
      BY <1>3 DEF MainStop
    <3>3. AlarmSet'
      BY <1>a, <2>1, <3>1 DEF ExitInv, AlarmSet
    <3>4. AlarmFirst'
      BY <3>1 DEF AlarmFirst
    <3>5. Stopped'
      BY <1>a, <2>1, <2>3, <3>1, <3>2 DEF ExitInv, Stopped
    <3> QED
      BY <3>3, <3>4, <3>5 DEF ExitInv
  <2> QED
    BY <2>2, <2>3
<1>4. CASE MainStopped
  <2>1. /\ pc["main"] = "wait control" /\ pc'["main"] = "stop info"
        /\ pc'["control"] = pc["control"]
    BY <1>a, <1>0, <1>4 DEF MainStopped, Places
  <2>2. alarm > 0 /\ (InTime => waited # 0)
    <3>1. alarm > 0 /\ (InTime => waited = Forever \/ waited > alarm)
      BY <2>1 DEF ExitInv, AlarmSet, AlarmFirst
    <3> QED
      BY <1>0, <3>1, WaitTypes
  <2>3. ~ handle'["control"] /\ handle'["info"] = handle["info"]
    BY <1>a, <1>0, <1>4 DEF MainStopped, ThreadsOK
  <2>4. pc["control"] # "alarm" /\ (InTime => pc["control"] \in {"none", "done"})
    <3>1. CASE ~ handle["control"]
      BY <2>1, <3>1 DEF ExitInv, Stopped
    <3>2. CASE waited = 0
      BY <2>1, <2>2, <3>2 DEF ExitInv, AlarmFirst, TimesOK
    <3> QED
      BY <1>4, <3>1, <3>2 DEF MainStopped
  <2> QED
    BY <1>a, <1>4, <2>1, <2>3, <2>4 DEF MainStopped, ExitInv, AlarmSet, AlarmFirst, Stopped
<1>5. CASE MainStopInfo
  <2>1. CASE handle["info"]
    BY <1>a, <1>0, <1>5, <2>1 DEF MainStopInfo, Places, ExitInv, AlarmSet, AlarmFirst, Stopped
  <2>2. CASE ~ handle["info"]
    BY <1>a, <1>0, <1>5, <2>2 DEF MainStopInfo, Places, ExitInv, AlarmSet, AlarmFirst, Stopped
  <2> QED
    BY <2>1, <2>2
<1>6. CASE MainCloseInfo
  BY <1>a, <1>0, <1>6 DEF MainCloseInfo, Places, ExitInv, AlarmSet, AlarmFirst, Stopped, TimesOK
<1>7. CASE MainInfoStopped
  <2>1. waited # 0
    <3>1. waited = Forever
      BY <1>7 DEF MainInfoStopped, ExitInv, Stopped
    <3> QED
      BY <3>1, WaitTypes
  <2> QED
    BY <1>a, <1>0, <1>7, <2>1 DEF MainInfoStopped, Places, ExitInv, AlarmSet, AlarmFirst, Stopped
<1>8. CASE MainClearInfo
  BY <1>a, <1>0, <1>8 DEF MainClearInfo, Places, ExitInv, AlarmSet, AlarmFirst, Stopped
<1>9. CASE MainDelete
  BY <1>a, <1>0, <1>9 DEF MainDelete, Places, ExitInv, AlarmSet, AlarmFirst, Stopped
<1>10. CASE MainExit
  BY <1>a, <1>0, <1>10 DEF MainExit, Places, ExitInv, AlarmSet, AlarmFirst, Stopped
<1> QED
  BY <1>1, <1>2, <1>3, <1>4, <1>5, <1>6, <1>7, <1>8, <1>9, <1>10 DEF MainOwn

LEMMA SignalExit ==
    ASSUME ExitInv, ~ended, Term \/ Abort \/ Tick, TInv'
    PROVE  ExitInv'
<1>0. alarm \in Nat /\ waited \in Nat \cup {Forever} /\ Forever = -1
  BY WaitTypes DEF ExitInv, TInv, TypeOK
<1>1. UNCHANGED <<pc, handle, active, conn_timeout>> /\ InTime' = InTime
  BY DEF Term, Abort, Tick, Handled, threadVars, InTime
<1>2. CASE Term
  <2>1. ~term /\ alarm' = ExitTicks
    BY <1>2 DEF Term
  <2>2. pc["main"] \notin {"wait control"} \cup WithoutControl
    BY <2>1 DEF ExitInv, AlarmSet
  <2> QED
    <3>1. UNCHANGED <<ended, waited>>
      BY <1>2 DEF Term, Handled
    <3>2. AlarmSet'
      <4>1. alarm' <= ExitTicks
        BY <2>1, TickTypes
      <4>2. alarm' > 0
        BY <2>1
      <4> QED
        BY <1>1, <2>2, <4>1, <4>2 DEF AlarmSet
    <3>3. AlarmFirst' /\ Stopped'
      BY <1>1, <2>2, <3>1 DEF ExitInv, AlarmFirst, Stopped
    <3> QED
      BY <3>2, <3>3 DEF ExitInv
<1>3. CASE Abort
  <2>1. UNCHANGED <<term, alarm, ended, waited>>
    BY <1>3 DEF Abort, Handled
  <2> QED
    BY <1>1, <2>1 DEF ExitInv, AlarmSet, AlarmFirst, Stopped
<1>4. CASE Tick
  <2>1. ASSUME NEW u \in {"info", "control"} PROVE pc[u] # "alarm"
    <3>1. SUFFICES ASSUME pc[u] = "alarm" PROVE FALSE
      OBVIOUS
    <3>2. Waits(u)
      BY <1>4 DEF Tick
    <3>3. Wants[u] = {}
      BY <3>1 DEF Wants
    <3> QED
      BY <3>1, <3>2, <3>3 DEF Waits, TakesTime
  <2>2. AlarmSet'
    <3>1. alarm' = (IF alarm > 0 THEN alarm - 1 ELSE 0) /\ term' = term
      BY <1>4 DEF Tick
    <3>2. alarm' <= conn_timeout \/ alarm' <= ExitTicks
      <4>1. alarm <= conn_timeout \/ alarm <= ExitTicks
        BY DEF ExitInv, AlarmSet
      <4> QED
        BY <1>0, <3>1, <4>1, TickTypes
    <3>3. ASSUME term, ~ended' PROVE alarm' > 0
      <4>1. alarm > 0
        BY <3>3 DEF ExitInv, AlarmSet
      <4>2. alarm # 1
        BY <1>4, <3>3 DEF Tick
      <4> QED
        BY <1>0, <3>1, <4>1, <4>2
    <3> QED
      BY <1>1, <3>1, <3>2, <3>3 DEF ExitInv, AlarmSet
  <2>3. AlarmFirst'
    <3>1. SUFFICES ASSUME pc["main"] = "wait control", InTime, ~ended'
                   PROVE  waited' = Forever \/ waited' > alarm'
      BY <1>1, <2>1 DEF AlarmFirst
    <3>2. alarm > 0 /\ (waited = Forever \/ waited > alarm)
      BY <3>1 DEF ExitInv, AlarmSet, AlarmFirst
    <3> QED
      BY <1>0, <1>4, <3>2 DEF Tick
  <2>4. Stopped'
    <3>1. pc["main"] = "wait info" => waited' = Forever
      <4>1. SUFFICES ASSUME waited = Forever PROVE waited' = Forever
        BY DEF ExitInv, Stopped
      <4> QED
        BY <1>0, <1>4, <4>1 DEF Tick
    <3> QED
      BY <1>1, <3>1 DEF ExitInv, Stopped
  <2> QED
    BY <2>2, <2>3, <2>4 DEF ExitInv
<1> QED
  BY <1>2, <1>3, <1>4

LEMMA NextExitInv ==
    ASSUME TimesOK
    PROVE  ExitInv /\ [Next]_vars => ExitInv'
<1> SUFFICES ASSUME ExitInv, [Next]_vars PROVE ExitInv'
  OBVIOUS
<1>1. TInv'
  BY NextTInv DEF ExitInv
<1>2. CASE Next
  BY <1>1, <1>2, InfoExit, ControlExit, MainExitInv, SignalExit DEF Next
<1>3. CASE UNCHANGED vars
  BY <1>1, <1>3 DEF vars, threadVars, ExitInv, AlarmSet, AlarmFirst, Stopped, InTime
<1> QED
  BY <1>2, <1>3

\* When __proxy is deleted, the tracker runs the callback no more.  The control thread
\* may, but only if conn_timeout (or the graceful exit) is not below the time main waits
\* for it, and it begins no check then: whatever the servers, the resolver and the
\* mutexes do, for any conn_timeout.
THEOREM ControlOutlives ==
    ASSUME TimesOK
    PROVE  Spec => []OnlyControlOutlives
<1>1. ExitInv => OnlyControlOutlives
  BY DEF ExitInv, TInv, InfoHandle, Stopped, WithoutControl, WithoutInfo, OnlyControlOutlives,
         MayCall
<1> QED
  BY <1>1, InitExitInv, NextExitInv, PTL DEF Spec
=============================================================================
