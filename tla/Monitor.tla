------------------------------ MODULE Monitor ------------------------------
(***************************************************************************)
(* The callback of the control and the tracker thread, nrdpx_info_callback *)
(* (src/src/nrdpx_server.cpp), which checks the servers and takes over     *)
(* what they report about themselves.                                      *)
(*                                                                         *)
(* raise_event runs one callback at a time, under its lock; the callback   *)
(* visits the servers one by one, and a status check blocks it while the   *)
(* main thread goes on changing the servers.  A step of this module is one *)
(* server's turn, or one half of it around a status check.  The servers    *)
(* are visited in any order.                                               *)
(*                                                                         *)
(* The main thread is an environment here: it counts connection faults,    *)
(* switches servers off and changes their slot counts.  Time is abstract:  *)
(* stat_due and info_due say that the next check, or the next request for  *)
(* info, is due.  What changes only the score of a server, its port or the *)
(* log is left out.                                                        *)
(***************************************************************************)
EXTENDS Integers

CONSTANTS
    Servers,        \* configured servers
    None,           \* no server
    Machines,       \* hosts that send info
    MachineOf,      \* the host of a server
    CheckMode,      \* check_mode of a server in the configuration
    ConfSlots,      \* max_slots of a server in the configuration
    MaxFaults,      \* max_faults
    InfoLimits,     \* limits a server may report (0: it reports none)
    SlotBound       \* bound of the slot counts

ASSUME MonitorAssumption ==
    /\ None \notin Servers
    /\ MachineOf \in [Servers -> Machines]
    /\ CheckMode \in [Servers -> 0 .. 3]
    /\ ConfSlots \in [Servers -> Nat \ {0}]
    /\ MaxFaults \in Nat \ {0}
    /\ InfoLimits \in SUBSET Nat
    /\ SlotBound \in Nat

\* Modes of a status check: connect, also ask for info, also take over limits.
CONN == 1
INFO == 2
SYNC == 3

\* What an info event carries: news of a server that is here or lost, whether it
\* takes connections, its limit, and whether the protocol is the one we speak.
Item == [lost : BOOLEAN, active : BOOLEAN, cmax : InfoLimits, pver : BOOLEAN]

VARIABLES
    active,         \* server -> is NRDNBS_ACTIVE set
    max_slots,      \* server -> current limit of channels
    num_faults,     \* server -> failed connection attempts
    num_slots,      \* server -> number of channels
    check_mode,     \* server -> current check mode
    first_check,    \* server -> has it not been checked yet
    stat_due,       \* server -> is its next status check due
    info_due,       \* server -> is its next info request due
    up,             \* server -> does it accept a connection in time
    callback        \* what the callback is doing

shared == <<active, max_slots, num_faults>>
timers == <<check_mode, first_check, stat_due, info_due>>
vars   == <<shared, num_slots, timers, up, callback>>

Idle == [at |-> "idle", todo |-> {}, svr |-> None]

Init ==
    /\ active      = [s \in Servers |-> TRUE]
    /\ max_slots   = ConfSlots
    /\ num_faults  = [s \in Servers |-> 0]
    /\ num_slots   = [s \in Servers |-> 0]
    /\ check_mode  = CheckMode
    /\ first_check = [s \in Servers |-> TRUE]
    /\ stat_due    = [s \in Servers |-> TRUE]
    /\ info_due    = [s \in Servers |-> TRUE]
    /\ up          \in [Servers -> BOOLEAN]
    /\ callback    = Idle

Set(f, s, v) == [f EXCEPT ![s] = v]

-----------------------------------------------------------------------------
(* The timer event.                                                        *)

\* The control timer, or an info event of an unknown type on the tracker thread.
TimerEvent ==
    /\ callback = Idle
    /\ callback' = [at |-> "timer", todo |-> Servers, svr |-> None]
    /\ UNCHANGED <<shared, num_slots, timers, up>>

\* A status check of s is due.
Due(s) == check_mode[s] >= CONN /\ (first_check[s] \/ stat_due[s])

\* Mutant: only servers without channels are checked.
NeededWhenFree(s) == first_check[s] \/ num_slots[s] = 0

\* An active server that has channels is not checked.
Needed(s) == first_check[s] \/ ~active[s] \/ num_slots[s] = 0

BeginCheck(s) ==
    /\ callback.at = "timer" /\ s \in callback.todo
    /\ Due(s) /\ Needed(s)
    /\ callback' = [callback EXCEPT !.at = "check", !.svr = s]
    /\ UNCHANGED <<shared, num_slots, timers, up>>

\* nrdpx_server_deactivate.  Its reset of num_faults may be overwritten by the
\* increment of the main thread.
Deactivate(s) ==
    /\ active'     = Set(active, s, FALSE)
    /\ num_faults' \in {num_faults, Set(num_faults, s, 0)}
    /\ UNCHANGED max_slots

EndCheck ==
    LET s == callback.svr IN
    /\ callback.at = "check"
    /\ \/ up[s] /\ active' = Set(active, s, TRUE) /\ UNCHANGED <<max_slots, num_faults>>
       \/ ~up[s] /\ Deactivate(s)
    /\ stat_due' = Set(stat_due, s, FALSE)
    /\ callback' = [callback EXCEPT !.at = "ask"]
    /\ UNCHANGED <<num_slots, check_mode, first_check, info_due, up>>

\* No check of s now: a check that is due but not needed waits another period.
SkipCheck(s) ==
    /\ callback.at = "timer" /\ s \in callback.todo
    /\ ~(Due(s) /\ Needed(s))
    /\ stat_due' = Set(stat_due, s, stat_due[s] /\ ~Due(s))
    /\ callback' = [callback EXCEPT !.at = "ask", !.svr = s]
    /\ UNCHANGED <<shared, num_slots, check_mode, first_check, info_due, up>>

\* What remains of the list after the turn of s, or the end of the callback.
Done(s) == IF callback.todo = {s} THEN Idle
           ELSE [callback EXCEPT !.todo = @ \ {s}, !.svr = None,
                                 !.at = IF @ = "ask" THEN "timer" ELSE @]

\* Mutant: a server is only asked at its first check.
AskFirstOnly ==
    LET s == callback.svr
        ask == active[s] /\ check_mode[s] >= INFO /\ first_check[s]
    IN
    /\ callback.at = "ask"
    /\ first_check' = Set(first_check, s, FALSE)
    /\ info_due'    = Set(info_due, s, info_due[s] /\ ~ask)
    /\ callback'    = Done(s)
    /\ UNCHANGED <<shared, num_slots, check_mode, stat_due, up>>

\* The end of a server's turn: an active server is asked for its info.
Ask ==
    LET s == callback.svr
        ask == active[s] /\ check_mode[s] >= INFO /\ info_due[s]
    IN
    /\ callback.at = "ask"
    /\ first_check' = Set(first_check, s, FALSE)
    /\ info_due'    = Set(info_due, s, info_due[s] /\ ~ask)
    /\ callback'    = Done(s)
    /\ UNCHANGED <<shared, num_slots, check_mode, stat_due, up>>

-----------------------------------------------------------------------------
(* Info, here and lost events.                                             *)

\* Info from machine m concerns every server configured on it.
InfoEvent(m, item) ==
    LET here == {s \in Servers : MachineOf[s] = m} IN
    /\ callback = Idle /\ here # {}
    /\ callback' = [at |-> "info", todo |-> here, svr |-> None, item |-> item]
    /\ UNCHANGED <<shared, num_slots, timers, up>>

\* A server that is not checked for info, or was not checked at all yet.
Ignore(s) ==
    /\ check_mode[s] < INFO \/ first_check[s]
    /\ UNCHANGED <<shared, timers>>

\* Info of another protocol version: the server is only connected to from now on.
Degrade(s, item) ==
    /\ ~item.pver
    /\ check_mode' = Set(check_mode, s, CONN)
    /\ UNCHANGED shared

\* Mutant: a report of no limit counts as a limit of zero.
TakeOverZero(s, item) ==
    LET shrinks == check_mode[s] >= SYNC /\ item.cmax < max_slots[s] IN
    /\ item.pver /\ ~item.lost
    /\ active'    = Set(active, s, item.active)
    /\ max_slots' = Set(max_slots, s, IF shrinks THEN item.cmax ELSE max_slots[s])
    /\ UNCHANGED <<num_faults, check_mode>>

\* Mutant: info that a server is here switches it on, whatever status it reports.
TakeOverHere(s, item) ==
    LET shrinks == check_mode[s] >= SYNC /\ item.cmax \in 1 .. max_slots[s] - 1 IN
    /\ item.pver /\ ~item.lost
    /\ active'    = Set(active, s, TRUE)
    /\ max_slots' = Set(max_slots, s, IF shrinks THEN item.cmax ELSE max_slots[s])
    /\ UNCHANGED <<num_faults, check_mode>>

\* The info of a server that is here: its status, and its limit when it is lower.
TakeOver(s, item) ==
    LET shrinks == check_mode[s] >= SYNC /\ item.cmax \in 1 .. max_slots[s] - 1 IN
    /\ item.pver /\ ~item.lost
    /\ active'    = Set(active, s, item.active)
    /\ max_slots' = Set(max_slots, s, IF shrinks THEN item.cmax ELSE max_slots[s])
    /\ UNCHANGED <<num_faults, check_mode>>

Lost(s, item) ==
    /\ item.pver /\ item.lost
    /\ Deactivate(s)
    /\ UNCHANGED check_mode

Apply(s) ==
    /\ callback.at = "info" /\ s \in callback.todo
    /\ \/ Ignore(s)
       \/ /\ check_mode[s] >= INFO /\ ~first_check[s]
          /\ \/ Degrade(s, callback.item)
             \/ TakeOver(s, callback.item)
             \/ Lost(s, callback.item)
          /\ info_due' = Set(info_due, s, FALSE)
          /\ UNCHANGED <<first_check, stat_due>>
    /\ callback' = Done(s)
    /\ UNCHANGED <<num_slots, up>>

-----------------------------------------------------------------------------
(* The clock, the servers and the main thread.                             *)

StatDue(s) == stat_due' = Set(stat_due, s, TRUE)
              /\ UNCHANGED <<shared, num_slots, check_mode, first_check, info_due, up, callback>>

InfoDue(s) == info_due' = Set(info_due, s, TRUE)
              /\ UNCHANGED <<shared, num_slots, check_mode, first_check, stat_due, up, callback>>

\* A server starts or stops accepting connections.
UpOrDown(s) == up' = Set(up, s, ~up[s]) /\ UNCHANGED <<shared, num_slots, timers, callback>>

\* The main thread counts a failed connection and may switch the server off.
Fault(s) ==
    LET off == num_faults[s] + 1 >= MaxFaults IN
    /\ num_faults' = Set(num_faults, s, IF off THEN 0 ELSE num_faults[s] + 1)
    /\ active'     = Set(active, s, active[s] /\ ~off)
    /\ UNCHANGED <<max_slots, num_slots, timers, up, callback>>

\* The main thread connected to the server, or changed its number of channels.
Connected(s) == num_faults' = Set(num_faults, s, 0)
                /\ UNCHANGED <<active, max_slots, num_slots, timers, up, callback>>

Slots(s) == /\ \E n \in 0 .. SlotBound : num_slots' = Set(num_slots, s, n)
            /\ UNCHANGED <<shared, timers, up, callback>>

-----------------------------------------------------------------------------
Callback == (\E s \in Servers : BeginCheck(s) \/ SkipCheck(s) \/ Apply(s)) \/ EndCheck \/ Ask

Events == TimerEvent \/ \E m \in Machines, item \in Item : InfoEvent(m, item)

Clock == \E s \in Servers : StatDue(s) \/ InfoDue(s)

MainThread == \E s \in Servers : Fault(s) \/ Connected(s) \/ Slots(s)

Next == Callback \/ Events \/ Clock \/ MainThread \/ (\E s \in Servers : UpOrDown(s))

\* A callback that runs ends, the timer event gets the callback lock again and
\* again, and the clock goes on.
Fairness == /\ WF_vars(Callback)
            /\ SF_vars(TimerEvent)
            /\ \A s \in Servers : WF_vars(StatDue(s)) /\ WF_vars(InfoDue(s))

Spec == Init /\ [][Next]_vars /\ Fairness

-----------------------------------------------------------------------------
(* Properties.                                                             *)

CallbackRec == [at : {"idle", "timer", "check", "ask"}, todo : SUBSET Servers,
                svr : Servers \cup {None}]
               \cup [at : {"info"}, todo : SUBSET Servers, svr : {None}, item : Item]

\* Type invariant.
TypeOK ==
    /\ active \in [Servers -> BOOLEAN]
    /\ max_slots \in [Servers -> Nat]
    /\ \A s \in Servers : max_slots[s] \in 1 .. ConfSlots[s]
    /\ num_faults \in [Servers -> 0 .. MaxFaults - 1]
    /\ num_slots \in [Servers -> 0 .. SlotBound]
    /\ check_mode \in [Servers -> 0 .. 3]
    /\ first_check \in [Servers -> BOOLEAN]
    /\ stat_due \in [Servers -> BOOLEAN]
    /\ info_due \in [Servers -> BOOLEAN]
    /\ up \in [Servers -> BOOLEAN]
    /\ callback \in CallbackRec
    /\ callback.at \in {"check", "ask"} => callback.svr \in callback.todo

\* A server that is checked and accepts connections is active again and again,
\* whatever its info says, however often it is reported lost and however often
\* connections to it fail: no switching off is for good.
ComesBack ==
    \A s \in Servers : CheckMode[s] >= CONN /\ <>[]up[s] => []<>active[s]

\* Info is at work that says that s is active, and that will be taken over: any
\* service on the machine of s may have sent it.
SaidActive(s) ==
    /\ callback.at = "info" /\ s \in callback.todo
    /\ check_mode[s] >= INFO /\ ~first_check[s]
    /\ callback.item.pver /\ ~callback.item.lost /\ callback.item.active

\* A server that is checked, accepts no connections and has no channels any more
\* is switched off for good.  The only exception is info that is taken over for it
\* and says active: it need not be the server's own, as info is matched with the
\* servers by its host alone.  Info that is ignored, of another protocol, of
\* another machine, or that says lost or inactive keeps no dead server active.
StaysOff ==
    \A s \in Servers :
        CheckMode[s] >= CONN /\ <>[](~up[s] /\ num_slots[s] = 0 /\ ~SaidActive(s))
            => <>[]~active[s]

\* A server that stays active is asked for its info again and again, as long as
\* it does not send it by itself, and a silent one is not forgotten.
InfoRenewed ==
    \A s \in Servers :
        <>[](active[s] /\ check_mode[s] >= INFO) => []<>~info_due[s]
=============================================================================
