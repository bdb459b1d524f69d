------------------------------ MODULE Tracker -------------------------------
(***************************************************************************)
(* The three threads of the proxy, the mutexes they share and how they end *)
(* (src/src/nrdnb_client.cpp and src/src/nrdpx_server.cpp):                *)
(*   "info"     the tracker, which listens for datagrams of servers, keeps *)
(*              the list of those it has heard of and runs the callback;   *)
(*   "control"  drops lost servers from the list and, each second, runs    *)
(*              the callback, which checks servers by a connect and asks   *)
(*              them for info;                                             *)
(*   "main"     starts both, runs the event loop, and stops them after a   *)
(*              signal.  Signals are handled on it, as Linux delivers them.*)
(*                                                                         *)
(* What the callback does to servers is module Monitor.  Here its calls    *)
(* matter: it runs with the callback mutex held and may take long, on the  *)
(* tracker as well, when the type of a message is unknown to it.           *)
(*                                                                         *)
(* Time is that of alarm and wait_for, in units that both are multiples    *)
(* of.  It passes only when no thread can go on: computing takes no time,  *)
(* resolving, connecting and waiting do.                                   *)
(***************************************************************************)
EXTENDS Threads

CONSTANTS
    Hosts,          \* servers the tracker may hear of (lsid)
    NumServers,     \* servers of __proxy, which each callback visits
    ConnTimes,      \* what conn_timeout may be
    ExitTicks,      \* 15 seconds for a graceful exit
    StopTime,       \* wTimeOut of destroy
    TrackerTime     \* wTimeOut of stop_info_tracker

ASSUME TrackerAssumption ==
    /\ Threads = {"main", "info", "control"}
    /\ Locks = {"section", "servers", "callbacks"}
    /\ Nobody \notin Threads
    /\ PollsPerTick \in Nat \ {0}
    /\ NumServers \in Nat
    /\ ConnTimes \in SUBSET (Nat \ {0}) /\ ExitTicks \in Nat \ {0}
    /\ StopTime \in Nat /\ TrackerTime \in Nat

VARIABLES
    sock,       \* m_sock of the tracker is open
    svrs,       \* m_svrs: the state of each host in the list, or "none"
    csock,      \* _check_socket is open
    left,       \* servers the running callback has not visited yet
    active,     \* __proxy exists
    conn_timeout, \* of the configuration
    term,       \* __terminated
    alarm,      \* ticks until SIGALRM, 0 when none is set
    signal,     \* the signal main is handling
    waited,     \* ticks main has left in wait_for
    ended       \* the process has ended

vars == <<threadVars, sock, svrs, csock, left, active, conn_timeout, term, alarm, signal,
          waited, ended>>

Init ==
    /\ ThreadsInit
    /\ sock = FALSE
    /\ svrs = [h \in Hosts |-> "none"]
    /\ csock = FALSE
    /\ left = 0
    /\ active = TRUE
    /\ conn_timeout \in ConnTimes
    /\ term = FALSE
    /\ alarm = 0
    /\ signal = "none"
    /\ waited = 0
    /\ ended = FALSE

Fixed == UNCHANGED <<csock, left, active, conn_timeout, term, alarm, signal, waited, ended>>

Idle == UNCHANGED <<sock, active, conn_timeout, term, signal, waited, ended>>

-----------------------------------------------------------------------------
(* The timer branch of the callback, on thread t: that of the control thread *)
(* at each timer event, and the tracker.                                     *)

\* It runs with the mutex of the callbacks held and visits all servers.
Enter(t, from) ==
    /\ Go(t, from, "visit")
    /\ Lock(t, "callbacks")
    /\ left' = NumServers

\* All servers are visited.
Leave(t) ==
    /\ left = 0
    /\ Go(t, "visit", IF t = "control" THEN "sleep" ELSE "loop")
    /\ Unlock("callbacks")
    /\ UNCHANGED <<handle, terminated, svrs, csock, left, alarm>> /\ Idle

\* Mutant: one server too many.
VisitBeyond(t) ==
    /\ \/ Go(t, "visit", "alarm") /\ ~term
       \/ Go(t, "visit", "ask")
    /\ left' = left - 1
    /\ UNCHANGED <<holder, handle, terminated, svrs, csock, alarm>> /\ Idle

\* Mutant: servers are checked after the termination as well.
VisitAnyway(t) ==
    /\ left > 0
    /\ Go(t, "visit", "alarm") \/ Go(t, "visit", "ask")
    /\ left' = left - 1
    /\ UNCHANGED <<holder, handle, terminated, svrs, csock, alarm>> /\ Idle

\* The next server: its check is due and the proxy not terminated, or it is not.
Visit(t) ==
    /\ left > 0
    /\ \/ Go(t, "visit", "alarm") /\ ~term
       \/ Go(t, "visit", "ask")
    /\ left' = left - 1
    /\ UNCHANGED <<holder, handle, terminated, svrs, csock, alarm>> /\ Idle

\* The alarm replaces any that is set, that of a termination as well.
SetAlarm(t) ==
    /\ Go(t, "alarm", "resolve")
    /\ alarm' = conn_timeout
    /\ UNCHANGED <<holder, handle, terminated, svrs, csock, left>> /\ Idle

\* nrdpx_check_server resolves the host, which may take any time or fail, and
\* creates a socket that blocks.  The alarm may come before there is one to close.
Resolve(t) ==
    /\ \/ Go(t, "resolve", "connect") /\ csock' = TRUE
       \/ Go(t, "resolve", "ask") /\ UNCHANGED csock
    /\ UNCHANGED <<holder, handle, terminated, svrs, left, alarm>> /\ Idle

\* The connect ends when the peer answers, or refuses.
Answer(t) ==
    /\ csock
    /\ Go(t, "connect", "ask")
    /\ csock' = FALSE
    /\ UNCHANGED <<holder, handle, terminated, svrs, left, alarm>> /\ Idle

\* Its socket was closed by an abort.
Aborted(t) ==
    /\ ~csock
    /\ Go(t, "connect", "ask")
    /\ UNCHANGED <<holder, handle, terminated, svrs, csock, left, alarm>> /\ Idle

\* Info is asked for if it is due and the tracker is started and has a socket,
\* which is looked at without its mutex.
Ask(t) ==
    /\ \/ Go(t, "ask", "visit")
       \/ Go(t, "ask", "send") /\ handle["info"] /\ sock
    /\ UNCHANGED <<holder, handle, terminated, svrs, csock, left, alarm>> /\ Idle

\* send_len takes the section.  An error is raised under the callbacks' mutex, which
\* this thread holds.
Send(t) ==
    /\ Go(t, "send", "visit")
    /\ FreeFor(t, "section")
    /\ UNCHANGED <<holder, handle, terminated, svrs, csock, left, alarm>> /\ Idle

CallbackOwn(t) == Leave(t) \/ Visit(t) \/ SetAlarm(t) \/ Aborted(t) \/ Ask(t) \/ Send(t)

\* The rest is up to the resolver and to the peer, which both end at last, by an
\* error if nothing else.
Network == \E t \in {"info", "control"} : Resolve(t) \/ Answer(t)

-----------------------------------------------------------------------------
(* info: nrdnb_client_t::main. *)

\* restart_point: the first time at once, then after the reconnect time, which
\* ends early when the thread is terminated.
InfoRestart ==
    /\ \/ Go("info", "restart", "loop") /\ terminated["info"]
       \/ Go("info", "restart", "sleep") /\ ~terminated["info"]
    /\ UNCHANGED <<holder, handle, terminated, sock, svrs>> /\ Fixed

\* Mutant: the reconnect time never ends by itself.
SleepOnlyTerminated ==
    /\ terminated["info"]
    /\ Go("info", "sleep", "announce")
    /\ UNCHANGED <<holder, handle, terminated, sock, svrs>> /\ Fixed

\* Mutant: the section is taken before the restart is announced.
SleepLocks ==
    /\ Go("info", "sleep", "announce")
    /\ Lock("info", "section")
    /\ UNCHANGED <<handle, terminated, sock, svrs>> /\ Fixed

InfoSleep ==
    /\ Go("info", "sleep", "announce")
    /\ UNCHANGED <<holder, handle, terminated, sock, svrs>> /\ Fixed

\* raise_event(STARTED or RESTART), which only writes a line to the log.
InfoAnnounce ==
    /\ Go("info", "announce", "create")
    /\ FreeFor("info", "callbacks")
    /\ UNCHANGED <<holder, handle, terminated, sock, svrs>> /\ Fixed

\* create_sock, with the section of the thread object held.  An old socket is
\* closed.  Its failure is reported before the section is left.
InfoCreateOk ==
    /\ ~terminated["info"]
    /\ Go("info", "create", "loop")
    /\ FreeFor("info", "section")
    /\ sock' = TRUE
    /\ UNCHANGED <<holder, handle, terminated, svrs>> /\ Fixed

InfoCreateFails ==
    /\ ~terminated["info"]
    /\ Go("info", "create", "report")
    /\ Lock("info", "section")
    /\ sock' = FALSE
    /\ UNCHANGED <<handle, terminated, svrs>> /\ Fixed

InfoCreateNot ==
    /\ terminated["info"]
    /\ Go("info", "create", "restart")
    /\ UNCHANGED <<holder, handle, terminated, sock, svrs>> /\ Fixed

\* raise_event(ONERROR) within create_sock.
InfoReport ==
    /\ Go("info", "report", "restart")
    /\ FreeFor("info", "callbacks")
    /\ Unlock("section")
    /\ UNCHANGED <<handle, terminated, sock, svrs>> /\ Fixed

InfoLoop ==
    /\ \/ Go("info", "loop", "recv") /\ ~terminated["info"]
       \/ Go("info", "loop", "clear") /\ terminated["info"]
    /\ UNCHANGED <<holder, handle, terminated, sock, svrs>> /\ Fixed

\* recvfrom fails: the socket was closed.
InfoClosed ==
    /\ ~sock
    /\ Go("info", "recv", "restart")
    /\ UNCHANGED <<holder, handle, terminated, sock, svrs>> /\ Fixed

\* A datagram of another size or signature is taken for a failure of the socket.
InfoBad ==
    /\ sock
    /\ Go("info", "recv", "restart")
    /\ UNCHANGED <<holder, handle, terminated, sock, svrs>> /\ Fixed

\* IAMHERE or RETINFO: a listed server keeps its state, unless its name is new.
\* IAMLOST: a server of the list is lost, another one is appended as any is.
Heard(h, msg) ==
    IF svrs[h] # "none" /\ msg = "lost" THEN {"lost"}
    ELSE IF svrs[h] = "list" THEN {"list", "here"} ELSE {"here"}

\* A message of server h; its event follows.  Others are ignored.
InfoHear(h, msg) ==
    /\ sock
    /\ Go("info", "recv", "event")
    /\ FreeFor("info", "servers")
    /\ \E state \in Heard(h, msg) : svrs' = [svrs EXCEPT ![h] = state]
    /\ UNCHANGED <<holder, handle, terminated, sock>> /\ Fixed

\* raise_event(SVRHERE, SVRLOST or SVRINFO): the callback updates the servers with
\* an item of the type it knows.
InfoEvent ==
    /\ Go("info", "event", "loop")
    /\ FreeFor("info", "callbacks")
    /\ UNCHANGED <<holder, handle, terminated, sock, svrs>> /\ Fixed

\* An item of another type is ignored: the callback goes on as at a timer event.
InfoTimer ==
    /\ Enter("info", "event")
    /\ UNCHANGED <<handle, terminated, svrs, csock, alarm>> /\ Idle

InfoClear ==
    /\ Go("info", "clear", "stopped")
    /\ FreeFor("info", "servers")
    /\ svrs' = [h \in Hosts |-> "none"]
    /\ UNCHANGED <<holder, handle, terminated, sock>> /\ Fixed

\* raise_event(STOPPED).
InfoStopped ==
    /\ Go("info", "stopped", "end")
    /\ FreeFor("info", "callbacks")
    /\ UNCHANGED <<holder, handle, terminated, sock, svrs>> /\ Fixed

InfoEnd ==
    /\ Go("info", "end", "done")
    /\ FreeFor("info", "section")
    /\ KillHandle("info")
    /\ UNCHANGED <<holder, terminated, sock, svrs>> /\ Fixed

InfoOwn ==
    \/ InfoRestart \/ InfoSleep \/ InfoAnnounce
    \/ InfoCreateOk \/ InfoCreateFails \/ InfoCreateNot \/ InfoReport
    \/ InfoLoop \/ InfoClosed \/ InfoEvent \/ InfoTimer \/ InfoClear \/ InfoStopped \/ InfoEnd
    \/ CallbackOwn("info")

Datagram == InfoBad \/ \E h \in Hosts, msg \in {"here", "lost"} : InfoHear(h, msg)

-----------------------------------------------------------------------------
(* control: control_t::main. *)

ControlSleep ==
    /\ \/ Go("control", "sleep", "check") /\ ~terminated["control"]
       \/ Go("control", "sleep", "end") /\ terminated["control"]
    /\ UNCHANGED <<holder, handle, terminated, svrs, csock, left, alarm>> /\ Idle

\* Mutant: a lost server stays.
CheckKeepsLost ==
    /\ Go("control", "check", "timer")
    /\ UNCHANGED <<holder, handle, terminated, svrs, csock, left, alarm>> /\ Idle

\* check_svrs: servers lost are dropped, those heard of are listed; a change is
\* reported with the list's mutex held.
ControlCheck ==
    LET changed == \E h \in Hosts : svrs[h] \in {"lost", "here"}
    IN /\ handle["info"] => FreeFor("control", "servers")
       /\ IF handle["info"] /\ changed
          THEN /\ Go("control", "check", "listed")
               /\ Lock("control", "servers")
               /\ svrs' = [h \in Hosts |-> IF svrs[h] = "lost" THEN "none"
                                           ELSE IF svrs[h] = "here" THEN "list" ELSE svrs[h]]
          ELSE Go("control", "check", "timer") /\ UNCHANGED <<holder, svrs>>
       /\ UNCHANGED <<handle, terminated, csock, left, alarm>> /\ Idle

\* raise_event(SVRLIST).
ControlListed ==
    /\ Go("control", "listed", "timer")
    /\ FreeFor("control", "callbacks")
    /\ Unlock("servers")
    /\ UNCHANGED <<handle, terminated, svrs, csock, left, alarm>> /\ Idle

\* raise_event(ONTIMER).
ControlTimer ==
    /\ Enter("control", "timer")
    /\ UNCHANGED <<handle, terminated, svrs, csock, alarm>> /\ Idle

ControlEnd ==
    /\ Go("control", "end", "done")
    /\ KillHandle("control")
    /\ UNCHANGED <<holder, terminated, svrs, csock, left, alarm>> /\ Idle

ControlOwn ==
    \/ ControlSleep \/ ControlCheck \/ ControlListed \/ ControlTimer \/ ControlEnd
    \/ CallbackOwn("control")

-----------------------------------------------------------------------------
(* main: main, nrdpx_exit_proc and the signal handler. *)

Rest == UNCHANGED <<holder, csock, left, conn_timeout, term, alarm, signal>>

Running == signal = "none"

MainStartControl ==
    /\ Running
    /\ CreateThread("main", "control", "none", "start", "sleep")
    /\ UNCHANGED <<sock, svrs, active, waited, ended>> /\ Rest

MainStartInfo ==
    /\ Running
    /\ \/ CreateThread("main", "info", "start", "run", "announce")
       \/ Go("main", "start", "run") /\ UNCHANGED <<handle, terminated>>
    /\ UNCHANGED <<sock, svrs, active, waited, ended>> /\ Rest

\* The event loop ends: stop_control_timer begins, which terminates the thread.
MainStop ==
    /\ Running /\ term
    /\ pc["main"] = "run"
    /\ IF handle["control"]
       THEN /\ Go("main", "run", "wait control")
            /\ terminated' = [terminated EXCEPT !["control"] = TRUE]
            /\ waited' = WaitTicks(StopTime)
       ELSE Go("main", "run", "stop info") /\ UNCHANGED <<terminated, waited>>
    /\ UNCHANGED <<handle, sock, svrs, active, ended>> /\ Rest

\* The thread has ended, or the time is over and its handle is forgotten.
MainStopped ==
    /\ Running
    /\ ~handle["control"] \/ waited = 0
    /\ Go("main", "wait control", "stop info")
    /\ KillHandle("control")
    /\ UNCHANGED <<terminated, sock, svrs, active, waited, ended>> /\ Rest

\* stop_info_tracker: the thread is terminated, then its socket closed to wake it.
MainStopInfo ==
    /\ Running
    /\ pc["main"] = "stop info"
    /\ IF handle["info"]
       THEN /\ Go("main", "stop info", "close info")
            /\ terminated' = [terminated EXCEPT !["info"] = TRUE]
       ELSE Go("main", "stop info", "clear info") /\ UNCHANGED terminated
    /\ UNCHANGED <<handle, sock, svrs, active, waited, ended>> /\ Rest

MainCloseInfo ==
    /\ Running
    /\ Go("main", "close info", "wait info")
    /\ FreeFor("main", "section")
    /\ sock' = FALSE
    /\ waited' = WaitTicks(TrackerTime)
    /\ UNCHANGED <<handle, terminated, svrs, active, ended>> /\ Rest

MainInfoStopped ==
    /\ Running
    /\ ~handle["info"] \/ waited = 0
    /\ Go("main", "wait info", "clear info")
    /\ UNCHANGED <<handle, terminated, sock, svrs, active, waited, ended>> /\ Rest

MainClearInfo ==
    /\ Running
    /\ Go("main", "clear info", "delete")
    /\ FreeFor("main", "servers")
    /\ svrs' = [h \in Hosts |-> "none"]
    /\ UNCHANGED <<handle, terminated, sock, active, waited, ended>> /\ Rest

MainDelete ==
    /\ Running
    /\ Go("main", "delete", "exit")
    /\ active' = FALSE
    /\ UNCHANGED <<handle, terminated, sock, svrs, waited, ended>> /\ Rest

MainExit ==
    /\ Running
    /\ Go("main", "exit", "done")
    /\ ended' = TRUE
    /\ UNCHANGED <<handle, terminated, sock, svrs, active, waited>> /\ Rest

MainOwn ==
    \/ MainStartControl \/ MainStartInfo \/ MainStop \/ MainStopped \/ MainStopInfo
    \/ MainCloseInfo \/ MainInfoStopped \/ MainClearInfo \/ MainDelete \/ MainExit

Handled == UNCHANGED <<threadVars, sock, svrs, left, active, conn_timeout, waited>>

\* Mutant: no time is set for a graceful exit.
TermWithoutAlarm ==
    /\ signal = "none" /\ ~term
    /\ term' = TRUE
    /\ signal' = "term"
    /\ UNCHANGED <<csock, alarm, ended>> /\ Handled

\* SIGTERM, SIGINT or SIGHUP.
Term ==
    /\ signal = "none" /\ ~term
    /\ term' = TRUE
    /\ alarm' = ExitTicks
    /\ signal' = "term"
    /\ UNCHANGED <<csock, ended>> /\ Handled

\* The handler goes on: the server checker is aborted by closing its socket.
Abort ==
    /\ signal # "none"
    /\ csock' = FALSE
    /\ signal' = "none"
    /\ UNCHANGED <<term, alarm, ended>> /\ Handled

\* Threads that could go on at once, and the mutex each one needs for that.
Wants ==
    [t \in Threads |->
        CASE t = "info" /\ pc[t] \in {"announce", "report", "event", "stopped"} -> {"callbacks"}
          [] t = "info" /\ pc[t] \in {"create", "end"}       -> {"section"}
          [] t = "info" /\ pc[t] = "clear"                   -> {"servers"}
          [] t = "control" /\ pc[t] = "check"                -> {"servers"}
          [] t = "control" /\ pc[t] \in {"listed", "timer"}  -> {"callbacks"}
          [] t # "main" /\ pc[t] = "send"                    -> {"section"}
          [] t = "main" /\ pc[t] = "close info"              -> {"section"}
          [] t = "main" /\ pc[t] = "clear info"              -> {"servers"}
          [] OTHER                                           -> {}]

TakesTime(t) ==
    \/ pc[t] \in {"none", "sleep", "done", "resolve"}
    \/ t = "info" /\ pc[t] = "recv" /\ sock
    \/ t # "main" /\ pc[t] = "connect" /\ csock
    \/ t = "main" /\ pc[t] = "run" /\ ~term
    \/ pc[t] = "wait control" /\ handle["control"] /\ waited # 0
    \/ pc[t] = "wait info" /\ handle["info"] /\ waited # 0

Waits(t) == TakesTime(t) \/ \E l \in Wants[t] : ~FreeFor(t, l)

\* Time passes.  SIGALRM comes when the alarm's time is over: the process exits
\* forcefully if it was terminated, else the server checker is aborted.
Tick ==
    /\ signal = "none"
    /\ \A t \in Threads : Waits(t)
    /\ alarm > 0 \/ waited > 0
    /\ alarm' = IF alarm > 0 THEN alarm - 1 ELSE 0
    /\ waited' = IF waited > 0 THEN waited - 1 ELSE waited
    /\ ended' = (alarm = 1 /\ term)
    /\ signal' = IF alarm = 1 THEN "alarm" ELSE "none"
    /\ UNCHANGED <<threadVars, sock, svrs, csock, left, active, conn_timeout, term>>

-----------------------------------------------------------------------------
Next ==
    /\ ~ended
    /\ InfoOwn \/ Datagram \/ ControlOwn \/ Network \/ MainOwn \/ Term \/ Abort \/ Tick

\* Threads run, and time passes, even though threads with nothing to do wake up
\* again and again.  A mutex that is free again and again is had at last, and a
\* socket can be created.  No server needs to send a datagram.
Fairness ==
    /\ SF_vars(~ended /\ InfoOwn) /\ SF_vars(~ended /\ InfoCreateOk)
    /\ SF_vars(~ended /\ ControlOwn) /\ SF_vars(~ended /\ Network)
    /\ SF_vars(~ended /\ MainOwn)
    /\ SF_vars(~ended /\ Abort) /\ SF_vars(~ended /\ Tick)

Spec == Init /\ [][Next]_vars /\ Fairness

-----------------------------------------------------------------------------
(* Properties. *)

TypeOK ==
    /\ ThreadsOK
    /\ svrs \in [Hosts -> {"none", "here", "list", "lost"}]
    /\ {sock, csock, active, term, ended} \subseteq BOOLEAN
    /\ left \in 0 .. NumServers /\ conn_timeout \in ConnTimes
    /\ alarm \in Nat /\ waited \in Nat \cup {Forever}
    /\ signal \in {"none", "term", "alarm"}

\* Thread t runs the callback, on the servers of __proxy, or may still run it.
MayCall(t) == pc[t] \notin {"none", "end", "done"}

\* A check and a graceful exit are over before main gives up on the control thread.
InTime ==
    LET wait == WaitTicks(StopTime) IN
    wait = Forever \/ (conn_timeout < wait /\ ExitTicks < wait)

\* When __proxy is deleted, the tracker does not run the callback any more.  The
\* control thread may, on servers that are deleted, but only if conn_timeout is as
\* long as the minute main waits for it, so that the alarm of a check, which has
\* replaced that of the graceful exit, does not end the process before; and it begins
\* no check then.
OnlyControlOutlives ==
    ~active /\ ~ended =>
        /\ ~MayCall("info")
        /\ MayCall("control") => ~InTime /\ pc["control"] # "alarm"

\* Threads wait for each other only when the tracker reports, with its section
\* held, that it could not create its socket, while the callback sends a request.
OnlyReportDeadlocks == \A W \in Deadlocked(Wants) : "info" \in W /\ pc["info"] = "report"

Stuck == Deadlocked(Wants) # {}

\* A signal ends the process, whatever its threads are waiting for.
Ends == term ~> ended

\* After a failure or a bad datagram, the tracker listens again.
HearsAgain == pc["info"] = "restart" ~> (pc["info"] = "recv" \/ terminated["info"] \/ Stuck \/ ended)

\* A server that said it leaves is dropped from the list or has come back.
ForgetsLost ==
    \A h \in Hosts : svrs[h] = "lost" ~> (svrs[h] # "lost" \/ Stuck \/ ended)
=============================================================================
