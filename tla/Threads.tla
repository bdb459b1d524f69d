------------------------------ MODULE Threads -------------------------------
(***************************************************************************)
(* Threads and mutexes of the library (src/src/com/xtllib/xtl_thread.h):   *)
(* who holds which mutex, who waits for whom, and the handle and the       *)
(* termination request of each thread object.                              *)
(*                                                                         *)
(* A mutex is recursive.  A critical section in which nothing can wait is  *)
(* one step, taken when the mutex is free for the thread; only a mutex     *)
(* that is held while its thread may wait is ever seen as held.            *)
(***************************************************************************)
EXTENDS Integers, FiniteSets

CONSTANTS
    Threads,
    Locks,
    Nobody,     \* holds a mutex that is free
    PollsPerTick \* polls of wait_for in a unit of the model's time

VARIABLES
    pc,         \* pc[t]: where thread t is
    holder,     \* holder[l]: the thread that holds mutex l
    handle,     \* handle[t]: m_thread of its object is set
    terminated  \* terminated[t]: m_terminated of its object

threadVars == <<pc, holder, handle, terminated>>

ThreadsInit ==
    /\ pc = [t \in Threads |-> "none"]
    /\ holder = [l \in Locks |-> Nobody]
    /\ handle = [t \in Threads |-> FALSE]
    /\ terminated = [t \in Threads |-> FALSE]

\* lock would return at once: the mutex is free, or the thread has it already.
FreeFor(t, l) == holder[l] \in {Nobody, t}

Lock(t, l) ==
    /\ FreeFor(t, l)
    /\ holder' = [holder EXCEPT ![l] = t]

Unlock(l) == holder' = [holder EXCEPT ![l] = Nobody]

\* Thread t goes from one place to another.
Go(t, from, to) ==
    /\ pc[t] = from
    /\ pc' = [pc EXCEPT ![t] = to]

\* create: thread t sets out from its first place; main starts u.
CreateThread(t, u, from, to, first) ==
    /\ pc[t] = from
    /\ ~handle[u]
    /\ pc' = [pc EXCEPT ![t] = to, ![u] = first]
    /\ handle' = [handle EXCEPT ![u] = TRUE]
    /\ terminated' = [terminated EXCEPT ![u] = FALSE]

\* kill_handle: the object forgets its thread, which may still run.
KillHandle(u) == handle' = [handle EXCEPT ![u] = FALSE]

Forever == -1

\* wait_for counts its unsigned argument (milliseconds) down by 25 at each poll; one
\* that is no multiple of 25 passes below zero, wraps, and is as good as endless.
WaitTicks(time) ==
    IF time % 25 = 0 THEN (time \div 25) \div PollsPerTick ELSE Forever

\* All threads of W wait for a mutex that another one of W holds; wants(t) is the
\* mutex that t needs for its next step.
Circular(W, wants) ==
    /\ W # {}
    /\ \A t \in W : \E l \in wants[t] : holder[l] \in W \ {t}

Deadlocked(wants) == {W \in SUBSET Threads : Circular(W, wants)}

ThreadsOK ==
    /\ holder \in [Locks -> Threads \cup {Nobody}]
    /\ handle \in [Threads -> BOOLEAN]
    /\ terminated \in [Threads -> BOOLEAN]
=============================================================================
