----------------------------- MODULE Selection ------------------------------
(***************************************************************************)
(* How nrdpx_channel_create finds a client group and a server for a        *)
(* connection that follows no cached route, and how nrdpx_select_server    *)
(* compares the servers by score (src/src/nrdpx_server.cpp).               *)
(*                                                                         *)
(* Module Routing takes all of this as one step.  Here it is one step for  *)
(* each read of a server's status, since the callback thread writes it at  *)
(* the same time and takes no lock.  Numbers of channels belong to the     *)
(* main thread and stay as they are.                                       *)
(*                                                                         *)
(* A score is a fraction <<n, d>>.  Which client groups the source of the  *)
(* connection belongs to is the constant Matching (module Cidr).           *)
(***************************************************************************)
EXTENDS Integers, Sequences, Functions, FiniteSetsExt

CONSTANTS
    Servers,        \* configured servers
    Clients,        \* configured client groups
    None,           \* NULL; a figure that is not valid
    Balancers,      \* sequence of balancers
    Matching,       \* client groups with the source of the connection
    Redundant,      \* servers with the redundant flag
    Weight,         \* max_weight
    ConfSlots,      \* max_slots of a server in the configuration
    ClientSlots,    \* max_slots of a client group
    MaxSlots,       \* channels a server or client group may have (bound)
    MaxUsers,       \* 65535: the most users a server can tell, and its default limit
    Percent         \* percentages of free memory and CPU

BalancerRec == [clients : Seq(Clients), servers : Seq(Servers),
                method : {"byrequests", "bybusyness"}, metrics : SUBSET {"cap", "mem", "cpu"}]

ASSUME SelectionAssumption ==
    /\ None \notin Servers \cup Clients \cup Percent
    /\ Balancers \in Seq(BalancerRec)
    /\ Redundant \in SUBSET Servers
    /\ Weight \in [Servers -> 1 .. 100]
    /\ ConfSlots \in [Servers -> Nat \ {0}]
    /\ ClientSlots \in [Clients -> Nat]
    /\ MaxSlots \in Nat
    /\ MaxUsers \in Nat \ {0}
    /\ Percent \in SUBSET (0 .. 100)

\* Nor is NULL an object of the mapping to Routing (below).
ASSUME MappingAssumption == None \notin {"source", "old", "new", "failed"}

VARIABLES
    status,         \* server -> what the callback thread writes
    num_slots,      \* server -> number of channels
    client_slots,   \* client group -> number of channels
    nosvr,          \* the server that has just failed, or None
    pick,           \* what the main thread is doing
    look,           \* what it has read of the server it looks at
    seen,           \* history: server -> the values of its status since the start
    quiet           \* history: no server has been written since the start

vars == <<status, num_slots, client_slots, nosvr, pick, look, seen, quiet>>

\* users: svc.ccnt.  cmax: the limit of users, 0 for the default.  mem, cpu: free
\* percentage, if valid.  The code reads the flag and the percentage one after another:
\* a percentage written in between is as good as one that was valid for a moment.
StatusRec == [active : BOOLEAN, limit : Nat \ {0}, users : Nat, cmax : Nat,
              mem : Percent \cup {None}, cpu : Percent \cup {None}]

\* servers: the vector of candidates.  round: redt, FALSE first.
PickRec == [at : {"client", "collect", "score", "done"}, bal : Nat \ {0}, client : Clients \cup {None},
            servers : Seq(Servers), round : BOOLEAN, i : Nat \ {0}, ret : Servers \cup {None},
            scmax : Int \X Int]

\* at: what is read next.  again: cmax, the second time.
LookRec == [at : {"first", "slots", "users", "cmax", "again", "mem", "cpu"},
            limit : Nat, users : Nat, score : Int \X Int]

Fresh == [at |-> "first", limit |-> 0, users |-> 0, score |-> <<0, 1>>]

\* The limit of users when both reads of cmax agree.
UserLimit(n) == IF n = 0 THEN MaxUsers ELSE n

Eligible(s) == /\ status[s].active
               /\ num_slots[s] < status[s].limit
               /\ status[s].users < UserLimit(status[s].cmax)

SeenRec == [active : SUBSET BOOLEAN, limit : SUBSET (Nat \ {0}), users : SUBSET Nat, cmax : SUBSET Nat]

Now(s) == [active |-> {status[s].active}, limit |-> {status[s].limit},
           users |-> {status[s].users}, cmax |-> {status[s].cmax}]

Both(x, y) == [active |-> x.active \cup y.active, limit |-> x.limit \cup y.limit,
               users |-> x.users \cup y.users, cmax |-> x.cmax \cup y.cmax]

Init ==
    /\ status \in [Servers -> [active : BOOLEAN, limit : 1 .. MaxSlots,
                               users : 0 .. MaxUsers, cmax : 0 .. MaxUsers,
                               mem : Percent \cup {None}, cpu : Percent \cup {None}]]
    /\ \A s \in Servers : status[s].limit <= ConfSlots[s]
    /\ num_slots \in [Servers -> 0 .. MaxSlots]
    /\ client_slots \in [Clients -> 0 .. MaxSlots]
    /\ nosvr \in {None} \cup {s \in Servers : num_slots[s] > 0}
    /\ pick = [at |-> "client", bal |-> 1, client |-> None, servers |-> <<>>,
               round |-> FALSE, i |-> 1, ret |-> None, scmax |-> <<0, 1>>]
    /\ look = Fresh
    /\ seen = [s \in Servers |-> Now(s)]
    /\ quiet = TRUE

-----------------------------------------------------------------------------
(* Scores. *)

Average(x, y) == <<x[1] * y[2] + y[1] * x[2], 2 * x[2] * y[2]>>
Greater(x, y) == x[1] * y[2] > y[1] * x[2]

\* Mutant: the share of slots in use.
CapacityUsed(b, s, limit) ==
    IF b.method = "byrequests" THEN <<100, num_slots[s] + 1>>
    ELSE <<100 * num_slots[s], limit>>

\* Capacity: by the number of channels, or by the share of free slots.
Capacity(b, s, limit) ==
    IF b.method = "byrequests" THEN <<100, num_slots[s] + 1>>
    ELSE <<100 * (limit - num_slots[s]), limit>>

\* The weight is averaged with each metric of the balancer in turn.
Blend(figure, score) == IF figure = None THEN score ELSE Average(<<figure, 1>>, score)

WithMem(b, s) == IF "mem" \in b.metrics THEN Blend(status[s].mem, <<Weight[s], 1>>)
                 ELSE <<Weight[s], 1>>

WithCpu(b, s, score) == IF "cpu" \in b.metrics THEN Blend(status[s].cpu, score) ELSE score

WithCapacity(b, s, limit, score) ==
    IF "cap" \in b.metrics THEN Average(score, Capacity(b, s, limit)) ELSE score

-----------------------------------------------------------------------------
(* nrdpx_channel_create: a client group, and the servers that could be chosen. *)

Bal == Balancers[pick.bal]

\* The first client group of a balancer with a free slot and the source.
Admitting(b) == {j \in DOMAIN b.clients : /\ client_slots[b.clients[j]] < ClientSlots[b.clients[j]]
                                          /\ b.clients[j] \in Matching}

Others == UNCHANGED <<status, num_slots, client_slots, nosvr, seen, quiet>>

\* A balancer without such a client group is left out.
FindClient ==
    /\ pick.at = "client" /\ pick.bal \in DOMAIN Balancers
    /\ pick' = IF Admitting(Bal) = {} THEN [pick EXCEPT !.bal = @ + 1]
               ELSE [pick EXCEPT !.at = "collect", !.i = 1,
                                 !.client = Bal.clients[Min(Admitting(Bal))]]
    /\ Others /\ UNCHANGED look

\* The server the main thread looks at, of the balancer or of the candidates.
List == IF pick.at = "collect" THEN Bal.servers ELSE pick.servers
Looking(at) == pick.at = at /\ pick.i \in DOMAIN List
Svr == List[pick.i]

\* It goes on to another read of this server, or to the next server.
GoOn(next) == look' = next /\ UNCHANGED pick
NextServer == look' = Fresh /\ pick' = [pick EXCEPT !.i = @ + 1]

\* Mutant: servers that are switched off are candidates.
TakeInactive ==
    /\ Looking("collect") /\ look.at = "first"
    /\ IF Svr # nosvr THEN GoOn([look EXCEPT !.at = "slots"]) ELSE NextServer
    /\ Others

\* The tests of a candidate are made one after another.
TestActive ==
    /\ Looking("collect") /\ look.at = "first"
    /\ IF Svr # nosvr /\ status[Svr].active THEN GoOn([look EXCEPT !.at = "slots"]) ELSE NextServer
    /\ Others

TestSlots ==
    /\ Looking("collect") /\ look.at = "slots"
    /\ IF num_slots[Svr] < status[Svr].limit THEN GoOn([look EXCEPT !.at = "users"]) ELSE NextServer
    /\ Others

\* It becomes a candidate; those of earlier balancers stay.
Collect(limit) ==
    IF look.users < limit
    THEN look' = Fresh /\ pick' = [pick EXCEPT !.i = @ + 1, !.servers = Append(@, Svr)]
    ELSE NextServer

Collected ==
    /\ pick.at = "collect" /\ pick.i \notin DOMAIN List
    /\ pick' = [pick EXCEPT !.at = "score", !.round = FALSE, !.i = 1, !.scmax = <<0, 1>>]
    /\ Others /\ UNCHANGED look

-----------------------------------------------------------------------------
(* nrdpx_select_server: the best of the candidates. *)

\* Mutant: redundant servers are compared with the others.
ReadAny ==
    /\ Looking("score") /\ look.at = "first"
    /\ GoOn([look EXCEPT !.at = "users", !.limit = status[Svr].limit])
    /\ Others

ReadSlots ==
    /\ Looking("score") /\ look.at = "first"
    /\ IF (Svr \in Redundant) = pick.round
       THEN GoOn([look EXCEPT !.at = "users", !.limit = status[Svr].limit])
       ELSE NextServer
    /\ Others

\* The limits are tested again, not that the server is active.
Recheck(limit) ==
    IF num_slots[Svr] < look.limit /\ look.users < limit THEN GoOn([look EXCEPT !.at = "mem"])
    ELSE NextServer

ReadMem ==
    /\ Looking("score") /\ look.at = "mem"
    /\ GoOn([look EXCEPT !.at = "cpu", !.score = WithMem(Bal, Svr)])
    /\ Others

Compare ==
    /\ Looking("score") /\ look.at = "cpu"
    /\ LET score == WithCapacity(Bal, Svr, look.limit, WithCpu(Bal, Svr, look.score))
       IN pick' = IF pick.ret = None \/ Greater(score, pick.scmax)
                  THEN [pick EXCEPT !.i = @ + 1, !.ret = Svr, !.scmax = score]
                  ELSE [pick EXCEPT !.i = @ + 1]
    /\ look' = Fresh
    /\ Others

\* The best server, or the redundant ones, or the next balancer.
Compared ==
    /\ pick.at = "score" /\ pick.i \notin DOMAIN List
    /\ pick' = IF pick.ret # None THEN [pick EXCEPT !.at = "done"]
               ELSE IF ~pick.round THEN [pick EXCEPT !.round = TRUE, !.i = 1, !.scmax = <<0, 1>>]
               ELSE [pick EXCEPT !.at = "client", !.bal = @ + 1]
    /\ Others /\ UNCHANGED look

-----------------------------------------------------------------------------
(* nrdpx_server_user_count and nrdpx_server_user_limit, for both of them. *)

ReadUsers ==
    /\ look.at = "users"
    /\ GoOn([look EXCEPT !.at = "cmax", !.users = status[Svr].users])
    /\ Others

WithLimit(limit) == \/ pick.at = "collect" /\ Collect(limit)
                    \/ pick.at = "score" /\ Recheck(limit)

\* !cmax is one read and the value another, in a build without optimisation; one read
\* is as two without a write in between.
ReadCmax ==
    /\ look.at = "cmax"
    /\ \/ status[Svr].cmax = 0 /\ WithLimit(MaxUsers)
       \/ status[Svr].cmax # 0 /\ GoOn([look EXCEPT !.at = "again"])
    /\ Others

ReadAgain ==
    /\ look.at = "again"
    /\ WithLimit(status[Svr].cmax)
    /\ Others

\* No balancer is left: the connection is refused.
GiveUp ==
    /\ pick.at = "client" /\ pick.bal \notin DOMAIN Balancers
    /\ pick' = [pick EXCEPT !.at = "done"]
    /\ Others /\ UNCHANGED look

Select == \/ FindClient \/ TestActive \/ TestSlots \/ Collected
          \/ ReadSlots \/ ReadMem \/ Compare \/ Compared
          \/ ReadUsers \/ ReadCmax \/ ReadAgain \/ GiveUp

-----------------------------------------------------------------------------
(* The callback thread, which writes a server's record field by field: a new    *)
(* record of information, or a server that is switched off.  Limits only shrink. *)

Write(s) ==
    /\ pick.at # "done"
    /\ \/ status' = [status EXCEPT ![s].active = ~@]
       \/ \E n \in 0 .. MaxUsers : status' = [status EXCEPT ![s].users = n]
       \/ \E n \in 0 .. MaxUsers : status' = [status EXCEPT ![s].cmax = n]
       \/ \E n \in 1 .. status[s].limit - 1 : status' = [status EXCEPT ![s].limit = n]
       \/ \E p \in Percent \cup {None} : status' = [status EXCEPT ![s].mem = p]
       \/ \E p \in Percent \cup {None} : status' = [status EXCEPT ![s].cpu = p]
    /\ UNCHANGED <<num_slots, client_slots, nosvr, pick, look>>
    /\ seen' = [t \in Servers |-> Both(seen[t], Now(t)')]
    /\ quiet' = FALSE

Spec == Init /\ [][Select \/ \E s \in Servers : Write(s)]_vars

-----------------------------------------------------------------------------
(* Properties. *)

\* Type invariant.
TypeOK ==
    /\ status \in [Servers -> StatusRec]
    /\ \A s \in Servers : status[s].limit <= ConfSlots[s]
    /\ num_slots \in [Servers -> Nat]
    /\ client_slots \in [Clients -> Nat]
    /\ nosvr \in Servers \cup {None}
    /\ pick \in PickRec
    /\ look \in LookRec
    /\ seen \in [Servers -> SeenRec]
    /\ quiet \in BOOLEAN

ServersOf(b) == Range(Balancers[b].servers)

\* Balancers that have come to nothing.
Passed == {b \in DOMAIN Balancers : b < pick.bal}

\* Limits of users that may have been read: 0 when the limit was taken back between
\* the two reads.
LimitsRead(s) == {UserLimit(n) : n \in seen[s].cmax}
                     \cup {n \in seen[s].cmax : n = 0 /\ seen[s].cmax # {0}}

\* Each test of a server may have been passed, or one failed, since the start.  The
\* user count and its limit may be of two times.
MayPass(s) == /\ TRUE \in seen[s].active
              /\ \E n \in seen[s].limit : num_slots[s] < n
              /\ \E u \in seen[s].users, n \in LimitsRead(s) : u < n

MayFail(s) == \/ FALSE \in seen[s].active
              \/ \E n \in seen[s].limit : num_slots[s] >= n
              \/ \E u \in seen[s].users, n \in LimitsRead(s) : u >= n

\* A server is chosen only if during the selection it was active, had a free slot and
\* had less users than a limit of it, and it is not the one that has just failed; the
\* configured limit has room for one more channel.  It need not have been all of this
\* at one time: a server with as many users as it may have can be read as active just
\* before it is switched off, and its user count just after that has set it to 0.
WasEligible ==
    pick.ret # None => /\ MayPass(pick.ret) /\ pick.ret # nosvr
                       /\ num_slots[pick.ret] < ConfSlots[pick.ret]

\* A balancer is given up only when each of its servers could not be chosen for a
\* reason that held during the selection, and a redundant server is chosen only when
\* this is so of each other server of the balancer: one the callback never touches is
\* not missed.
InOrder ==
    /\ \A b \in Passed : Admitting(Balancers[b]) # {} =>
          \A s \in ServersOf(b) \ {nosvr} : MayFail(s)
    /\ pick.ret \in Redundant =>
          \A s \in ServersOf(pick.bal) \ (Redundant \cup {nosvr}) : MayFail(s)

\* CONFIG.md, servers of a balancer: the listed servers will receive connections from
\* the listed client groups.  Candidates of an earlier balancer are still there.
ListedServers == pick.ret # None => pick.ret \in ServersOf(pick.bal)

-----------------------------------------------------------------------------
(* When no server changes. *)

CapacityOf(b, s) == IF b.method = "byrequests" THEN -num_slots[s]
                    ELSE status[s].limit - num_slots[s]

\* t is at least as good as s in weight and in every metric of the balancer, and
\* better in one.  Free slots are compared between servers of one limit.
Dominates(b, t, s) ==
    LET figures(x) == [weight |-> Weight[x],
                       mem |-> IF "mem" \in b.metrics THEN status[x].mem ELSE None,
                       cpu |-> IF "cpu" \in b.metrics THEN status[x].cpu ELSE None,
                       cap |-> IF "cap" \in b.metrics THEN CapacityOf(b, x) ELSE None]
        f == figures(s)
        g == figures(t)
    IN /\ status[s].limit = status[t].limit
       /\ f # g
       /\ \A m \in DOMAIN f : IF None \in {f[m], g[m]} THEN f[m] = g[m] ELSE g[m] >= f[m]

\* No server that could be chosen instead of ret dominates it.
NotDominated ==
    pick.ret # None =>
        \A t \in ServersOf(pick.bal) \ {nosvr} :
            Eligible(t) /\ (t \in Redundant) = (pick.ret \in Redundant)
                => ~Dominates(Bal, t, pick.ret)

\* The state as module Routing has it: a source host without a cached route, and, if
\* a server has failed, the channel and route to it.
Call(at, r) == [at |-> at, host |-> "source", route |-> r,
                failed |-> IF nosvr = None THEN None ELSE "failed"]

RouteTo(k, s) == [client |-> k, server |-> s, cached |-> FALSE, num_slots |-> 0, idle |-> 0]

Chosen == pick.at = "done" /\ pick.ret # None

R == INSTANCE Routing WITH
        Hosts <- {"source"}, Routes <- {"old", "new"}, Chans <- {"failed"},
        Balancers <- [b \in DOMAIN Balancers |-> [clients |-> Balancers[b].clients,
                                                  servers |-> ServersOf(b)]],
        Sources <- [k \in Clients |-> IF k \in Matching THEN {"source"} ELSE {}],
        MaxFaults <- 3, CacheTimeout <- 0, SweepPeriod <- 1,
        active <- [s \in Servers |-> status[s].active],
        max_slots <- [s \in Servers |-> status[s].limit],
        num_faults <- [s \in Servers |-> 0],
        cache <- [h \in {"source"} |-> None],
        route <- [r \in {x \in {"old", "new"} : IF x = "old" THEN nosvr # None ELSE Chosen} |->
                    IF r = "old" THEN RouteTo(None, nosvr) ELSE RouteTo(pick.client, pick.ret)],
        chan <- [c \in {x \in {"failed"} : nosvr # None} |->
                    [host |-> "source", route |-> "old", connected |-> FALSE]],
        sweep <- 0,
        main <- IF pick.at # "done" THEN Call("route", None)
                ELSE IF Chosen THEN Call("connect", "new")
                ELSE IF nosvr # None THEN Call("drop", None)
                ELSE [at |-> "loop", host |-> None, failed |-> None, route |-> None]

\* When no server is written meanwhile, the loops over balancers, client groups and
\* servers choose what the one step of Routing does: the first usable balancer, its
\* first client group, and a redundant server only when no other one can be chosen.
\* Of the servers that step may choose it is one that no other dominates: averages of
\* figures on different scales keep the order of what they are made of.
ChoosesBest ==
    [][quiet /\ pick.at # "done" /\ pick'.at = "done" =>
          /\ \E busy \in SUBSET Servers : R!RouteFresh(busy) \/ R!RouteNone(busy)
          /\ NotDominated']_vars
=============================================================================
