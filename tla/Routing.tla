------------------------------ MODULE Routing ------------------------------
(***************************************************************************)
(* Channels, routes and the routing cache of the proxy                     *)
(* (src/src/nrdpx_server.cpp), as the main thread handles them.            *)
(*                                                                         *)
(* A connection of a source host becomes a channel; a channel follows a    *)
(* route (client group, server).  Routes live on the heap: a route in the  *)
(* cache is owned by the cache and shared by the channels of its host, any *)
(* other route is owned by the one channel that uses it.  Servers, client  *)
(* groups and routes count the channels on them (num_slots).               *)
(*                                                                         *)
(* nrdpx_channel_create runs in two steps, "route" (cache lookup and       *)
(* server selection) and "connect" (socket, channel object, cache entry),  *)
(* because the callback thread changes the servers' status without a lock  *)
(* in between.  What that thread may do to a server is the environment     *)
(* StatusChange of this module.                                            *)
(*                                                                         *)
(* Time stamps are modelled by their age, saturated one past the threshold *)
(* they are compared with.  Whether an address matches a CIDR is the       *)
(* constant Sources; which servers have their user count at its limit is   *)
(* open in each selection, and so is the score that picks among eligible   *)
(* servers.                                                                *)
(***************************************************************************)
EXTENDS Integers, FiniteSets, FiniteSetsExt, Sequences, Functions

CONSTANTS
    Hosts,          \* source addresses
    Servers,        \* configured servers
    Clients,        \* configured client groups
    Routes,         \* addresses of route objects (bound on the heap)
    Chans,          \* addresses of channel objects (bound on the heap)
    None,           \* NULL
    Balancers,      \* sequence of balancers
    Sources,        \* Sources[k]: the hosts in the CIDRs of client group k
    Redundant,      \* servers with the redundant flag
    ConfSlots,      \* max_slots of a server in the configuration
    ClientSlots,    \* max_slots of a client group
    MaxFaults,      \* max_faults
    CacheTimeout,   \* cache_timeout, 0 switches the cache off
    SweepPeriod     \* period of the cache sweep (3600 s in the code)

ASSUME RoutingAssumption ==
    /\ IsFiniteSet(Chans)
    /\ None \notin Hosts \cup Servers \cup Clients \cup Routes \cup Chans
    /\ Sources \in [Clients -> SUBSET Hosts]
    /\ Redundant \in SUBSET Servers
    /\ ConfSlots \in [Servers -> Nat \ {0}]
    /\ ClientSlots \in [Clients -> Nat]
    /\ MaxFaults \in Nat \ {0}
    /\ CacheTimeout \in Nat
    /\ SweepPeriod \in Nat

\* A balancer's client groups are tried in order; its servers are compared.
BalancerRec == [clients : Seq(Clients), servers : SUBSET Servers]

ASSUME BalancersAssumption == Balancers \in Seq(BalancerRec)

VARIABLES
    active,         \* server -> is NRDNBS_ACTIVE set
    max_slots,      \* server -> current limit of channels
    num_slots,      \* server -> number of channels
    num_faults,     \* server -> failed connection attempts
    client_slots,   \* client group -> number of channels
    cache,          \* host -> cached route or None
    route,          \* allocated route -> its fields
    chan,           \* open channel -> its fields
    sweep,          \* time left until the next cache sweep
    main            \* what the main thread is doing

status  == <<active, max_slots, num_faults>>
counts  == <<num_slots, client_slots>>
objects == <<cache, route, chan>>
vars    == <<status, counts, objects, sweep, main>>

CacheOn == CacheTimeout > 0

\* chktime is not initialised: the first sweep may be due at once, later, or
\* (Never) so far in the future that it does not come.
Never == SweepPeriod + 2

RouteRec == [client : Clients, server : Servers, cached : BOOLEAN,
             num_slots : Nat, idle : 0 .. CacheTimeout + 1]
ChanRec  == [host : Hosts, route : Routes, connected : BOOLEAN]
MainRec  == [at : {"loop", "route", "connect", "drop"},
             host : Hosts \cup {None},
             failed : Chans \cup {None},    \* channel being replaced
             route : Routes \cup {None}]    \* route being connected

Idle == [at |-> "loop", host |-> None, failed |-> None, route |-> None]

Init ==
    /\ active       = [s \in Servers |-> TRUE]
    /\ max_slots    = ConfSlots
    /\ num_slots    = [s \in Servers |-> 0]
    /\ num_faults   = [s \in Servers |-> 0]
    /\ client_slots = [k \in Clients |-> 0]
    /\ cache        = [h \in Hosts |-> None]
    /\ route        = [r \in {} |-> None]
    /\ chan         = [c \in {} |-> None]
    /\ sweep        \in 0 .. Never
    /\ main         = Idle

-----------------------------------------------------------------------------
(* Channels and their counters.                                            *)

With(f, x, v) == [y \in DOMAIN f \cup {x} |-> IF y = x THEN v ELSE f[y]]
Without(f, S) == Restrict(f, DOMAIN f \ S)
Dec(n)        == IF n > 0 THEN n - 1 ELSE 0

ServerOf(c) == route[chan[c].route].server
ClientOf(c) == route[chan[c].route].client

\* Mutant: the cached route is deleted with its channel.
ReleaseDeletesCached(c) ==
    /\ chan'         = Without(chan, {c})
    /\ num_slots'    = [num_slots EXCEPT ![ServerOf(c)] = Dec(@)]
    /\ client_slots' = [client_slots EXCEPT ![ClientOf(c)] = Dec(@)]
    /\ route'        = Without(route, {chan[c].route})

\* Mutant: the slot of a cached route is not given back.
ReleaseKeepsSlot(c) ==
    LET r == chan[c].route IN
    /\ chan'         = Without(chan, {c})
    /\ num_slots'    = [num_slots EXCEPT ![ServerOf(c)] = Dec(@)]
    /\ client_slots' = [client_slots EXCEPT ![ClientOf(c)] = Dec(@)]
    /\ route'        = IF route[r].cached THEN [route EXCEPT ![r].idle = 0]
                       ELSE Without(route, {r})

\* ~nrdpx_channel_t: the counters of the client and the server, then the
\* route: deleted when it is not cached, else released and marked as used now.
Release(c) ==
    LET r == chan[c].route IN
    /\ chan'         = Without(chan, {c})
    /\ num_slots'    = [num_slots EXCEPT ![ServerOf(c)] = Dec(@)]
    /\ client_slots' = [client_slots EXCEPT ![ClientOf(c)] = Dec(@)]
    /\ route'        = IF route[r].cached
                       THEN [route EXCEPT ![r].num_slots = Dec(@), ![r].idle = 0]
                       ELSE Without(route, {r})

-----------------------------------------------------------------------------
(* The main loop, between two calls of nrdpx_channel_create.               *)

\* One channel is kept free for a failover: the bound of the model.
Room == Cardinality(DOMAIN chan) + 1 < Cardinality(Chans)

\* A listener accepted a connection of host h.
Accept(h) ==
    /\ main.at = "loop" /\ Room
    /\ main' = [Idle EXCEPT !.at = "route", !.host = h]
    /\ UNCHANGED <<status, counts, objects, sweep>>

\* Mutant: the faults are not forgotten when the server is switched off.
ConnectErrorKeepsFaults(c) ==
    LET s == ServerOf(c) IN
    /\ main.at = "loop" /\ ~chan[c].connected
    /\ num_faults' = [num_faults EXCEPT ![s] = @ + 1]
    /\ active'     = [active EXCEPT ![s] = @ /\ num_faults'[s] < MaxFaults]
    /\ main'       = [at |-> "route", host |-> chan[c].host, failed |-> c, route |-> None]
    /\ UNCHANGED <<max_slots, counts, objects, sweep>>

\* Mutant: a server is never switched off for its faults.
ConnectErrorForgives(c) ==
    /\ main.at = "loop" /\ ~chan[c].connected
    /\ main' = [at |-> "route", host |-> chan[c].host, failed |-> c, route |-> None]
    /\ UNCHANGED <<status, counts, objects, sweep>>

\* Connecting timed out or failed: count the fault, switch the server off when
\* it has max_faults of them, and go for another server.
ConnectError(c) ==
    LET s == ServerOf(c)
        n == num_faults[s] + 1
        off == n >= MaxFaults
    IN
    /\ main.at = "loop" /\ ~chan[c].connected
    /\ num_faults' = [num_faults EXCEPT ![s] = IF off THEN 0 ELSE n]
    /\ active'     = [active EXCEPT ![s] = @ /\ ~off]
    /\ main'       = [at |-> "route", host |-> chan[c].host, failed |-> c, route |-> None]
    /\ UNCHANGED <<max_slots, counts, objects, sweep>>

\* set_connected: the target socket became readable or writable.
SetConnected(c) ==
    /\ main.at = "loop" /\ ~chan[c].connected
    /\ chan'       = [chan EXCEPT ![c].connected = TRUE]
    /\ num_faults' = [num_faults EXCEPT ![ServerOf(c)] = 0]
    /\ UNCHANGED <<active, max_slots, counts, cache, route, sweep, main>>

\* A read or a write of one of the two sockets failed for good.
Close(c) ==
    /\ main.at = "loop"
    /\ Release(c)
    /\ UNCHANGED <<status, cache, sweep, main>>

-----------------------------------------------------------------------------
(* nrdpx_channel_create, first step: cache lookup and server selection.    *)

Expired(r) == route[r].num_slots = 0 /\ route[r].idle > CacheTimeout

\* nosvr: the server the failed channel was connecting to.
NoSvr == IF main.failed = None THEN None ELSE ServerOf(main.failed)

\* nrdpx_cache_t::find deletes the expired route of the host it looks up and,
\* when the sweep is due, every expired route.
Evicted == {h \in Hosts : /\ cache[h] # None
                          /\ Expired(cache[h])
                          /\ sweep = 0 \/ h = main.host}

Found == IF main.host \in Evicted THEN None ELSE cache[main.host]

\* A cached route to nosvr is not followed; nrdpx_cache_t::remove deletes it
\* when no channel is on it.
Refused == Found # None /\ route[Found].server = NoSvr

\* Mutant: a refused route is deleted even when channels are on it.
GoneWithChannels == Evicted \cup {h \in {main.host} : Refused}

Gone == Evicted \cup {h \in {main.host} : Refused /\ route[Found].num_slots = 0}

\* The cache and the heap without the cached routes of the hosts in S.
CacheWithout(S) == [h \in Hosts |-> IF h \in S THEN None ELSE cache[h]]
HeapWithout(S)  == Without(route, {cache[h] : h \in S})

\* chktime is moved on by the sweep.
NextSweep == IF CacheOn /\ sweep = 0 THEN SweepPeriod + 1 ELSE sweep

\* Mutant: one connection too many.
CandidatesOneMore(b, busy) == {s \in b.servers \ busy : /\ s # NoSvr
                                                        /\ active[s]
                                                        /\ num_slots[s] <= max_slots[s]}

\* Mutant: the failed server is a candidate again.
CandidatesAgain(b, busy) == {s \in b.servers \ busy : /\ active[s]
                                                      /\ num_slots[s] < max_slots[s]}

\* The client groups of a balancer that have a free slot and a matching CIDR.
Admitting(b) == {i \in DOMAIN b.clients :
                    LET k == b.clients[i] IN
                    client_slots[k] < ClientSlots[k] /\ main.host \in Sources[k]}

\* The servers of a balancer that may take the connection, when the servers in
\* busy have as many users as they allow.
Candidates(b, busy) == {s \in b.servers \ busy : /\ s # NoSvr
                                                 /\ active[s]
                                                 /\ num_slots[s] < max_slots[s]}

\* nrdpx_select_server: redundant servers only when there is no other one.
Preferred(S) == IF S \subseteq Redundant THEN S ELSE S \ Redundant

Usable(busy) == {i \in DOMAIN Balancers : /\ Admitting(Balancers[i]) # {}
                                          /\ Candidates(Balancers[i], busy) # {}}

\* A cached route is followed whatever the state of its server.
RouteCached ==
    /\ main.at = "route"
    /\ Found # None /\ ~Refused
    /\ cache' = CacheWithout(Gone)
    /\ route' = HeapWithout(Gone)
    /\ sweep' = NextSweep
    /\ main' = [main EXCEPT !.at = "connect", !.route = Found]
    /\ UNCHANGED <<status, counts, chan>>

\* No cached route: the first balancer with a client group and a server for
\* the connection, its first such group, and one of its preferred servers.
RouteFresh(busy) ==
    /\ main.at = "route"
    /\ Found = None \/ Refused
    /\ Usable(busy) # {}
    /\ LET b == Balancers[Min(Usable(busy))]
           k == b.clients[Min(Admitting(b))]
       IN \E r \in Routes \ DOMAIN route, s \in Preferred(Candidates(b, busy)) :
            /\ route' = With(HeapWithout(Gone), r,
                             [client |-> k, server |-> s, cached |-> FALSE,
                              num_slots |-> 0, idle |-> 0])
            /\ main'  = [main EXCEPT !.at = "connect", !.route = r]
    /\ cache' = CacheWithout(Gone)
    /\ sweep' = NextSweep
    /\ UNCHANGED <<status, counts, chan>>

\* Where the main thread goes when nrdpx_channel_create returns.
Return == IF main.failed = None THEN Idle
          ELSE [main EXCEPT !.at = "drop", !.route = None]

\* No client group or no server for the connection: the source is closed.
RouteNone(busy) ==
    /\ main.at = "route"
    /\ Found = None \/ Refused
    /\ Usable(busy) = {}
    /\ cache' = CacheWithout(Gone)
    /\ route' = HeapWithout(Gone)
    /\ sweep' = NextSweep
    /\ main' = Return
    /\ UNCHANGED <<status, counts, chan>>

\* The peer has gone: nothing is looked up, the source is closed.
PeerGone ==
    /\ main.at = "route"
    /\ main' = Return
    /\ UNCHANGED <<status, counts, objects, sweep>>

-----------------------------------------------------------------------------
(* nrdpx_channel_create, second step: connect and commit.                  *)

\* Mutant: a second route replaces the cached one.
CacheableAnyway == CacheOn

\* nrdpx_cache_t::add refuses a second route for a host.
Cacheable == CacheOn /\ cache[main.host] = None

\* The socket is connecting: a channel on the route, counted, and the route
\* put in the cache when it is new.
ConnectStarted ==
    LET r == main.route
        add == ~route[r].cached /\ Cacheable
    IN
    /\ main.at = "connect"
    /\ \E c \in Chans \ DOMAIN chan :
         chan' = With(chan, c, [host |-> main.host, route |-> r, connected |-> FALSE])
    /\ num_slots'    = [num_slots EXCEPT ![route[r].server] = @ + 1]
    /\ client_slots' = [client_slots EXCEPT ![route[r].client] = @ + 1]
    /\ route'        = [route EXCEPT ![r].num_slots = @ + 1, ![r].idle = 0,
                                     ![r].cached = @ \/ add]
    /\ cache'        = [cache EXCEPT ![main.host] = IF add THEN r ELSE @]
    /\ main'         = Return
    /\ UNCHANGED <<status, sweep>>

\* Mutant: the new route is left behind.
ConnectRefusedLeaks ==
    LET unused == {h \in {main.host} : cache[h] # None /\ route[cache[h]].num_slots = 0} IN
    /\ main.at = "connect"
    /\ cache' = CacheWithout(unused)
    /\ route' = HeapWithout(unused)
    /\ main'  = Return
    /\ UNCHANGED <<status, counts, chan, sweep>>

\* The host name, the socket or the connection failed at once: both sockets are
\* closed, a new route is deleted, a cached one when no channel is on it.
ConnectRefused ==
    LET r == main.route
        unused == {h \in {main.host} : cache[h] # None /\ route[cache[h]].num_slots = 0}
    IN
    /\ main.at = "connect"
    /\ IF route[r].cached
       THEN cache' = CacheWithout(unused) /\ route' = HeapWithout(unused)
       ELSE cache' = cache /\ route' = Without(route, {r})
    /\ main' = Return
    /\ UNCHANGED <<status, counts, chan, sweep>>

\* The failed channel is deleted after its replacement was created (or not).
DropFailed ==
    /\ main.at = "drop"
    /\ Release(main.failed)
    /\ main' = Idle
    /\ UNCHANGED <<status, cache, sweep>>

-----------------------------------------------------------------------------
(* The callback thread and the clock.                                      *)

\* A status check found the server reachable.
Activate(s) ==
    /\ active' = [active EXCEPT ![s] = TRUE]
    /\ UNCHANGED <<max_slots, num_faults>>

\* A status check failed or the server was reported lost.  The reset of
\* num_faults may be overwritten by the increment of the main thread.
Deactivate(s) ==
    /\ active'     = [active EXCEPT ![s] = FALSE]
    /\ num_faults' \in {num_faults, [num_faults EXCEPT ![s] = 0]}
    /\ UNCHANGED max_slots

\* The server's info arrived: its status is taken over, the limit may shrink.
Inform(s) ==
    /\ \E a \in BOOLEAN : active' = [active EXCEPT ![s] = a]
    /\ \E n \in 1 .. max_slots[s] : max_slots' = [max_slots EXCEPT ![s] = n]
    /\ UNCHANGED num_faults

StatusChange(s) ==
    /\ Activate(s) \/ Deactivate(s) \/ Inform(s)
    /\ UNCHANGED <<counts, objects, sweep, main>>

\* Time passes.  The age of a route that channels are on, or that is not in the
\* cache, is never read before it is reset, and does not grow.
Tick ==
    /\ route' = [r \in DOMAIN route |->
                    IF /\ route[r].cached /\ route[r].num_slots = 0
                       /\ route[r].idle <= CacheTimeout
                    THEN [route[r] EXCEPT !.idle = @ + 1] ELSE route[r]]
    /\ sweep' = IF sweep \in {0, Never} THEN sweep ELSE sweep - 1
    /\ UNCHANGED <<status, counts, cache, chan, main>>

-----------------------------------------------------------------------------
\* What the main thread does once it has something to do.
Proceed == \/ RouteCached \/ PeerGone
           \/ \E busy \in SUBSET Servers : RouteFresh(busy) \/ RouteNone(busy)
           \/ ConnectStarted \/ ConnectRefused \/ DropFailed

MainNext == \/ \E h \in Hosts : Accept(h)
            \/ \E c \in DOMAIN chan : ConnectError(c) \/ SetConnected(c) \/ Close(c)
            \/ Proceed

Next == MainNext \/ (\E s \in Servers : StatusChange(s)) \/ Tick

Spec == Init /\ [][Next]_vars /\ WF_vars(Proceed)

\* The proxy without its callback thread: only connection faults switch a server
\* off, and no check switches it on again.
QuietSpec == Init /\ [][MainNext \/ Tick]_vars /\ WF_vars(Proceed)

-----------------------------------------------------------------------------
(* Invariants.                                                             *)

\* Type invariant.
TypeOK ==
    /\ active \in [Servers -> BOOLEAN]
    /\ max_slots \in [Servers -> Nat]
    /\ \A s \in Servers : max_slots[s] \in 1 .. ConfSlots[s]
    /\ num_slots \in [Servers -> Nat]
    /\ num_faults \in [Servers -> 0 .. MaxFaults - 1]
    /\ client_slots \in [Clients -> Nat]
    /\ cache \in [Hosts -> Routes \cup {None}]
    /\ DOMAIN route \subseteq Routes
    /\ \A r \in DOMAIN route : route[r] \in RouteRec
    /\ DOMAIN chan \subseteq Chans
    /\ \A c \in DOMAIN chan : chan[c] \in ChanRec
    /\ sweep \in 0 .. Never
    /\ main \in MainRec

ChansOn(r)  == {c \in DOMAIN chan : chan[c].route = r}
OnServer(s) == {c \in DOMAIN chan : ServerOf(c) = s}
OnClient(k) == {c \in DOMAIN chan : ClientOf(c) = k}

\* No pointer to a deleted route or channel is ever left behind: channels, the
\* cache and a running nrdpx_channel_create only refer to live objects, although
\* the cache, the channel destructor and the error paths all delete routes.
NoDangling ==
    /\ \A c \in DOMAIN chan : chan[c].route \in DOMAIN route
    /\ \A h \in Hosts : cache[h] # None => cache[h] \in DOMAIN route
    /\ main.route # None => main.route \in DOMAIN route
    /\ main.failed # None => main.failed \in DOMAIN chan

\* The slot counters never drift: every server, client group and route counts
\* exactly the channels on it, through failover, eviction and failed connects.
SlotsExact ==
    /\ \A s \in Servers : num_slots[s] = Cardinality(OnServer(s))
    /\ \A k \in Clients : client_slots[k] = Cardinality(OnClient(k))
    /\ \A r \in DOMAIN route : route[r].num_slots = Cardinality(ChansOn(r))

\* Every route object has exactly one owner, so that none leaks and none is
\* deleted twice: the one cache entry of a cached route; the one channel, or the
\* running nrdpx_channel_create, of any other.
OneOwner ==
    \A r \in DOMAIN route :
        LET entries == {h \in Hosts : cache[h] = r} IN
        IF route[r].cached
        THEN \E h \in Hosts : entries = {h}
        ELSE /\ entries = {}
             /\ IF main.route = r THEN ChansOn(r) = {}
                ELSE \E c \in Chans : ChansOn(r) = {c}

\* The cached route a channel is on, or is about to be on, is the cache entry of
\* its host: cache entries are found by host although channels hold pointers.
RouteOfHost ==
    /\ \A c \in DOMAIN chan :
         route[chan[c].route].cached => cache[chan[c].host] = chan[c].route
    /\ main.at = "connect" /\ route[main.route].cached => cache[main.host] = main.route

\* What main holds at each point of the main thread.
PhaseOK ==
    /\ main.at = "loop" <=> main = Idle
    /\ main.at \in {"route", "connect"} => main.host # None
    /\ main.at = "connect" <=> main.route # None
    /\ main.at = "drop" => main.failed # None
    /\ main.failed # None => ~chan[main.failed].connected

\* The inductive invariant.
IInv == TypeOK /\ NoDangling /\ SlotsExact /\ OneOwner /\ RouteOfHost /\ PhaseOK

-----------------------------------------------------------------------------
(* Action properties.                                                      *)

\* A route that channels are using stays in the cache under its host: neither
\* the sweep, nor a refused or failed connect, nor a failover takes it away.
Pinned ==
    [][\A h \in Hosts :
          cache[h] # None /\ route[cache[h]].num_slots > 0 => cache'[h] = cache[h]]_vars

\* A host that opens a connection while another one of its connections is on its
\* cached route joins that route, and so reaches the same server.
JoinsOpenSession ==
    [][main.at = "route" /\ main.failed = None /\ main'.at = "connect" =>
          \A c \in DOMAIN chan :
             chan[c].host = main.host /\ route[chan[c].route].cached
                => main'.route = chan[c].route]_vars

\* A failover never goes back to the server whose connection has just failed.
FailoverMovesOn ==
    [][main.at = "route" /\ main.failed # None /\ main'.at = "connect" =>
          route'[main'.route].server # ServerOf(main.failed)]_vars

\* Only a cached route can take a server or a client group over its configured
\* limit: the limits that were read when a new route was selected still hold
\* when its channel is created, whatever the callback thread did in between.
OnlyCachedExceeds ==
    [][/\ \A s \in Servers :
             num_slots'[s] > num_slots[s] /\ num_slots[s] >= ConfSlots[s]
                => route[main.route].cached
       /\ \A k \in Clients :
             client_slots'[k] > client_slots[k] /\ client_slots[k] >= ClientSlots[k]
                => route[main.route].cached]_vars

\* What keeps them: a new route that is being connected has a free slot of its server
\* and of its client group.
ConnectFits ==
    main.at = "connect" /\ ~route[main.route].cached =>
        /\ num_slots[route[main.route].server] < ConfSlots[route[main.route].server]
        /\ client_slots[route[main.route].client] < ClientSlots[route[main.route].client]

-----------------------------------------------------------------------------
(* Liveness.                                                               *)

Arrival == (\E h \in Hosts : Accept(h)) \/ (\E s \in Servers : StatusChange(s))

\* Failover settles: once no connection arrives and no server changes its status
\* any more, the proxy stops moving connections from server to server.
FailoverSettles == <>[][~Arrival]_vars => <>[](main.failed = None)

-----------------------------------------------------------------------------
(* What the documentation says of the limits and of faulty servers.        *)

\* CONFIG.md, max_slots of a server: the maximum number of connections.
ServerLimit == \A s \in Servers : num_slots[s] <= ConfSlots[s]

\* CONFIG.md, max_slots of a client group: maximal number of incoming client
\* connections.
ClientLimit == \A k \in Clients : client_slots[k] <= ClientSlots[k]

\* CONFIG.md, max_faults: a faulty server is disabled till the next check.  When
\* no check comes (QuietSpec), no connection is routed to a server switched off.
FaultyDisabled ==
    [][main.at = "route" /\ main'.at = "connect" =>
          active[route'[main'.route].server]]_vars
=============================================================================
