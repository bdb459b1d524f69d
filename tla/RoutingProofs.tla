--------------------------- MODULE RoutingProofs ---------------------------
(***************************************************************************)
(* Proofs about Routing: the inductive invariant IInv, and what follows    *)
(* from it for every number of hosts, servers, client groups and channels. *)
(***************************************************************************)
EXTENDS Routing, FiniteSetTheorems, WellFoundedInduction, TLAPS

USE RoutingAssumption

-----------------------------------------------------------------------------
(* The sets of channels that the counters count.                           *)

LEMMA CountsFinite ==
    ASSUME TypeOK
    PROVE  /\ IsFiniteSet(DOMAIN chan)
           /\ \A s \in Servers : IsFiniteSet(OnServer(s))
           /\ \A k \in Clients : IsFiniteSet(OnClient(k))
           /\ \A r \in Routes  : IsFiniteSet(ChansOn(r))
<1>1. IsFiniteSet(DOMAIN chan)
  BY FS_Subset DEF TypeOK
<1>2. \A s : OnServer(s) \in SUBSET DOMAIN chan
  BY DEF OnServer
<1>3. \A k : OnClient(k) \in SUBSET DOMAIN chan
  BY DEF OnClient
<1>4. \A r : ChansOn(r) \in SUBSET DOMAIN chan
  BY DEF ChansOn
<1> QED
  BY <1>1, <1>2, <1>3, <1>4, FS_Subset

\* A set that gains or loses one element, and one that does not.
LEMMA CountAdd ==
    ASSUME NEW S, IsFiniteSet(S), NEW x, x \notin S
    PROVE  Cardinality(S \cup {x}) = Cardinality(S) + 1
  BY FS_AddElement

LEMMA CountRemove ==
    ASSUME NEW S, IsFiniteSet(S), NEW x \in S
    PROVE  /\ Cardinality(S) \in Nat /\ Cardinality(S) > 0
           /\ Cardinality(S \ {x}) = Cardinality(S) - 1
<1>1. Cardinality(S) \in Nat
  BY FS_CardinalityType
<1>2. Cardinality(S) # 0
  BY FS_EmptySet
<1>3. Cardinality(S \ {x}) = Cardinality(S) - 1
  BY FS_RemoveElement
<1> QED
  BY <1>1, <1>2, <1>3

\* A route that a channel is on has a slot in use.
LEMMA UsedRoute ==
    ASSUME IInv, NEW c \in DOMAIN chan
    PROVE  /\ chan[c].route \in DOMAIN route
           /\ route[chan[c].route].num_slots > 0
<1> DEFINE r == chan[c].route
<1>1. r \in DOMAIN route /\ r \in Routes
  BY DEF IInv, NoDangling, TypeOK
<1>2. c \in ChansOn(r)
  BY DEF ChansOn
<1>3. IsFiniteSet(ChansOn(r))
  BY <1>1, CountsFinite DEF IInv
<1>4. Cardinality(ChansOn(r)) > 0
  BY <1>2, <1>3, CountRemove
<1> QED
  BY <1>1, <1>4 DEF IInv, SlotsExact

\* A cache entry is a cached route, and the only entry of that route.
LEMMA CacheEntry ==
    ASSUME IInv, NEW h \in Hosts, cache[h] # None
    PROVE  /\ cache[h] \in DOMAIN route
           /\ route[cache[h]].cached
           /\ \A g \in Hosts : cache[g] = cache[h] => g = h
<1>1. cache[h] \in DOMAIN route
  BY DEF IInv, NoDangling
<1>2. {f \in Hosts : cache[f] = cache[h]} # {}
  OBVIOUS
<1>3. route[cache[h]].cached
  BY <1>1, <1>2 DEF IInv, OneOwner
<1>4. PICK f \in Hosts : {e \in Hosts : cache[e] = cache[h]} = {f}
  BY <1>1, <1>3 DEF IInv, OneOwner
<1> QED
  BY <1>1, <1>3, <1>4

-----------------------------------------------------------------------------
(* Steps that delete cached routes nobody uses, and may allocate one.      *)

\* The channels keep their route when the routes they are on do not change.
LEMMA SameChannels ==
    ASSUME chan' = chan,
           \A c \in DOMAIN chan : route'[chan[c].route] = route[chan[c].route]
    PROVE  /\ \A s : OnServer(s)' = OnServer(s)
           /\ \A k : OnClient(k)' = OnClient(k)
           /\ \A r : ChansOn(r)' = ChansOn(r)
  BY DEF OnServer, OnClient, ChansOn, ServerOf, ClientOf

LEMMA EvictUnused ==
    ASSUME IInv,
           NEW S \in SUBSET Hosts,
           \A h \in S : cache[h] # None /\ route[cache[h]].num_slots = 0,
           cache' = CacheWithout(S),
           UNCHANGED <<counts, chan>>,
           NEW D, D = {cache[h] : h \in S},
           \A r \in DOMAIN route \ D : r \in DOMAIN route' /\ route'[r] = route[r],
           \A r \in DOMAIN route' : \/ r \in DOMAIN route \ D
                                    \/ /\ r \in Routes \ DOMAIN route
                                       /\ r = main'.route
                                       /\ route'[r] \in RouteRec
                                       /\ ~route'[r].cached
                                       /\ route'[r].num_slots = 0,
           main.route = None \/ route[main.route].cached,
           main'.route \in DOMAIN route => route[main'.route].cached
    PROVE  /\ cache' \in [Hosts -> Routes \cup {None}]
           /\ DOMAIN route' \subseteq Routes
           /\ \A r \in DOMAIN route' : route'[r] \in RouteRec
           /\ \A c \in DOMAIN chan' : chan'[c].route \in DOMAIN route'
           /\ \A h \in Hosts : cache'[h] # None => cache'[h] \in DOMAIN route'
           /\ SlotsExact'
           /\ OneOwner'
           /\ \A c \in DOMAIN chan' :
                route'[chan'[c].route].cached => cache'[chan'[c].host] = chan'[c].route
<1> USE DEF IInv
<1>1. /\ cache' \in [Hosts -> Routes \cup {None}]
      /\ DOMAIN route' \subseteq Routes
      /\ \A r \in DOMAIN route' : route'[r] \in RouteRec
  BY DEF TypeOK, CacheWithout
<1>2. \A c \in DOMAIN chan : /\ chan[c].route \in DOMAIN route \ D
                             /\ route'[chan[c].route] = route[chan[c].route]
  BY UsedRoute
<1>3. \A c \in DOMAIN chan' : chan'[c].route \in DOMAIN route'
  BY <1>2
<1>4. \A g \in Hosts, h \in S : cache[g] = cache[h] => g = h
  BY CacheEntry
<1>5. \A h \in Hosts : cache'[h] # None => cache[h] \in DOMAIN route \ D /\ cache'[h] = cache[h]
  BY <1>4 DEF CacheWithout, NoDangling
<1>6. \A h \in Hosts : cache'[h] # None => cache'[h] \in DOMAIN route'
  BY <1>5
<1>7. /\ \A s : OnServer(s)' = OnServer(s)
      /\ \A k : OnClient(k)' = OnClient(k)
      /\ \A r : ChansOn(r)' = ChansOn(r)
  BY <1>2, SameChannels
<1>8. \A r \in DOMAIN route' \ DOMAIN route : ChansOn(r) = {}
  BY <1>2 DEF ChansOn
<1>9. SlotsExact'
  BY <1>7, <1>8, FS_EmptySet, ZenonT(60) DEF SlotsExact, counts
<1>10. OneOwner'
  <2> SUFFICES ASSUME NEW r \in DOMAIN route'
               PROVE  LET entries == {h \in Hosts : cache'[h] = r} IN
                      IF route'[r].cached
                      THEN \E h \in Hosts : entries = {h}
                      ELSE /\ entries = {}
                           /\ IF main'.route = r THEN ChansOn(r)' = {}
                              ELSE \E c \in Chans : ChansOn(r)' = {c}
    BY DEF OneOwner
  <2>0. ChansOn(r)' = ChansOn(r)
    BY <1>7
  <2>1. CASE r \in DOMAIN route \ D
    <3>1. {h \in Hosts : cache'[h] = r} = {h \in Hosts : cache[h] = r}
      BY <2>1, <1>1 DEF CacheWithout, TypeOK
    <3>2. route'[r] = route[r] /\ r \in DOMAIN route
      BY <2>1
    <3>3. ~route[r].cached => main.route # r /\ main'.route # r
      BY <3>2 DEF TypeOK
    <3>4. CASE route[r].cached
      <4>1. PICK h \in Hosts : {g \in Hosts : cache[g] = r} = {h}
        BY <3>2, <3>4 DEF OneOwner
      <4> QED
        BY <3>1, <3>2, <3>4, <4>1
    <3>5. CASE ~route[r].cached
      <4>1. /\ {g \in Hosts : cache[g] = r} = {}
            /\ \E c \in Chans : ChansOn(r) = {c}
        BY <3>2, <3>3, <3>5 DEF OneOwner
      <4> QED
        BY <2>0, <3>1, <3>2, <3>3, <3>5, <4>1
    <3> QED
      BY <3>4, <3>5
  <2>2. CASE r \in Routes \ DOMAIN route
    <3>1. {h \in Hosts : cache'[h] = r} = {}
      BY <2>2, <1>5
    <3>2. main'.route = r /\ ~route'[r].cached /\ ChansOn(r) = {}
      BY <2>2, <1>8
    <3> QED
      BY <2>0, <3>1, <3>2
  <2> QED
    BY <2>1, <2>2
<1>11. \A c \in DOMAIN chan' :
          route'[chan'[c].route].cached => cache'[chan'[c].host] = chan'[c].route
  BY <1>2 DEF RouteOfHost, CacheWithout, TypeOK, ChanRec
<1> QED
  BY <1>1, <1>3, <1>6, <1>9, <1>10, <1>11

-----------------------------------------------------------------------------
(* Deleting a channel.                                                     *)

LEMMA ReleaseKeeps ==
    ASSUME IInv,
           NEW c \in DOMAIN chan, Release(c),
           cache' = cache, main.route = None, main'.route = None
    PROVE  /\ num_slots' \in [Servers -> Nat]
           /\ client_slots' \in [Clients -> Nat]
           /\ DOMAIN route' \subseteq DOMAIN route
           /\ \A r \in DOMAIN route' : route'[r] \in RouteRec
           /\ DOMAIN chan' = DOMAIN chan \ {c}
           /\ \A d \in DOMAIN chan' : chan'[d] = chan[d]
           /\ \A d \in DOMAIN chan' : chan'[d].route \in DOMAIN route'
           /\ \A h \in Hosts : cache'[h] # None => cache'[h] \in DOMAIN route'
           /\ SlotsExact'
           /\ OneOwner'
           /\ \A d \in DOMAIN chan' :
                route'[chan'[d].route].cached => cache'[chan'[d].host] = chan'[d].route
<1> USE DEF IInv
<1> DEFINE r == chan[c].route
           s0 == ServerOf(c)
           k0 == ClientOf(c)
<1>1. /\ r \in DOMAIN route /\ r \in Routes /\ r # None
      /\ route[r].num_slots \in Nat /\ route[r].num_slots > 0
      /\ s0 = route[r].server /\ s0 \in Servers
      /\ k0 = route[r].client /\ k0 \in Clients
  BY UsedRoute DEF TypeOK, RouteRec, ServerOf, ClientOf
<1>2. /\ DOMAIN chan' = DOMAIN chan \ {c}
      /\ \A d \in DOMAIN chan' : chan'[d] = chan[d]
  BY DEF Release, Without, Restrict
<1>3. /\ IsFiniteSet(OnServer(s0)) /\ c \in OnServer(s0)
      /\ IsFiniteSet(OnClient(k0)) /\ c \in OnClient(k0)
      /\ IsFiniteSet(ChansOn(r)) /\ c \in ChansOn(r)
  BY <1>1, CountsFinite DEF OnServer, OnClient, ChansOn
<1>4. /\ num_slots[s0] \in Nat /\ num_slots[s0] > 0
      /\ num_slots[s0] - 1 = Cardinality(OnServer(s0) \ {c})
  <2>1. num_slots[s0] = Cardinality(OnServer(s0))
    BY <1>1 DEF SlotsExact
  <2> HIDE DEF s0
  <2> QED
    BY <1>3, <2>1, CountRemove
<1>5. /\ client_slots[k0] \in Nat /\ client_slots[k0] > 0
      /\ client_slots[k0] - 1 = Cardinality(OnClient(k0) \ {c})
  <2>1. client_slots[k0] = Cardinality(OnClient(k0))
    BY <1>1 DEF SlotsExact
  <2> HIDE DEF k0
  <2> QED
    BY <1>3, <2>1, CountRemove
<1>6. route[r].num_slots - 1 = Cardinality(ChansOn(r) \ {c})
  BY <1>1, <1>3, CountRemove DEF SlotsExact
<1>7. num_slots' = [num_slots EXCEPT ![s0] = num_slots[s0] - 1]
  BY <1>4 DEF Release, Dec
<1>8. client_slots' = [client_slots EXCEPT ![k0] = client_slots[k0] - 1]
  BY <1>5 DEF Release, Dec
<1>9. /\ num_slots' \in [Servers -> Nat]
      /\ client_slots' \in [Clients -> Nat]
  <2>1. num_slots[s0] - 1 \in Nat /\ client_slots[k0] - 1 \in Nat
    BY <1>4, <1>5
  <2> QED
    BY <2>1, <1>7, <1>8 DEF TypeOK
\* The route is released when it is cached, and deleted with its only channel
\* when it is not.
<1>10. \A d \in DOMAIN chan \ {c} :
          /\ chan[d].route \in DOMAIN route'
          /\ route'[chan[d].route].server = route[chan[d].route].server
          /\ route'[chan[d].route].client = route[chan[d].route].client
          /\ route'[chan[d].route].cached = route[chan[d].route].cached
  <2> TAKE d \in DOMAIN chan \ {c}
  <2>1. chan[d].route \in DOMAIN route /\ route[chan[d].route] \in RouteRec
    BY DEF NoDangling, TypeOK
  <2>2. CASE route[r].cached
    <3>1. route' = [route EXCEPT ![r].num_slots = Dec(@), ![r].idle = 0]
      BY <2>2 DEF Release
    <3> QED
      BY <2>1, <3>1 DEF RouteRec
  <2>3. CASE ~route[r].cached
    <3>1. PICK e \in Chans : ChansOn(r) = {e}
      BY <2>3, <1>1 DEF OneOwner
    <3>2. chan[d].route # r
      BY <3>1, <1>3 DEF ChansOn
    <3>3. route' = Without(route, {r})
      BY <2>3 DEF Release
    <3> QED
      BY <2>1, <3>2, <3>3 DEF Without, Restrict
  <2> QED
    BY <2>2, <2>3
<1>11. /\ \A s : OnServer(s)' = IF s = s0 THEN OnServer(s) \ {c} ELSE OnServer(s)
       /\ \A k : OnClient(k)' = IF k = k0 THEN OnClient(k) \ {c} ELSE OnClient(k)
  BY <1>2, <1>10 DEF OnServer, OnClient, ServerOf, ClientOf
<1>12. \A x : ChansOn(x)' = IF x = r THEN ChansOn(x) \ {c} ELSE ChansOn(x)
  BY <1>2 DEF ChansOn
<1>13. \A x \in DOMAIN route' :
          /\ x \in DOMAIN route
          /\ x # r => route'[x] = route[x]
          /\ x = r => /\ route[r].cached
                      /\ route'[x] = [route[r] EXCEPT !.num_slots = @ - 1, !.idle = 0]
  <2>1. CASE route[r].cached
    <3>1. route' = [route EXCEPT ![r].num_slots = Dec(@), ![r].idle = 0]
      BY <2>1 DEF Release
    <3>2. Dec(route[r].num_slots) = route[r].num_slots - 1
      BY <1>1 DEF Dec
    <3> QED
      BY <1>1, <2>1, <3>1, <3>2 DEF TypeOK, RouteRec
  <2>2. CASE ~route[r].cached
    <3>1. route' = Without(route, {r})
      BY <2>2 DEF Release
    <3> QED
      BY <3>1 DEF Without, Restrict
  <2> QED
    BY <2>1, <2>2
<1>14. \A x \in DOMAIN route : x # r \/ route[r].cached => x \in DOMAIN route'
  BY <1>1 DEF Release, Without, Restrict
<1>15. SlotsExact'
  <2>1. ASSUME NEW s \in Servers PROVE num_slots'[s] = Cardinality(OnServer(s)')
    BY <1>1, <1>4, <1>7, <1>11 DEF TypeOK, SlotsExact
  <2>2. ASSUME NEW k \in Clients PROVE client_slots'[k] = Cardinality(OnClient(k)')
    BY <1>1, <1>5, <1>8, <1>11 DEF TypeOK, SlotsExact
  <2>3. ASSUME NEW x \in DOMAIN route' PROVE route'[x].num_slots = Cardinality(ChansOn(x)')
    <3>1. CASE x = r
      <4>1. route[r] \in RouteRec
        BY <1>1 DEF TypeOK
      <4>2. route'[x].num_slots = route[r].num_slots - 1
        BY <3>1, <4>1, <1>13, ZenonT(60) DEF RouteRec
      <4> QED
        BY <3>1, <4>2, <1>6, <1>12
    <3>2. CASE x # r
      BY <3>2, <1>12, <1>13 DEF SlotsExact
    <3> QED
      BY <3>1, <3>2
  <2> QED
    BY <2>1, <2>2, <2>3 DEF SlotsExact
<1>16. \A h \in Hosts : cache'[h] # None => cache'[h] \in DOMAIN route'
  <2> SUFFICES ASSUME NEW h \in Hosts, cache[h] # None
               PROVE  cache[h] \in DOMAIN route'
    OBVIOUS
  <2>1. cache[h] \in DOMAIN route
    BY DEF NoDangling
  <2>2. cache[h] = r => route[r].cached
    BY <2>1 DEF OneOwner
  <2> QED
    BY <2>1, <2>2, <1>14
<1>17. OneOwner'
  <2> SUFFICES ASSUME NEW x \in DOMAIN route'
               PROVE  LET entries == {h \in Hosts : cache'[h] = x} IN
                      IF route'[x].cached
                      THEN \E h \in Hosts : entries = {h}
                      ELSE /\ entries = {}
                           /\ IF main'.route = x THEN ChansOn(x)' = {}
                              ELSE \E d \in Chans : ChansOn(x)' = {d}
    BY DEF OneOwner
  <2>1. x \in DOMAIN route /\ route'[x].cached = route[x].cached
    BY <1>13, <1>1, ZenonT(60) DEF TypeOK, RouteRec
  <2>2. CASE route[x].cached
    BY <2>1, <2>2 DEF OneOwner
  <2>3. CASE ~route[x].cached
    <3>1. x # r /\ x # None
      BY <2>1, <2>3, <1>13 DEF TypeOK
    <3>2. /\ {h \in Hosts : cache[h] = x} = {}
          /\ \E d \in Chans : ChansOn(x) = {d}
      BY <2>1, <2>3, <3>1 DEF OneOwner
    <3>3. ChansOn(x)' = ChansOn(x)
      BY <3>1, <1>12
    <3> QED
      BY <2>1, <2>3, <3>1, <3>2, <3>3
  <2> QED
    BY <2>2, <2>3
<1>18. \A d \in DOMAIN chan' :
          route'[chan'[d].route].cached => cache'[chan'[d].host] = chan'[d].route
  <2> TAKE d \in DOMAIN chan'
  <2>1. d \in DOMAIN chan \ {c} /\ chan'[d] = chan[d]
    BY <1>2
  <2>2. route[chan[d].route].cached => cache[chan[d].host] = chan[d].route
    BY <2>1 DEF RouteOfHost
  <2> QED
    BY <2>1, <2>2, <1>10
<1>19. /\ DOMAIN route' \subseteq DOMAIN route
       /\ \A x \in DOMAIN route' : route'[x] \in RouteRec
  <2>1. route[r] \in RouteRec
    BY <1>1 DEF TypeOK
  <2>2. [route[r] EXCEPT !.num_slots = @ - 1, !.idle = 0] \in RouteRec
    <3>1. /\ route[r].num_slots - 1 \in Nat
          /\ 0 \in 0 .. CacheTimeout + 1
      BY <1>1
    <3> HIDE DEF r
    <3> QED
      BY <2>1, <3>1 DEF RouteRec
  <2>3. ASSUME NEW x \in DOMAIN route' PROVE x \in DOMAIN route /\ route'[x] \in RouteRec
    <3>1. CASE x = r
      BY <3>1, <2>2, <1>13
    <3>2. CASE x # r
      BY <3>2, <1>13 DEF TypeOK
    <3> QED
      BY <3>1, <3>2
  <2> QED
    BY <2>3
<1>20. \A d \in DOMAIN chan' : chan'[d].route \in DOMAIN route'
  BY <1>2, <1>10
<1> QED
  BY <1>2, <1>9, <1>15, <1>16, <1>17, <1>18, <1>19, <1>20

-----------------------------------------------------------------------------
(* Creating a channel.                                                     *)

\* What main becomes when nrdpx_channel_create returns.
LEMMA ReturnOK ==
    ASSUME IInv, main.at \in {"route", "connect"}, main' = Return
    PROVE  /\ main' \in MainRec
           /\ main'.route = None
           /\ main'.failed = main.failed
           /\ main'.at # "connect"
           /\ (chan' = chan => PhaseOK')
           /\ main'.failed # None => main'.failed \in DOMAIN chan /\ main'.at = "drop"
           /\ main'.failed = None => main' = Idle
  BY DEF IInv, TypeOK, NoDangling, PhaseOK, Return, Idle, MainRec

LEMMA ConnectStartedKeeps ==
    ASSUME IInv, ConnectStarted
    PROVE  IInv'
<1> USE DEF IInv
<1> DEFINE r == main.route
           h0 == main.host
           s0 == route[r].server
           k0 == route[r].client
           add == ~route[r].cached /\ Cacheable
<1>1. PICK c \in Chans \ DOMAIN chan :
         chan' = With(chan, c, [host |-> h0, route |-> r, connected |-> FALSE])
  BY DEF ConnectStarted
<1>2. /\ main.at = "connect" /\ r # None /\ h0 # None
      /\ r \in DOMAIN route /\ r \in Routes /\ h0 \in Hosts
      /\ route[r] \in RouteRec
  BY DEF ConnectStarted, PhaseOK, TypeOK, MainRec, NoDangling
<1>3. /\ s0 \in Servers /\ k0 \in Clients /\ route[r].num_slots \in Nat
      /\ s0 = route[r].server /\ k0 = route[r].client
  <2> HIDE DEF r
  <2> QED
    BY <1>2 DEF RouteRec
<1>4. /\ DOMAIN chan' = DOMAIN chan \cup {c}
      /\ chan'[c] = [host |-> h0, route |-> r, connected |-> FALSE]
      /\ \A d \in DOMAIN chan : d # c /\ chan'[d] = chan[d]
  BY <1>1 DEF With
<1>5. /\ main' \in MainRec
      /\ main'.route = None
      /\ main'.failed = main.failed
      /\ main'.at # "connect"
      /\ main'.failed # None => main'.failed \in DOMAIN chan /\ main'.at = "drop"
      /\ main'.failed = None => main' = Idle
  BY <1>2, ReturnOK DEF ConnectStarted
<1>6. /\ DOMAIN route' = DOMAIN route
      /\ \A x \in DOMAIN route : x # r => route'[x] = route[x]
      /\ route'[r] = [route[r] EXCEPT !.num_slots = @ + 1, !.idle = 0, !.cached = @ \/ add]
  BY <1>2 DEF ConnectStarted
<1>7. /\ route'[r] \in RouteRec
      /\ route'[r].server = s0 /\ route'[r].client = k0
      /\ route'[r].num_slots = route[r].num_slots + 1
      /\ route'[r].cached = (route[r].cached \/ add)
  <2>1. route[r].num_slots + 1 \in Nat /\ 0 \in 0 .. CacheTimeout + 1 /\ add \in BOOLEAN
    BY <1>3 DEF Cacheable, CacheOn
  <2> HIDE DEF r, add
  <2> QED
    BY <1>2, <1>6, <2>1 DEF RouteRec
<1>8. cache' = IF add THEN [cache EXCEPT ![h0] = r] ELSE cache
  BY <1>2 DEF ConnectStarted, TypeOK
<1>9. add => cache[h0] = None /\ ~route[r].cached
  BY DEF Cacheable
<1> HIDE DEF add
<1>10. \A d \in DOMAIN chan :
          /\ chan[d].route \in DOMAIN route
          /\ route'[chan[d].route].server = route[chan[d].route].server
          /\ route'[chan[d].route].client = route[chan[d].route].client
  BY <1>3, <1>6, <1>7 DEF NoDangling
<1>11. /\ \A s : OnServer(s)' = IF s = s0 THEN OnServer(s) \cup {c} ELSE OnServer(s)
       /\ \A k : OnClient(k)' = IF k = k0 THEN OnClient(k) \cup {c} ELSE OnClient(k)
       /\ \A x : ChansOn(x)' = IF x = r THEN ChansOn(x) \cup {c} ELSE ChansOn(x)
  BY <1>3, <1>4, <1>7, <1>10 DEF OnServer, OnClient, ChansOn, ServerOf, ClientOf
<1>12. /\ \A s : c \notin OnServer(s)
       /\ \A k : c \notin OnClient(k)
       /\ \A x : c \notin ChansOn(x)
  BY <1>1 DEF OnServer, OnClient, ChansOn
<1>13. TypeOK'
  <2>1. /\ num_slots' \in [Servers -> Nat]
        /\ client_slots' \in [Clients -> Nat]
    <3>1. /\ num_slots' = [num_slots EXCEPT ![s0] = @ + 1]
          /\ client_slots' = [client_slots EXCEPT ![k0] = @ + 1]
      BY DEF ConnectStarted
    <3> HIDE DEF s0, k0
    <3>2. num_slots[s0] + 1 \in Nat /\ client_slots[k0] + 1 \in Nat
      <4>1. num_slots[s0] \in Nat
        BY <1>3 DEF TypeOK
      <4>2. client_slots[k0] \in Nat
        BY <1>3 DEF TypeOK
      <4> QED
        BY <4>1, <4>2
    <3>3. num_slots' \in [Servers -> Nat]
      BY <3>1, <3>2 DEF TypeOK
    <3>4. client_slots' \in [Clients -> Nat]
      BY <3>1, <3>2 DEF TypeOK
    <3> QED
      BY <3>3, <3>4
  <2>2. cache' \in [Hosts -> Routes \cup {None}]
    BY <1>2, <1>8 DEF TypeOK
  <2>3. /\ DOMAIN route' \subseteq Routes
        /\ \A x \in DOMAIN route' : route'[x] \in RouteRec
    BY <1>6, <1>7 DEF TypeOK
  <2>4. /\ DOMAIN chan' \subseteq Chans
        /\ \A d \in DOMAIN chan' : chan'[d] \in ChanRec
    <3>1. [host |-> h0, route |-> r, connected |-> FALSE] \in ChanRec
      BY <1>2 DEF ChanRec
    <3> HIDE DEF h0, r
    <3> QED
      BY <1>1, <1>4, <3>1 DEF TypeOK
  <2> QED
    BY <2>1, <2>2, <2>3, <2>4, <1>5 DEF TypeOK, ConnectStarted, status
<1>14. NoDangling'
  BY <1>2, <1>4, <1>5, <1>6, <1>8 DEF NoDangling, TypeOK
<1>15. SlotsExact'
  <2>1. ASSUME NEW s \in Servers PROVE num_slots'[s] = Cardinality(OnServer(s)')
    <3>1. IsFiniteSet(OnServer(s)) /\ num_slots[s] = Cardinality(OnServer(s))
      BY CountsFinite DEF SlotsExact
    <3>2. num_slots'[s] = IF s = s0 THEN num_slots[s] + 1 ELSE num_slots[s]
      BY <1>3 DEF ConnectStarted, TypeOK
    <3> QED
      BY <3>1, <3>2, <1>11, <1>12, CountAdd
  <2>2. ASSUME NEW k \in Clients PROVE client_slots'[k] = Cardinality(OnClient(k)')
    <3>1. IsFiniteSet(OnClient(k)) /\ client_slots[k] = Cardinality(OnClient(k))
      BY CountsFinite DEF SlotsExact
    <3>2. client_slots'[k] = IF k = k0 THEN client_slots[k] + 1 ELSE client_slots[k]
      BY <1>3 DEF ConnectStarted, TypeOK
    <3> QED
      BY <3>1, <3>2, <1>11, <1>12, CountAdd
  <2>3. ASSUME NEW x \in DOMAIN route' PROVE route'[x].num_slots = Cardinality(ChansOn(x)')
    <3>1. IsFiniteSet(ChansOn(x)) /\ route[x].num_slots = Cardinality(ChansOn(x))
      BY <1>6, CountsFinite DEF SlotsExact, TypeOK
    <3>2. route'[x].num_slots = IF x = r THEN route[x].num_slots + 1 ELSE route[x].num_slots
      BY <1>6, <1>7
    <3> QED
      BY <3>1, <3>2, <1>11, <1>12, CountAdd
  <2> QED
    BY <2>1, <2>2, <2>3 DEF SlotsExact
<1>16. OneOwner'
  <2> SUFFICES ASSUME NEW x \in DOMAIN route'
               PROVE  LET entries == {h \in Hosts : cache'[h] = x} IN
                      IF route'[x].cached
                      THEN \E h \in Hosts : entries = {h}
                      ELSE /\ entries = {}
                           /\ IF main'.route = x THEN ChansOn(x)' = {}
                              ELSE \E d \in Chans : ChansOn(x)' = {d}
    BY DEF OneOwner
  <2>1. x \in DOMAIN route /\ x # None
    BY <1>6 DEF TypeOK
  <2>2. CASE x # r
    <3>1. {h \in Hosts : cache'[h] = x} = {h \in Hosts : cache[h] = x}
      BY <2>1, <2>2, <1>2, <1>8, <1>9 DEF TypeOK
    <3>2. route'[x] = route[x] /\ ChansOn(x)' = ChansOn(x)
      BY <2>1, <2>2, <1>6, <1>11
    <3>3. CASE route[x].cached
      BY <2>1, <3>1, <3>2, <3>3 DEF OneOwner
    <3>4. CASE ~route[x].cached
      <4>1. /\ {h \in Hosts : cache[h] = x} = {}
            /\ \E d \in Chans : ChansOn(x) = {d}
        BY <2>1, <2>2, <3>4 DEF OneOwner
      <4> QED
        BY <2>1, <3>1, <3>2, <3>4, <4>1, <1>5
    <3> QED
      BY <3>3, <3>4
  <2>3. CASE x = r /\ route[r].cached
    <3>1. cache' = cache /\ route'[x].cached
      BY <2>3, <1>7, <1>8, <1>9
    <3> QED
      BY <2>1, <2>3, <3>1 DEF OneOwner
  <2>4. CASE x = r /\ ~route[r].cached
    <3>1. {h \in Hosts : cache[h] = r} = {} /\ ChansOn(r) = {}
      BY <2>1, <2>4 DEF OneOwner
    <3>2. CASE add
      <4>1. {h \in Hosts : cache'[h] = r} = {h0} /\ route'[r].cached
        <5>1. \A h \in Hosts : cache'[h] = IF h = h0 THEN r ELSE cache[h]
          BY <3>2, <1>2, <1>8 DEF TypeOK
        <5>2. \A h \in Hosts : cache[h] # r
          BY <3>1
        <5> HIDE DEF r, h0
        <5>3. {h \in Hosts : cache'[h] = r} = {h0}
          BY <5>1, <5>2, <1>2
        <5>4. route'[r].cached
          BY <3>2, <1>7
        <5> QED
          BY <5>3, <5>4
      <4> QED
        BY <2>4, <4>1, <1>2
    <3>3. CASE ~add
      <4>1. cache' = cache
        BY <3>3, <1>8
      <4>2. ~route'[x].cached
        BY <2>4, <3>3, <1>7
      <4>3. ChansOn(x)' = {c}
        BY <2>4, <3>1, <1>11
      <4>4. main'.route # x /\ c \in Chans
        BY <2>1, <1>1, <1>5
      <4>5. {h \in Hosts : cache[h] = x} = {}
        BY <2>4, <3>1
      <4> QED
        BY <4>1, <4>2, <4>3, <4>4, <4>5
    <3> QED
      BY <3>2, <3>3
  <2> QED
    BY <2>2, <2>3, <2>4
<1>17. RouteOfHost'
  <2> SUFFICES ASSUME NEW d \in DOMAIN chan', route'[chan'[d].route].cached
               PROVE  cache'[chan'[d].host] = chan'[d].route
    BY <1>5 DEF RouteOfHost
  <2>1. CASE d = c
    <3>1. chan'[d].host = h0 /\ chan'[d].route = r
      BY <2>1, <1>4
    <3>2. CASE add
      BY <3>1, <3>2, <1>2, <1>8 DEF TypeOK
    <3>3. CASE ~add
      <4>1. route[r].cached
        BY <3>1, <3>3, <1>7
      <4> QED
        BY <3>1, <3>3, <4>1, <1>2, <1>8 DEF RouteOfHost
    <3> QED
      BY <3>2, <3>3
  <2>2. CASE d # c
    <3>1. d \in DOMAIN chan /\ chan'[d] = chan[d] /\ chan[d].route \in DOMAIN route
      BY <2>2, <1>4, <1>10
    <3>2. route[chan[d].route].cached
      <4>1. CASE chan[d].route # r
        BY <3>1, <4>1, <1>6
      <4>2. CASE chan[d].route = r
        <5>1. ChansOn(r) # {}
          BY <3>1, <4>2 DEF ChansOn
        <5> QED
          BY <4>2, <5>1, <1>2 DEF OneOwner
      <4> QED
        BY <4>1, <4>2
    <3>3. /\ cache[chan[d].host] = chan[d].route
          /\ chan[d].route # None
      BY <3>1, <3>2 DEF RouteOfHost, TypeOK
    <3> QED
      BY <3>1, <3>3, <1>2, <1>8, <1>9 DEF TypeOK
  <2> QED
    BY <2>1, <2>2
<1>18. PhaseOK'
  BY <1>4, <1>5 DEF PhaseOK, Idle, ConnectStarted, Return, TypeOK, MainRec, NoDangling
<1> QED
  BY <1>13, <1>14, <1>15, <1>16, <1>17, <1>18

-----------------------------------------------------------------------------
(* The cache lookup.                                                       *)

\* The lookup only deletes routes nobody uses, and not the one it returns.
LEMMA LookupKeeps ==
    ASSUME IInv, main.at = "route"
    PROVE  /\ Gone \in SUBSET Hosts
           /\ \A h \in Gone : cache[h] # None /\ route[cache[h]].num_slots = 0
           /\ Found # None => /\ Found = cache[main.host]
                              /\ Found \in DOMAIN route
                              /\ route[Found].cached
                              /\ Refused \/ Found \notin {cache[h] : h \in Gone}
<1>1. main.host \in Hosts
  BY DEF IInv, PhaseOK, TypeOK, MainRec
<1>2. Gone \in SUBSET Hosts
  BY <1>1 DEF Gone, Evicted
<1>3. Found # None => Found = cache[main.host] /\ main.host \notin Evicted
  BY DEF Found
<1>4. \A h \in Gone : cache[h] # None /\ route[cache[h]].num_slots = 0
  BY <1>3 DEF Gone, Evicted, Expired, Refused
<1>5. ASSUME Found # None
      PROVE  /\ Found \in DOMAIN route
             /\ route[Found].cached
             /\ Refused \/ Found \notin {cache[h] : h \in Gone}
  <2>1. Found \in DOMAIN route /\ route[Found].cached
    BY <1>1, <1>3, <1>5, CacheEntry
  <2>2. ASSUME NEW h \in Gone, cache[h] = Found PROVE Refused
    <3>1. h = main.host
      BY <1>1, <1>2, <1>3, <1>5, <2>2, CacheEntry
    <3> QED
      BY <1>3, <1>5, <2>2, <3>1 DEF Gone
  <2> QED
    BY <2>1, <2>2
<1> QED
  BY <1>2, <1>3, <1>4, <1>5

\* A step that does the lookup and returns without a route, with the cached one
\* or with a new one.
LEMMA LookupStep ==
    ASSUME IInv, main.at = "route",
           cache' = CacheWithout(Gone), sweep' = NextSweep,
           UNCHANGED <<status, counts, chan>>,
           NEW D, D = {cache[h] : h \in Gone},
           \A r \in DOMAIN route \ D : r \in DOMAIN route' /\ route'[r] = route[r],
           \A r \in DOMAIN route' : \/ r \in DOMAIN route \ D
                                    \/ /\ r \in Routes \ DOMAIN route
                                       /\ r = main'.route
                                       /\ route'[r] \in RouteRec
                                       /\ ~route'[r].cached
                                       /\ route'[r].num_slots = 0,
           main'.route \in DOMAIN route => route[main'.route].cached,
           main'.route # None => main'.route \in DOMAIN route',
           main'.failed = main.failed,
           main' \in MainRec,
           main'.at = "connect" /\ route'[main'.route].cached =>
              cache'[main'.host] = main'.route,
           PhaseOK'
    PROVE  IInv'
<1>1. main.route = None
  BY DEF IInv, PhaseOK
<1>2. /\ cache' \in [Hosts -> Routes \cup {None}]
      /\ DOMAIN route' \subseteq Routes
      /\ \A r \in DOMAIN route' : route'[r] \in RouteRec
      /\ \A c \in DOMAIN chan' : chan'[c].route \in DOMAIN route'
      /\ \A h \in Hosts : cache'[h] # None => cache'[h] \in DOMAIN route'
      /\ SlotsExact'
      /\ OneOwner'
      /\ \A c \in DOMAIN chan' :
            route'[chan'[c].route].cached => cache'[chan'[c].host] = chan'[c].route
  <2>1. PICK S \in SUBSET Hosts : S = Gone
    BY LookupKeeps
  <2>2. \A h \in S : cache[h] # None /\ route[cache[h]].num_slots = 0
    BY <2>1, LookupKeeps
  <2>3. cache' = CacheWithout(S) /\ D = {cache[h] : h \in S}
    BY <2>1
  <2>4. UNCHANGED <<counts, chan>>
    OBVIOUS
  <2>5. main.route = None \/ route[main.route].cached
    BY <1>1
  <2> QED
    BY <2>2, <2>3, <2>4, <2>5, EvictUnused
<1>3. TypeOK'
  <2>1. sweep' \in 0 .. Never
    BY DEF IInv, TypeOK, NextSweep, Never
  <2> QED
    BY <1>2, <2>1 DEF IInv, TypeOK, status, counts
<1>4. NoDangling'
  BY <1>2 DEF IInv, NoDangling
<1>5. RouteOfHost'
  BY <1>2 DEF RouteOfHost
<1> QED
  BY <1>2, <1>3, <1>4, <1>5 DEF IInv

LEMMA HeapAfterLookup ==
    ASSUME NEW D, D = {cache[h] : h \in Gone}
    PROVE  /\ DOMAIN HeapWithout(Gone) = DOMAIN route \ D
           /\ \A r \in DOMAIN route \ D : HeapWithout(Gone)[r] = route[r]
  BY DEF HeapWithout, Without, Restrict

LEMMA RouteCachedKeeps ==
    ASSUME IInv, RouteCached
    PROVE  IInv'
<1> DEFINE D == {cache[h] : h \in Gone}
<1>1. /\ main.at = "route" /\ Found # None /\ ~Refused
      /\ cache' = CacheWithout(Gone) /\ route' = HeapWithout(Gone) /\ sweep' = NextSweep
      /\ main' = [main EXCEPT !.at = "connect", !.route = Found]
      /\ UNCHANGED <<status, counts, chan>>
  BY DEF RouteCached
<1>2. /\ Found = cache[main.host] /\ Found \in DOMAIN route \ D
      /\ route[Found].cached
  BY <1>1, LookupKeeps
<1>3. /\ main.host \in Hosts /\ main.host # None
      /\ Found \in Routes
      /\ main \in MainRec
      /\ main.failed # None => ~chan[main.failed].connected
  BY <1>1, <1>2 DEF IInv, PhaseOK, TypeOK, MainRec
<1>4. /\ main' \in MainRec /\ main'.at = "connect" /\ main'.route = Found
      /\ main'.host = main.host /\ main'.failed = main.failed
  BY <1>1, <1>3 DEF MainRec
<1>5. cache'[main.host] = Found
  <2>1. main.host \notin Gone
    BY <1>2
  <2> QED
    BY <1>1, <1>2, <1>3, <2>1 DEF CacheWithout
<1>6. PhaseOK'
  BY <1>1, <1>3, <1>4 DEF PhaseOK, Idle
<1>7. /\ DOMAIN route' = DOMAIN route \ D
      /\ \A r \in DOMAIN route \ D : route'[r] = route[r]
  BY <1>1, HeapAfterLookup
<1> HIDE DEF D
<1> QED
  BY <1>1, <1>2, <1>4, <1>5, <1>6, <1>7, LookupStep DEF D

LEMMA RouteNoneKeeps ==
    ASSUME IInv, NEW busy \in SUBSET Servers, RouteNone(busy)
    PROVE  IInv'
<1> DEFINE D == {cache[h] : h \in Gone}
<1>1. /\ main.at = "route"
      /\ cache' = CacheWithout(Gone) /\ route' = HeapWithout(Gone) /\ sweep' = NextSweep
      /\ main' = Return
      /\ UNCHANGED <<status, counts, chan>>
  BY DEF RouteNone
<1>2. /\ main' \in MainRec /\ main'.route = None
      /\ main'.failed = main.failed /\ main'.at # "connect" /\ PhaseOK'
  BY <1>1, ReturnOK
<1>3. None \notin DOMAIN route
  BY DEF IInv, TypeOK
<1>4. /\ DOMAIN route' = DOMAIN route \ D
      /\ \A r \in DOMAIN route \ D : route'[r] = route[r]
  BY <1>1, HeapAfterLookup
<1> HIDE DEF D
<1> QED
  BY <1>1, <1>2, <1>3, <1>4, LookupStep DEF D
\* A set of naturals has its minimum, so that the first balancer and the first
\* client group exist.
LEMMA MinInSet ==
    ASSUME NEW S \in SUBSET Nat, S # {}
    PROVE  Min(S) \in S
<1>1. \E x \in S : \A y \in S : ~(<<y, x>> \in OpToRel(<, Nat))
  BY NatLessThanWellFounded, WFMin
<1>2. \E x \in S : \A y \in S : x =< y
  <2>1. PICK x \in S : \A y \in S : ~(<<y, x>> \in OpToRel(<, Nat))
    BY <1>1
  <2>2. \A y \in S : ~(y < x)
    BY <2>1 DEF OpToRel
  <2> QED
    BY <2>2
<1> QED
  BY <1>2 DEF Min

LEMMA SeqElement ==
    ASSUME NEW X, NEW q \in Seq(X), NEW i \in DOMAIN q
    PROVE  q[i] \in X
  OBVIOUS

LEMMA RouteFreshKeeps ==
    ASSUME IInv, NEW busy \in SUBSET Servers, RouteFresh(busy)
    PROVE  IInv'
<1> DEFINE D == {cache[h] : h \in Gone}
           b == Balancers[Min(Usable(busy))]
           k == b.clients[Min(Admitting(b))]
<1>1. /\ main.at = "route" /\ Usable(busy) # {}
      /\ cache' = CacheWithout(Gone) /\ sweep' = NextSweep
      /\ UNCHANGED <<status, counts, chan>>
  BY DEF RouteFresh
<1>2. PICK r \in Routes \ DOMAIN route, s \in Preferred(Candidates(b, busy)) :
         /\ route' = With(HeapWithout(Gone), r,
                          [client |-> k, server |-> s, cached |-> FALSE,
                           num_slots |-> 0, idle |-> 0])
         /\ main' = [main EXCEPT !.at = "connect", !.route = r]
  BY DEF RouteFresh
<1>3. Min(Usable(busy)) \in DOMAIN Balancers /\ Admitting(b) # {}
  <2>1. DOMAIN Balancers \subseteq Nat
    BY BalancersAssumption
  <2>2. Usable(busy) \in SUBSET Nat
    BY <2>1 DEF Usable
  <2>3. Min(Usable(busy)) \in Usable(busy)
    BY <1>1, <2>2, MinInSet
  <2> QED
    BY <2>3 DEF Usable
<1>4. b \in BalancerRec
  BY <1>3, BalancersAssumption, SeqElement
<1>5. s \in Servers
  BY <1>2, <1>4 DEF Preferred, Candidates, BalancerRec
<1>6. k \in Clients
  <2> HIDE DEF b
  <2>0. Admitting(b) # {}
    BY <1>3
  <2>1. b.clients \in Seq(Clients)
    BY <1>4 DEF BalancerRec
  <2>2. DOMAIN b.clients \subseteq Nat
    BY <2>1
  <2>3. Min(Admitting(b)) \in DOMAIN b.clients
    <3>1. Admitting(b) \subseteq DOMAIN b.clients
      BY DEF Admitting
    <3>2. Min(Admitting(b)) \in Admitting(b)
      BY <2>0, <2>2, <3>1, MinInSet
    <3> QED
      BY <3>1, <3>2
  <2> QED
    BY <2>1, <2>3
<1> HIDE DEF b, k
<1>7. [client |-> k, server |-> s, cached |-> FALSE, num_slots |-> 0, idle |-> 0] \in RouteRec
  BY <1>5, <1>6 DEF RouteRec
<1>8. /\ DOMAIN route' = (DOMAIN route \ D) \cup {r}
      /\ \A x \in DOMAIN route \ D : route'[x] = route[x]
      /\ route'[r] \in RouteRec /\ ~route'[r].cached /\ route'[r].num_slots = 0
  BY <1>2, <1>7, HeapAfterLookup DEF With
<1>9. /\ main \in MainRec /\ r # None /\ main.host # None
      /\ main.failed # None => ~chan[main.failed].connected
  BY <1>1, <1>2 DEF IInv, TypeOK, PhaseOK
<1>10. /\ main' \in MainRec /\ main'.at = "connect" /\ main'.route = r
       /\ main'.host = main.host /\ main'.failed = main.failed
  BY <1>2, <1>9 DEF MainRec
<1>11. PhaseOK'
  BY <1>1, <1>9, <1>10 DEF PhaseOK, Idle
<1>12. PICK G : G = D
  OBVIOUS
<1> HIDE DEF D
<1>13. G = {cache[h] : h \in Gone}
  BY <1>12 DEF D
<1>14. /\ r \in Routes \ DOMAIN route /\ DOMAIN route' = (DOMAIN route \ G) \cup {r}
       /\ \A x \in DOMAIN route \ G : x \in DOMAIN route' /\ route'[x] = route[x]
  BY <1>2, <1>8, <1>12
<1>15. \A x \in DOMAIN route' : \/ x \in DOMAIN route \ G
                               \/ /\ x \in Routes \ DOMAIN route
                                  /\ x = main'.route
                                  /\ route'[x] \in RouteRec
                                  /\ ~route'[x].cached
                                  /\ route'[x].num_slots = 0
  BY <1>8, <1>10, <1>14
<1>16. /\ main'.route \in DOMAIN route => route[main'.route].cached
       /\ main'.route # None => main'.route \in DOMAIN route'
       /\ main'.at = "connect" /\ route'[main'.route].cached => cache'[main'.host] = main'.route
  BY <1>8, <1>10, <1>14
<1> QED
  BY <1>1, <1>10, <1>11, <1>13, <1>14, <1>15, <1>16, LookupStep

-----------------------------------------------------------------------------
(* The other steps.                                                        *)

\* A step that leaves the objects and their counters alone.
LEMMA NoObjectStep ==
    ASSUME IInv, UNCHANGED <<counts, objects>>, main'.route = main.route,
           main'.at = "connect" => main.at = "connect" /\ main'.host = main.host,
           main'.failed # None => main'.failed \in DOMAIN chan,
           TypeOK', PhaseOK'
    PROVE  IInv'
<1>1. /\ \A s : OnServer(s)' = OnServer(s)
      /\ \A k : OnClient(k)' = OnClient(k)
      /\ \A r : ChansOn(r)' = ChansOn(r)
  BY SameChannels DEF objects
<1>2. NoDangling'
  BY DEF IInv, NoDangling, objects
<1>3. SlotsExact'
  BY <1>1 DEF IInv, SlotsExact, objects, counts
<1>4. OneOwner'
  BY <1>1 DEF IInv, OneOwner, objects
<1>5. RouteOfHost'
  BY DEF IInv, RouteOfHost, objects
<1> QED
  BY <1>2, <1>3, <1>4, <1>5 DEF IInv

LEMMA MainOnlyKeeps ==
    ASSUME IInv,
           (\E h \in Hosts : Accept(h)) \/ PeerGone
    PROVE  IInv'
<1>1. /\ UNCHANGED <<status, counts, objects, sweep>>
      /\ main' \in MainRec /\ main'.route = None /\ main.route = None
      /\ main'.at # "connect"
      /\ main'.failed # None => main'.failed \in DOMAIN chan
      /\ PhaseOK'
  <2>1. CASE \E h \in Hosts : Accept(h)
    <3> PICK h \in Hosts : Accept(h)
      BY <2>1
    <3>1. main = Idle /\ main' = [at |-> "route", host |-> h, failed |-> None, route |-> None]
      BY DEF Accept, IInv, PhaseOK, Idle
    <3> QED
      BY <3>1 DEF Accept, MainRec, PhaseOK, Idle
  <2>2. CASE PeerGone
    BY <2>2, ReturnOK DEF PeerGone, IInv, PhaseOK, objects
  <2> QED
    BY <2>1, <2>2
<1>2. TypeOK'
  BY <1>1 DEF IInv, TypeOK, status, counts, objects
<1> QED
  BY <1>1, <1>2, NoObjectStep

LEMMA ConnectErrorKeeps ==
    ASSUME IInv, NEW c \in DOMAIN chan, ConnectError(c)
    PROVE  IInv'
<1> DEFINE s == ServerOf(c)
           n == num_faults[s] + 1
<1>1. /\ main = Idle /\ ~chan[c].connected
      /\ main' = [at |-> "route", host |-> chan[c].host, failed |-> c, route |-> None]
      /\ num_faults' = [num_faults EXCEPT ![s] = IF n >= MaxFaults THEN 0 ELSE n]
      /\ active' = [active EXCEPT ![s] = @ /\ ~(n >= MaxFaults)]
      /\ UNCHANGED <<max_slots, counts, objects, sweep>>
  BY DEF ConnectError, IInv, PhaseOK
<1>2. c \in Chans /\ c # None /\ chan[c].host \in Hosts /\ chan[c].host # None
  BY DEF IInv, TypeOK, ChanRec
<1>3. s \in Servers
  BY UsedRoute DEF IInv, TypeOK, RouteRec, ServerOf
<1>4. num_faults' \in [Servers -> 0 .. MaxFaults - 1] /\ active' \in [Servers -> BOOLEAN]
  <2>1. num_faults[s] \in 0 .. MaxFaults - 1 /\ active[s] \in BOOLEAN
    BY <1>3 DEF IInv, TypeOK
  <2>2. (IF n >= MaxFaults THEN 0 ELSE n) \in 0 .. MaxFaults - 1
    BY <2>1
  <2> HIDE DEF n, s
  <2>3. num_faults' \in [Servers -> 0 .. MaxFaults - 1]
    BY <1>1, <2>2 DEF IInv, TypeOK
  <2>4. active' \in [Servers -> BOOLEAN]
    BY <1>1, <2>1 DEF IInv, TypeOK
  <2> QED
    BY <2>3, <2>4
<1> HIDE DEF s, n
<1>5. main' \in MainRec
  BY <1>1, <1>2 DEF MainRec
<1>6. TypeOK'
  BY <1>1, <1>4, <1>5 DEF IInv, TypeOK, counts, objects
<1>7. PhaseOK'
  BY <1>1, <1>2 DEF PhaseOK, Idle, objects
<1> QED
  BY <1>1, <1>6, <1>7, NoObjectStep DEF Idle

LEMMA StatusChangeKeeps ==
    ASSUME IInv, NEW s \in Servers, StatusChange(s)
    PROVE  IInv'
<1>1. UNCHANGED <<counts, objects, sweep, main>>
  BY DEF StatusChange
<1>2. /\ active' \in [Servers -> BOOLEAN]
      /\ max_slots' \in [Servers -> Nat]
      /\ \A x \in Servers : max_slots'[x] \in 1 .. ConfSlots[x]
      /\ num_faults' \in [Servers -> 0 .. MaxFaults - 1]
  <2>1. CASE Activate(s)
    BY <2>1 DEF IInv, TypeOK, Activate
  <2>3. CASE Deactivate(s)
    <3>1. 0 \in 0 .. MaxFaults - 1
      OBVIOUS
    <3>2. num_faults' \in [Servers -> 0 .. MaxFaults - 1]
      BY <2>3, <3>1 DEF IInv, TypeOK, Deactivate
    <3> QED
      BY <2>3, <3>2 DEF IInv, TypeOK, Deactivate
  <2>2. CASE Inform(s)
    <3>1. PICK n \in 1 .. max_slots[s] : max_slots' = [max_slots EXCEPT ![s] = n]
      BY <2>2 DEF Inform
    <3>2. max_slots[s] \in Nat /\ max_slots[s] \in 1 .. ConfSlots[s] /\ ConfSlots[s] \in Nat
      BY DEF IInv, TypeOK
    <3>3. n \in Nat /\ n \in 1 .. ConfSlots[s]
      BY <3>1, <3>2
    <3>4. /\ max_slots' \in [Servers -> Nat]
          /\ \A x \in Servers : max_slots'[x] \in 1 .. ConfSlots[x]
      BY <3>1, <3>3 DEF IInv, TypeOK
    <3> QED
      BY <2>2, <3>4 DEF IInv, TypeOK, Inform
  <2> QED
    BY <2>1, <2>2, <2>3 DEF StatusChange
<1>3. TypeOK'
  BY <1>1, <1>2 DEF IInv, TypeOK, counts, objects
<1>4. PhaseOK'
  BY <1>1 DEF IInv, PhaseOK, objects
<1>5. /\ main'.route = main.route
      /\ main'.at = "connect" => main.at = "connect" /\ main'.host = main.host
      /\ main'.failed # None => main'.failed \in DOMAIN chan
  BY <1>1 DEF IInv, NoDangling
<1> QED
  BY <1>1, <1>3, <1>4, <1>5, NoObjectStep

\* A step that changes no field of a route or channel that the invariant is about.
LEMMA SetConnectedKeeps ==
    ASSUME IInv, NEW c \in DOMAIN chan, SetConnected(c)
    PROVE  IInv'
<1>1. /\ main = Idle
      /\ chan' = [chan EXCEPT ![c].connected = TRUE]
      /\ num_faults' = [num_faults EXCEPT ![ServerOf(c)] = 0]
      /\ UNCHANGED <<active, max_slots, counts, cache, route, sweep, main>>
  BY DEF SetConnected, IInv, PhaseOK
<1>2. /\ DOMAIN chan' = DOMAIN chan
      /\ \A d \in DOMAIN chan : /\ chan'[d] \in ChanRec
                               /\ chan'[d].host = chan[d].host
                               /\ chan'[d].route = chan[d].route
  BY <1>1 DEF IInv, TypeOK, ChanRec
<1>3. num_faults' \in [Servers -> 0 .. MaxFaults - 1]
  <2>1. 0 \in 0 .. MaxFaults - 1
    OBVIOUS
  <2> QED
    BY <1>1, <2>1 DEF IInv, TypeOK
<1>4. /\ \A s : OnServer(s)' = OnServer(s)
      /\ \A k : OnClient(k)' = OnClient(k)
      /\ \A r : ChansOn(r)' = ChansOn(r)
  BY <1>1, <1>2 DEF OnServer, OnClient, ChansOn, ServerOf, ClientOf
<1>5. TypeOK'
  BY <1>1, <1>2, <1>3 DEF IInv, TypeOK, counts
<1>6. NoDangling'
  BY <1>1, <1>2 DEF IInv, NoDangling
<1>7. SlotsExact'
  BY <1>1, <1>4 DEF IInv, SlotsExact, counts
<1>8. OneOwner'
  BY <1>1, <1>4 DEF IInv, OneOwner
<1>9. RouteOfHost'
  BY <1>1, <1>2 DEF IInv, RouteOfHost
<1>10. PhaseOK'
  BY <1>1 DEF IInv, PhaseOK, Idle
<1> QED
  BY <1>5, <1>6, <1>7, <1>8, <1>9, <1>10 DEF IInv

LEMMA TickKeeps ==
    ASSUME IInv, Tick
    PROVE  IInv'
<1>1. UNCHANGED <<status, counts, cache, chan, main>>
  BY DEF Tick
<1>2. /\ DOMAIN route' = DOMAIN route
      /\ \A r \in DOMAIN route : /\ route'[r] \in RouteRec
                                /\ route'[r].server = route[r].server
                                /\ route'[r].client = route[r].client
                                /\ route'[r].cached = route[r].cached
                                /\ route'[r].num_slots = route[r].num_slots
  <2> SUFFICES ASSUME NEW r \in DOMAIN route
               PROVE  /\ route'[r] \in RouteRec
                      /\ route'[r].server = route[r].server
                      /\ route'[r].client = route[r].client
                      /\ route'[r].cached = route[r].cached
                      /\ route'[r].num_slots = route[r].num_slots
    BY DEF Tick
  <2>1. route[r] \in RouteRec
    BY DEF IInv, TypeOK
  <2>2. \/ route'[r] = route[r]
        \/ route[r].idle <= CacheTimeout /\ route'[r] = [route[r] EXCEPT !.idle = @ + 1]
    BY DEF Tick
  <2> QED
    BY <2>1, <2>2 DEF RouteRec
<1>3. sweep' \in 0 .. Never
  <2>1. sweep \in 0 .. Never
    BY DEF IInv, TypeOK
  <2>2. sweep' = IF sweep \in {0, Never} THEN sweep ELSE sweep - 1
    BY DEF Tick
  <2> QED
    BY <2>1, <2>2 DEF Never
<1>4. /\ \A s : OnServer(s)' = OnServer(s)
      /\ \A k : OnClient(k)' = OnClient(k)
      /\ \A r : ChansOn(r)' = ChansOn(r)
  BY <1>1, <1>2 DEF IInv, NoDangling, OnServer, OnClient, ChansOn, ServerOf, ClientOf
<1>5. TypeOK'
  BY <1>1, <1>2, <1>3 DEF IInv, TypeOK, counts, status
<1>6. NoDangling'
  BY <1>1, <1>2 DEF IInv, NoDangling
<1>7. SlotsExact'
  BY <1>1, <1>2, <1>4 DEF IInv, SlotsExact, counts
<1>8. OneOwner'
  BY <1>1, <1>2, <1>4 DEF IInv, OneOwner
<1>9. RouteOfHost'
  BY <1>1, <1>2 DEF IInv, RouteOfHost, NoDangling, PhaseOK
<1>10. PhaseOK'
  BY <1>1 DEF IInv, PhaseOK
<1> QED
  BY <1>5, <1>6, <1>7, <1>8, <1>9, <1>10 DEF IInv

-----------------------------------------------------------------------------
(* Deleting a channel, or the route of one that could not be created.      *)

\* What ReleaseKeeps says is the invariant, but for the main thread's part.
LEMMA DeleteKeeps ==
    ASSUME IInv, NEW c \in DOMAIN chan, Release(c),
           UNCHANGED <<status, cache, sweep>>, main.route = None, main' = Idle
    PROVE  IInv'
<1>1. main'.route = None /\ main'.failed = None /\ main'.at = "loop" /\ main' \in MainRec
  BY DEF Idle, MainRec
<1>2. /\ num_slots' \in [Servers -> Nat]
      /\ client_slots' \in [Clients -> Nat]
      /\ DOMAIN route' \subseteq DOMAIN route
      /\ \A r \in DOMAIN route' : route'[r] \in RouteRec
      /\ DOMAIN chan' = DOMAIN chan \ {c}
      /\ \A d \in DOMAIN chan' : chan'[d] = chan[d]
      /\ \A d \in DOMAIN chan' : chan'[d].route \in DOMAIN route'
      /\ \A h \in Hosts : cache'[h] # None => cache'[h] \in DOMAIN route'
      /\ SlotsExact'
      /\ OneOwner'
      /\ \A d \in DOMAIN chan' :
           route'[chan'[d].route].cached => cache'[chan'[d].host] = chan'[d].route
  BY <1>1, ReleaseKeeps
<1>3. TypeOK'
  BY <1>1, <1>2 DEF IInv, TypeOK, status
<1>4. NoDangling'
  BY <1>1, <1>2 DEF NoDangling
<1>5. RouteOfHost'
  BY <1>1, <1>2 DEF RouteOfHost
<1>6. PhaseOK'
  BY <1>1 DEF PhaseOK, Idle
<1> QED
  BY <1>2, <1>3, <1>4, <1>5, <1>6 DEF IInv

LEMMA CloseKeeps ==
    ASSUME IInv, NEW c \in DOMAIN chan, Close(c)
    PROVE  IInv'
<1>1. main' = Idle /\ main.route = None
  BY DEF Close, IInv, PhaseOK, Idle
<1> QED
  BY <1>1, DeleteKeeps DEF Close

LEMMA DropFailedKeeps ==
    ASSUME IInv, DropFailed
    PROVE  IInv'
<1>1. main.failed \in DOMAIN chan /\ main.route = None
  BY DEF DropFailed, IInv, PhaseOK, NoDangling
<1>2. PICK c \in DOMAIN chan : c = main.failed
  BY <1>1
<1>3. Release(c)
  BY <1>2 DEF DropFailed
<1> QED
  BY <1>1, <1>3, DeleteKeeps DEF DropFailed

LEMMA ConnectRefusedKeeps ==
    ASSUME IInv, ConnectRefused
    PROVE  IInv'
<1> DEFINE unused == {h \in {main.host} : cache[h] # None /\ route[cache[h]].num_slots = 0}
           D == {cache[h] : h \in unused}
<1>1. PICK r : r = main.route
  OBVIOUS
<1>2. /\ main.at = "connect" /\ main' = Return
      /\ UNCHANGED <<status, counts, chan, sweep>>
      /\ r \in DOMAIN route /\ r # None /\ main.host \in Hosts
  BY <1>1 DEF ConnectRefused, IInv, PhaseOK, NoDangling, TypeOK, MainRec
<1>3. /\ main' \in MainRec /\ main'.route = None /\ main'.at # "connect"
      /\ main'.failed = main.failed /\ PhaseOK'
  BY <1>2, ReturnOK
<1>4. None \notin DOMAIN route
  BY DEF IInv, TypeOK
<1>5. /\ cache' \in [Hosts -> Routes \cup {None}]
      /\ DOMAIN route' \subseteq Routes
      /\ \A x \in DOMAIN route' : route'[x] \in RouteRec
      /\ \A c \in DOMAIN chan' : chan'[c].route \in DOMAIN route'
      /\ \A h \in Hosts : cache'[h] # None => cache'[h] \in DOMAIN route'
      /\ SlotsExact'
      /\ OneOwner'
      /\ \A c \in DOMAIN chan' :
            route'[chan'[c].route].cached => cache'[chan'[c].host] = chan'[c].route
  <2>1. CASE route[r].cached
    <3>1. cache' = CacheWithout(unused) /\ route' = HeapWithout(unused)
      BY <1>1, <2>1 DEF ConnectRefused
    <3>2. /\ DOMAIN route' = DOMAIN route \ D
          /\ \A x \in DOMAIN route \ D : route'[x] = route[x]
      BY <3>1 DEF HeapWithout, Without, Restrict
    <3>3. /\ unused \in SUBSET Hosts
          /\ \A h \in unused : cache[h] # None /\ route[cache[h]].num_slots = 0
      BY <1>2
    <3>4. PICK S \in SUBSET Hosts : S = unused
      BY <3>3
    <3> HIDE DEF unused
    <3>5. cache' = CacheWithout(S) /\ D = {cache[h] : h \in S}
      BY <3>1, <3>4
    <3>6. \A h \in S : cache[h] # None /\ route[cache[h]].num_slots = 0
      BY <3>3, <3>4
    <3>7. UNCHANGED <<counts, chan>> /\ route[main.route].cached
      BY <1>1, <1>2, <2>1
    <3> HIDE DEF D
    <3> QED
      BY <1>3, <1>4, <3>2, <3>5, <3>6, <3>7, EvictUnused
  <2>2. CASE ~route[r].cached
    <3>1. /\ cache' = cache
          /\ DOMAIN route' = DOMAIN route \ {r}
          /\ \A x \in DOMAIN route' : route'[x] = route[x]
      BY <1>1, <2>2 DEF ConnectRefused, Without, Restrict
    <3>2. /\ ChansOn(r) = {}
          /\ \A h \in Hosts : cache[h] # r
      BY <1>1, <1>2, <2>2 DEF IInv, OneOwner
    <3>3. \A c \in DOMAIN chan : chan[c].route \in DOMAIN route \ {r}
      BY <3>2 DEF ChansOn, IInv, NoDangling
    <3>4. \A h \in Hosts : cache'[h] # None => cache'[h] \in DOMAIN route'
      BY <3>1, <3>2 DEF IInv, NoDangling
    <3>5. /\ \A s : OnServer(s)' = OnServer(s)
          /\ \A k : OnClient(k)' = OnClient(k)
          /\ \A x : ChansOn(x)' = ChansOn(x)
      BY <1>2, <3>1, <3>3, SameChannels
    <3>6. SlotsExact'
      BY <1>2, <3>1, <3>5 DEF IInv, SlotsExact, counts
    <3>7. OneOwner'
      BY <1>1, <1>2, <1>3, <1>4, <3>1, <3>5 DEF IInv, OneOwner
    <3>8. \A c \in DOMAIN chan' :
             route'[chan'[c].route].cached => cache'[chan'[c].host] = chan'[c].route
      BY <1>2, <3>1, <3>3 DEF IInv, RouteOfHost
    <3> QED
      BY <1>2, <3>1, <3>3, <3>4, <3>6, <3>7, <3>8 DEF IInv, TypeOK
  <2> QED
    BY <2>1, <2>2
<1>6. TypeOK'
  BY <1>2, <1>3, <1>5 DEF IInv, TypeOK, status, counts
<1>7. NoDangling'
  BY <1>2, <1>3, <1>5 DEF IInv, NoDangling
<1>8. RouteOfHost'
  BY <1>3, <1>5 DEF RouteOfHost
<1> QED
  BY <1>3, <1>5, <1>6, <1>7, <1>8 DEF IInv

-----------------------------------------------------------------------------
(* The invariant of the specification.                                     *)

LEMMA InitIInv == Init => IInv
<1> SUFFICES ASSUME Init PROVE IInv
  OBVIOUS
<1>1. DOMAIN route = {} /\ DOMAIN chan = {} /\ main = Idle
  BY DEF Init
<1>2. TypeOK
  BY <1>1 DEF Init, TypeOK, Never, MainRec, Idle
<1>3. SlotsExact
  <2>1. /\ \A s : OnServer(s) = {}
        /\ \A k : OnClient(k) = {}
    BY <1>1 DEF OnServer, OnClient
  <2>2. Cardinality({}) = 0
    BY FS_EmptySet
  <2> QED
    BY <1>1, <2>1, <2>2 DEF Init, SlotsExact
<1>4. NoDangling /\ OneOwner /\ RouteOfHost /\ PhaseOK
  BY <1>1 DEF Init, NoDangling, OneOwner, RouteOfHost, PhaseOK, Idle
<1> QED
  BY <1>2, <1>3, <1>4 DEF IInv

LEMMA StutterKeeps ==
    ASSUME IInv, UNCHANGED vars
    PROVE  IInv'
<1>1. TypeOK' /\ PhaseOK'
  BY DEF IInv, TypeOK, PhaseOK, vars, status, counts, objects
<1>2. main'.failed # None => main'.failed \in DOMAIN chan
  BY DEF IInv, NoDangling, vars
<1> QED
  BY <1>1, <1>2, NoObjectStep DEF vars

LEMMA NextIInv ==
    ASSUME IInv, [Next]_vars
    PROVE  IInv'
<1>1. ASSUME NEW h \in Hosts, Accept(h) PROVE IInv'
  BY <1>1, MainOnlyKeeps
<1>2. ASSUME NEW c \in DOMAIN chan, ConnectError(c) PROVE IInv'
  BY <1>2, ConnectErrorKeeps
<1>3. ASSUME NEW c \in DOMAIN chan, SetConnected(c) PROVE IInv'
  BY <1>3, SetConnectedKeeps
<1>4. ASSUME NEW c \in DOMAIN chan, Close(c) PROVE IInv'
  BY <1>4, CloseKeeps
<1>5. CASE RouteCached
  BY <1>5, RouteCachedKeeps
<1>6. CASE PeerGone
  BY <1>6, MainOnlyKeeps
<1>7. ASSUME NEW busy \in SUBSET Servers, RouteFresh(busy) PROVE IInv'
  BY <1>7, RouteFreshKeeps
<1>8. ASSUME NEW busy \in SUBSET Servers, RouteNone(busy) PROVE IInv'
  BY <1>8, RouteNoneKeeps
<1>9. CASE ConnectStarted
  BY <1>9, ConnectStartedKeeps
<1>10. CASE ConnectRefused
  BY <1>10, ConnectRefusedKeeps
<1>11. CASE DropFailed
  BY <1>11, DropFailedKeeps
<1>12. ASSUME NEW s \in Servers, StatusChange(s) PROVE IInv'
  BY <1>12, StatusChangeKeeps
<1>13. CASE Tick
  BY <1>13, TickKeeps
<1>14. CASE UNCHANGED vars
  BY <1>14, StutterKeeps
<1> QED
  BY <1>1, <1>2, <1>3, <1>4, <1>5, <1>6, <1>7, <1>8, <1>9, <1>10, <1>11, <1>12,
     <1>13, <1>14
  DEF Next, MainNext, Proceed

\* The inductive invariant holds of every execution.
THEOREM Invariance == Spec => []IInv
<1>1. IInv /\ [Next]_vars => IInv'
  BY NextIInv
<1> QED
  BY InitIInv, <1>1, PTL DEF Spec

\* Type correctness, whatever the configuration.
THEOREM TypeCorrect == Spec => []TypeOK
<1>1. IInv => TypeOK
  BY DEF IInv
<1> QED
  BY Invariance, <1>1, PTL

\* nrdpx_server.cpp never follows a pointer to a deleted route or channel.
THEOREM NoDanglingPointers == Spec => []NoDangling
<1>1. IInv => NoDangling
  BY DEF IInv
<1> QED
  BY Invariance, <1>1, PTL

\* The slot counters of servers, client groups and routes are exact.
THEOREM CountersExact == Spec => []SlotsExact
<1>1. IInv => SlotsExact
  BY DEF IInv
<1> QED
  BY Invariance, <1>1, PTL

\* No route object leaks and none is deleted twice.
THEOREM RoutesOwned == Spec => []OneOwner
<1>1. IInv => OneOwner
  BY DEF IInv
<1> QED
  BY Invariance, <1>1, PTL

\* A cached route that a channel is on is the cache entry of the channel's host.
THEOREM CachedUnderHost == Spec => []RouteOfHost
<1>1. IInv => RouteOfHost
  BY DEF IInv
<1> QED
  BY Invariance, <1>1, PTL

-----------------------------------------------------------------------------
(* Action properties.                                                      *)

\* Steps that may change the cache.
LEMMA CacheSteps ==
    ASSUME [Next]_vars
    PROVE  \/ cache' = cache
           \/ main.at = "route" /\ cache' = CacheWithout(Gone)
           \/ ConnectStarted
           \/ ConnectRefused
<1>1. CASE Tick \/ UNCHANGED vars \/ DropFailed \/ PeerGone \/ \E s \in Servers : StatusChange(s)
  BY <1>1 DEF Tick, vars, DropFailed, PeerGone, StatusChange, objects
<1>2. CASE \/ \E h \in Hosts : Accept(h)
           \/ \E c \in DOMAIN chan : ConnectError(c) \/ SetConnected(c) \/ Close(c)
  BY <1>2 DEF Accept, ConnectError, SetConnected, Close, objects
<1>3. CASE \/ RouteCached
           \/ \E busy \in SUBSET Servers : RouteFresh(busy) \/ RouteNone(busy)
  BY <1>3 DEF RouteCached, RouteFresh, RouteNone
<1> QED
  BY <1>1, <1>2, <1>3 DEF Next, MainNext, Proceed

\* Steps that find a route.
LEMMA RouteSteps ==
    ASSUME [Next]_vars, IInv, main.at = "route", main'.at = "connect"
    PROVE  RouteCached \/ \E busy \in SUBSET Servers : RouteFresh(busy)
<1>1. CASE Tick \/ UNCHANGED vars \/ \E s \in Servers : StatusChange(s)
  BY <1>1 DEF Tick, vars, StatusChange
<1>2. CASE \/ \E h \in Hosts : Accept(h)
           \/ \E c \in DOMAIN chan : ConnectError(c) \/ SetConnected(c) \/ Close(c)
           \/ DropFailed \/ ConnectStarted \/ ConnectRefused
  BY <1>2 DEF Accept, ConnectError, SetConnected, Close, DropFailed, ConnectStarted,
              ConnectRefused
<1>3. CASE PeerGone \/ \E busy \in SUBSET Servers : RouteNone(busy)
  BY <1>3, ReturnOK DEF PeerGone, RouteNone
<1> QED
  BY <1>1, <1>2, <1>3 DEF Next, MainNext, Proceed

LEMMA PinnedStep ==
    ASSUME IInv, [Next]_vars, NEW h \in Hosts,
           cache[h] # None, route[cache[h]].num_slots > 0
    PROVE  cache'[h] = cache[h]
<1>1. CASE cache' = cache
  BY <1>1
<1>2. CASE main.at = "route" /\ cache' = CacheWithout(Gone)
  <2>1. h \notin Gone
    BY <1>2, LookupKeeps
  <2> QED
    BY <1>2, <2>1 DEF CacheWithout
<1>3. CASE ConnectStarted
  <2>1. h = main.host => ~Cacheable
    BY DEF Cacheable
  <2> QED
    BY <1>3, <2>1 DEF ConnectStarted, IInv, TypeOK
<1>4. CASE ConnectRefused
  BY <1>4 DEF ConnectRefused, CacheWithout
<1> QED
  BY <1>1, <1>2, <1>3, <1>4, CacheSteps

\* A cached route in use is never taken out of the cache.
THEOREM UsedRoutesPinned == Spec => Pinned
<1>1. IInv /\ [Next]_vars =>
        [\A h \in Hosts :
           cache[h] # None /\ route[cache[h]].num_slots > 0 => cache'[h] = cache[h]]_vars
  BY PinnedStep
<1> QED
  BY Invariance, <1>1, PTL DEF Spec, Pinned

LEMMA JoinStep ==
    ASSUME IInv, [Next]_vars,
           main.at = "route", main.failed = None, main'.at = "connect",
           NEW c \in DOMAIN chan, chan[c].host = main.host, route[chan[c].route].cached
    PROVE  main'.route = chan[c].route
<1>1. /\ cache[main.host] = chan[c].route /\ main.host \in Hosts
      /\ chan[c].route # None /\ main \in MainRec
      /\ route[chan[c].route].num_slots > 0
      /\ route[chan[c].route].server # None
  BY UsedRoute DEF IInv, RouteOfHost, TypeOK, ChanRec, RouteRec, PhaseOK, MainRec
<1>2. main.host \notin Evicted
  BY <1>1 DEF Evicted, Expired
<1>3. Found = chan[c].route
  BY <1>1, <1>2 DEF Found
<1>4. ~Refused
  BY <1>1, <1>3 DEF Refused, NoSvr
<1>5. RouteCached
  BY <1>1, <1>3, <1>4, RouteSteps DEF RouteFresh
<1> QED
  BY <1>1, <1>3, <1>5 DEF RouteCached, MainRec

\* A new connection joins the cached route its host's other connections are on.
THEOREM SessionsJoined == Spec => JoinsOpenSession
<1>1. IInv /\ [Next]_vars =>
        [main.at = "route" /\ main.failed = None /\ main'.at = "connect" =>
          \A c \in DOMAIN chan :
             chan[c].host = main.host /\ route[chan[c].route].cached
                => main'.route = chan[c].route]_vars
  BY JoinStep
<1> QED
  BY Invariance, <1>1, PTL DEF Spec, JoinsOpenSession

LEMMA FailoverStep ==
    ASSUME IInv, [Next]_vars,
           main.at = "route", main.failed # None, main'.at = "connect"
    PROVE  route'[main'.route].server # ServerOf(main.failed)
<1>1. NoSvr = ServerOf(main.failed) /\ main \in MainRec
  BY DEF NoSvr, IInv, TypeOK
<1>2. CASE RouteCached
  <2>1. /\ Found \in DOMAIN route /\ Found \notin {cache[h] : h \in Gone}
        /\ route[Found].server # NoSvr
    BY <1>2, LookupKeeps DEF RouteCached, Refused
  <2>2. main'.route = Found
    BY <1>1, <1>2 DEF RouteCached, MainRec
  <2>3. route'[Found] = route[Found]
    BY <1>2, <2>1 DEF RouteCached, HeapWithout, Without, Restrict
  <2> QED
    BY <1>1, <2>1, <2>2, <2>3
<1>3. ASSUME NEW busy \in SUBSET Servers, RouteFresh(busy)
      PROVE  route'[main'.route].server # NoSvr
  <2> DEFINE b == Balancers[Min(Usable(busy))]
             k == b.clients[Min(Admitting(b))]
  <2>1. PICK r \in Routes \ DOMAIN route, s \in Preferred(Candidates(b, busy)) :
         /\ route' = With(HeapWithout(Gone), r,
                          [client |-> k, server |-> s, cached |-> FALSE,
                           num_slots |-> 0, idle |-> 0])
         /\ main' = [main EXCEPT !.at = "connect", !.route = r]
    BY <1>3 DEF RouteFresh
  <2> HIDE DEF b, k
  <2>2. s # NoSvr
    BY <2>1 DEF Preferred, Candidates
  <2>3. main'.route = r
    BY <1>1, <2>1 DEF MainRec
  <2>4. route'[r].server = s
    BY <2>1 DEF With
  <2> QED
    BY <2>2, <2>3, <2>4
<1> QED
  BY <1>1, <1>2, <1>3, RouteSteps

\* A failover never returns to the server that has just failed.
THEOREM FailoversMoveOn == Spec => FailoverMovesOn
<1>1. IInv /\ [Next]_vars =>
        [main.at = "route" /\ main.failed # None /\ main'.at = "connect" =>
          route'[main'.route].server # ServerOf(main.failed)]_vars
  BY FailoverStep
<1> QED
  BY Invariance, <1>1, PTL DEF Spec, FailoverMovesOn

-----------------------------------------------------------------------------
(* Limits.                                                                 *)

LEMMA GiveBack ==
    ASSUME NEW S, NEW f \in [S -> Nat], NEW x
    PROVE  LET g == [f EXCEPT ![x] = Dec(f[x])]
           IN  g \in [S -> Nat] /\ \A y \in S : g[y] <= f[y]
<1> DEFINE g == [f EXCEPT ![x] = Dec(f[x])]
<1>1. ASSUME NEW y \in S PROVE g[y] \in Nat /\ g[y] <= f[y]
  <2>1. f[y] \in Nat
    OBVIOUS
  <2>2. g[y] = IF y = x THEN Dec(f[y]) ELSE f[y]
    OBVIOUS
  <2> QED
    BY <2>1, <2>2 DEF Dec
<1> QED
  BY <1>1

\* Only a connect that starts takes a slot, and only a selection finds a route.
LEMMA SlotSteps ==
    ASSUME IInv, [Next]_vars, ~ConnectStarted
    PROVE  /\ num_slots' \in [Servers -> Nat]
           /\ client_slots' \in [Clients -> Nat]
           /\ \A s \in Servers : num_slots'[s] <= num_slots[s]
           /\ \A k \in Clients : client_slots'[k] <= client_slots[k]
<1>1. ASSUME NEW c \in DOMAIN chan, Release(c)
      PROVE  /\ num_slots' \in [Servers -> Nat]
             /\ client_slots' \in [Clients -> Nat]
             /\ \A s \in Servers : num_slots'[s] <= num_slots[s]
             /\ \A k \in Clients : client_slots'[k] <= client_slots[k]
  <2>1. num_slots \in [Servers -> Nat] /\ client_slots \in [Clients -> Nat]
    BY DEF IInv, TypeOK
  <2>2. /\ num_slots' = [num_slots EXCEPT ![ServerOf(c)] = Dec(num_slots[ServerOf(c)])]
        /\ client_slots' = [client_slots EXCEPT ![ClientOf(c)] = Dec(client_slots[ClientOf(c)])]
    BY <1>1 DEF Release
  <2> QED
    BY <2>1, <2>2, GiveBack
<1>2. ASSUME UNCHANGED counts
      PROVE  /\ num_slots' \in [Servers -> Nat]
             /\ client_slots' \in [Clients -> Nat]
             /\ \A s \in Servers : num_slots'[s] <= num_slots[s]
             /\ \A k \in Clients : client_slots'[k] <= client_slots[k]
  BY <1>2 DEF counts, IInv, TypeOK
<1>3. CASE Tick \/ UNCHANGED vars \/ \E s \in Servers : StatusChange(s)
  BY <1>2, <1>3 DEF Tick, vars, StatusChange, counts
<1>4. CASE \/ \E h \in Hosts : Accept(h)
           \/ \E c \in DOMAIN chan : ConnectError(c) \/ SetConnected(c)
  BY <1>2, <1>4 DEF Accept, ConnectError, SetConnected, counts
<1>5. CASE \/ RouteCached \/ PeerGone \/ ConnectRefused
           \/ \E busy \in SUBSET Servers : RouteFresh(busy) \/ RouteNone(busy)
  BY <1>2, <1>5 DEF RouteCached, PeerGone, ConnectRefused, RouteFresh, RouteNone, counts
<1>6. CASE \E c \in DOMAIN chan : Close(c)
  BY <1>1, <1>6 DEF Close
<1>7. CASE DropFailed
  <2>1. main.failed \in DOMAIN chan
    BY <1>7 DEF DropFailed, IInv, PhaseOK, NoDangling
  <2> QED
    BY <1>1, <1>7, <2>1 DEF DropFailed
<1> QED
  BY <1>3, <1>4, <1>5, <1>6, <1>7 DEF Next, MainNext, Proceed

\* A step that leaves main in a connect finds the route, or comes from outside.
LEMMA IntoConnect ==
    ASSUME IInv, [Next]_vars, main'.at = "connect"
    PROVE  \/ RouteCached
           \/ \E busy \in SUBSET Servers : RouteFresh(busy)
           \/ /\ UNCHANGED <<main, counts>>
              /\ Tick \/ UNCHANGED vars \/ \E s \in Servers : StatusChange(s)
<1>1. CASE Tick \/ UNCHANGED vars \/ \E s \in Servers : StatusChange(s)
  BY <1>1 DEF Tick, vars, StatusChange
<1>2. CASE \/ \E h \in Hosts : Accept(h)
           \/ \E c \in DOMAIN chan : ConnectError(c)
           \/ DropFailed
  <2>1. CASE \E h \in Hosts : Accept(h)
    BY <2>1 DEF Accept, Idle
  <2>2. CASE \E c \in DOMAIN chan : ConnectError(c)
    <3>1. main'.at = "route"
      BY <2>2 DEF ConnectError
    <3> QED
      BY <3>1
  <2>3. CASE DropFailed
    <3>1. main' = Idle
      BY <2>3 DEF DropFailed
    <3> QED
      BY <3>1 DEF Idle
  <2> QED
    BY <1>2, <2>1, <2>2, <2>3
<1>3. CASE \E c \in DOMAIN chan : SetConnected(c) \/ Close(c)
  <2>1. main.at = "loop" /\ main' = main
    BY <1>3 DEF SetConnected, Close
  <2> QED
    BY <2>1
<1>4. CASE \/ PeerGone \/ ConnectStarted \/ ConnectRefused
           \/ \E busy \in SUBSET Servers : RouteNone(busy)
  BY <1>4, ReturnOK DEF PeerGone, RouteNone, ConnectStarted, ConnectRefused
<1> QED
  BY <1>1, <1>2, <1>3, <1>4 DEF Next, MainNext, Proceed

LEMMA ConnectFitsStep ==
    ASSUME IInv, ConnectFits, [Next]_vars
    PROVE  ConnectFits'
<1> SUFFICES ASSUME main'.at = "connect", ~route'[main'.route].cached
             PROVE  LET r == route'[main'.route] IN
                    /\ num_slots'[r.server] < ConfSlots[r.server]
                    /\ client_slots'[r.client] < ClientSlots[r.client]
  BY DEF ConnectFits
<1>1. CASE RouteCached
  <2>1. /\ Found \in DOMAIN route /\ Found \notin {cache[h] : h \in Gone}
        /\ route[Found].cached
    BY <1>1, LookupKeeps DEF RouteCached, Refused
  <2>2. main'.route = Found
    BY <1>1 DEF RouteCached, IInv, TypeOK, MainRec
  <2>3. route'[Found] = route[Found]
    BY <1>1, <2>1 DEF RouteCached, HeapWithout, Without, Restrict
  <2> QED
    BY <2>1, <2>2, <2>3
<1>2. ASSUME NEW busy \in SUBSET Servers, RouteFresh(busy)
      PROVE  LET r == route'[main'.route] IN
             /\ num_slots'[r.server] < ConfSlots[r.server]
             /\ client_slots'[r.client] < ClientSlots[r.client]
  <2> DEFINE b == Balancers[Min(Usable(busy))]
             k == b.clients[Min(Admitting(b))]
  <2>1. PICK r \in Routes \ DOMAIN route, s \in Preferred(Candidates(b, busy)) :
         /\ route' = With(HeapWithout(Gone), r,
                          [client |-> k, server |-> s, cached |-> FALSE,
                           num_slots |-> 0, idle |-> 0])
         /\ main' = [main EXCEPT !.at = "connect", !.route = r]
    BY <1>2 DEF RouteFresh
  <2>2. Min(Usable(busy)) \in DOMAIN Balancers /\ Admitting(b) # {}
    <3>1. DOMAIN Balancers \subseteq Nat
      BY BalancersAssumption
    <3>2. Usable(busy) # {}
      BY <1>2 DEF RouteFresh
    <3>3. Usable(busy) \in SUBSET Nat
      BY <3>1 DEF Usable
    <3>4. Min(Usable(busy)) \in Usable(busy)
      BY <3>2, <3>3, MinInSet
    <3> QED
      BY <3>4 DEF Usable
  <2>3. b \in BalancerRec
    <3>1. \A i \in DOMAIN Balancers : Balancers[i] \in BalancerRec
      BY BalancersAssumption, SeqElement
    <3> QED
      BY <2>2, <3>1, Zenon
  <2>4. client_slots[k] < ClientSlots[k]
    <3> HIDE DEF b
    <3>1. Admitting(b) \in SUBSET Nat
      BY <2>3 DEF Admitting, BalancerRec
    <3>2. Min(Admitting(b)) \in Admitting(b)
      BY <2>2, <3>1, MinInSet
    <3> QED
      BY <3>2, Zenon DEF Admitting
  <2> HIDE DEF b, k
  <2>5. s \in Servers /\ num_slots[s] < max_slots[s]
    BY <2>1, <2>3 DEF Preferred, Candidates, BalancerRec
  <2>6. num_slots[s] < ConfSlots[s]
    BY <2>5 DEF IInv, TypeOK
  <2>7. main'.route = r /\ route'[r].server = s /\ route'[r].client = k
    BY <2>1 DEF With, IInv, TypeOK, MainRec
  <2> QED
    BY <1>2, <2>4, <2>6, <2>7 DEF RouteFresh, counts
<1>3. CASE /\ UNCHANGED <<main, counts>>
           /\ Tick \/ UNCHANGED vars \/ \E s \in Servers : StatusChange(s)
  <2>1. main.route \in DOMAIN route
    BY <1>3 DEF IInv, PhaseOK, NoDangling
  <2>2. /\ route'[main.route].server = route[main.route].server
        /\ route'[main.route].client = route[main.route].client
        /\ route'[main.route].cached = route[main.route].cached
    BY <1>3, <2>1 DEF Tick, vars, StatusChange, objects, IInv, TypeOK, RouteRec
  <2> QED
    BY <1>3, <2>2 DEF ConnectFits, counts
<1> QED
  BY <1>1, <1>2, <1>3, IntoConnect

\* A new route that is being connected fits into the limits.
LEMMA ConnectsFit == Spec => []ConnectFits
<1>1. Init => ConnectFits
  BY DEF Init, ConnectFits, Idle
<1>2. IInv /\ ConnectFits /\ [Next]_vars => ConnectFits'
  BY ConnectFitsStep
<1> QED
  BY Invariance, <1>1, <1>2, PTL DEF Spec

\* What a connect that starts takes.
LEMMA StartedTakes ==
    ASSUME IInv, ConnectStarted
    PROVE  LET r == route[main.route] IN
           /\ r.server \in Servers /\ r.client \in Clients
           /\ num_slots' = [num_slots EXCEPT ![r.server] = @ + 1]
           /\ client_slots' = [client_slots EXCEPT ![r.client] = @ + 1]
           /\ num_slots \in [Servers -> Nat] /\ client_slots \in [Clients -> Nat]
<1>1. main.route \in DOMAIN route
  BY DEF ConnectStarted, IInv, PhaseOK, NoDangling
<1> QED
  BY <1>1 DEF ConnectStarted, IInv, TypeOK, RouteRec

LEMMA ExceedsStep ==
    ASSUME IInv, ConnectFits, [Next]_vars
    PROVE  /\ \A s \in Servers :
                 num_slots'[s] > num_slots[s] /\ num_slots[s] >= ConfSlots[s]
                    => route[main.route].cached
           /\ \A k \in Clients :
                 client_slots'[k] > client_slots[k] /\ client_slots[k] >= ClientSlots[k]
                    => route[main.route].cached
<1>1. CASE ConnectStarted
  <2>1. ~route[main.route].cached =>
            LET r == route[main.route] IN
            /\ num_slots[r.server] < ConfSlots[r.server]
            /\ client_slots[r.client] < ClientSlots[r.client]
    BY <1>1 DEF ConnectStarted, ConnectFits
  <2> QED
    BY <1>1, <2>1, StartedTakes
<1>2. CASE ~ConnectStarted
  <2>1. num_slots \in [Servers -> Nat] /\ client_slots \in [Clients -> Nat]
    BY DEF IInv, TypeOK
  <2> QED
    BY <1>2, <2>1, SlotSteps
<1> QED
  BY <1>1, <1>2

\* Only a cached route takes a server or a client group over its limit.
THEOREM OnlyCachedOverLimits == Spec => OnlyCachedExceeds
<1>1. IInv /\ ConnectFits /\ [Next]_vars =>
        [/\ \A s \in Servers :
               num_slots'[s] > num_slots[s] /\ num_slots[s] >= ConfSlots[s]
                  => route[main.route].cached
         /\ \A k \in Clients :
               client_slots'[k] > client_slots[k] /\ client_slots[k] >= ClientSlots[k]
                  => route[main.route].cached]_vars
  BY ExceedsStep
<1> QED
  BY Invariance, ConnectsFit, <1>1, PTL DEF Spec, OnlyCachedExceeds

-----------------------------------------------------------------------------
(* Without the cache.                                                      *)

NoCache == \A h \in Hosts : cache[h] = None

WithinLimits == NoCache /\ ServerLimit /\ ClientLimit

LEMMA WithinLimitsStep ==
    ASSUME CacheTimeout = 0, IInv, ConnectFits, WithinLimits, [Next]_vars
    PROVE  WithinLimits'
<1>1. NoCache'
  BY CacheSteps DEF WithinLimits, NoCache, CacheWithout, ConnectStarted, ConnectRefused,
                    Cacheable, CacheOn, IInv, TypeOK
<1>2. num_slots \in [Servers -> Nat] /\ client_slots \in [Clients -> Nat]
  BY DEF IInv, TypeOK
<1>3. /\ \A s \in Servers : ConfSlots[s] \in Nat
      /\ \A k \in Clients : ClientSlots[k] \in Nat
  OBVIOUS
<1>4. ServerLimit' /\ ClientLimit'
  <2>1. CASE ConnectStarted
    <3>1. main.route \in DOMAIN route
      BY <2>1 DEF ConnectStarted, IInv, PhaseOK, NoDangling
    <3>2. main.route \in Routes /\ main.route # None
      BY <3>1 DEF IInv, TypeOK
    <3>3. {h \in Hosts : cache[h] = main.route} = {}
      BY <3>2 DEF WithinLimits, NoCache
    <3>4. ~route[main.route].cached
      BY <3>1, <3>3 DEF IInv, OneOwner
    <3>5. LET r == route[main.route] IN
          /\ num_slots[r.server] < ConfSlots[r.server]
          /\ client_slots[r.client] < ClientSlots[r.client]
      BY <2>1, <3>4 DEF ConnectStarted, ConnectFits
    <3> QED
      BY <1>2, <1>3, <2>1, <3>5, StartedTakes DEF WithinLimits, ServerLimit, ClientLimit
  <2>2. CASE ~ConnectStarted
    BY <1>2, <1>3, <2>2, SlotSteps DEF WithinLimits, ServerLimit, ClientLimit
  <2> QED
    BY <2>1, <2>2
<1> QED
  BY <1>1, <1>4 DEF WithinLimits

\* With the routing cache switched off no server and no client group ever has more
\* channels than it is configured for, although a failover creates the new channel
\* before the failed one is deleted.
THEOREM LimitsWithoutCache ==
    ASSUME CacheTimeout = 0
    PROVE  Spec => [](ServerLimit /\ ClientLimit)
<1>1. Init => WithinLimits
  BY DEF Init, WithinLimits, NoCache, ServerLimit, ClientLimit
<1>2. IInv /\ ConnectFits /\ WithinLimits /\ [Next]_vars => WithinLimits'
  BY WithinLimitsStep
<1>3. WithinLimits => ServerLimit /\ ClientLimit
  BY DEF WithinLimits
<1> QED
  BY Invariance, ConnectsFit, <1>1, <1>2, <1>3, PTL DEF Spec
=============================================================================
