-------------------------- MODULE SelectionProofs ---------------------------
(***************************************************************************)
(* What is certain of a selection while the callback thread changes the    *)
(* servers, and that it chooses as Routing does while nothing changes, for *)
(* any servers, client groups and balancers.                               *)
(***************************************************************************)
EXTENDS Selection, WellFoundedInduction, TLAPS

USE SelectionAssumption

\* Each server's present status is part of the history.
Recorded == \A s \in Servers :
    /\ status[s].active \in seen[s].active
    /\ status[s].limit \in seen[s].limit
    /\ status[s].users \in seen[s].users
    /\ status[s].cmax \in seen[s].cmax
    /\ \A n \in seen[s].limit : n <= ConfSlots[s]

\* What the main thread has read of the server it looks at is part of the history, and
\* has passed the tests made so far.
LookOK ==
    /\ look.at # "first" => pick.at \in {"collect", "score"} /\ pick.i \in DOMAIN List
    /\ look.at = "slots" => pick.at = "collect"
    /\ look.at \in {"mem", "cpu"} => pick.at = "score"
    /\ pick.at = "collect" /\ look.at # "first" => Svr # nosvr /\ TRUE \in seen[Svr].active
    /\ pick.at = "collect" /\ look.at \in {"users", "cmax", "again"} =>
          \E n \in seen[Svr].limit : num_slots[Svr] < n
    /\ look.at \in {"cmax", "again"} => look.users \in seen[Svr].users
    /\ look.at = "again" => seen[Svr].cmax # {0}
    /\ pick.at = "score" /\ look.at # "first" =>
          /\ (Svr \in Redundant) = pick.round
          /\ look.limit \in seen[Svr].limit
    /\ look.at \in {"mem", "cpu"} => num_slots[Svr] < look.limit

\* Candidates passed the tests when they became candidates.
CandidatesOK ==
    /\ \A j \in DOMAIN pick.servers : MayPass(pick.servers[j]) /\ pick.servers[j] # nosvr
    /\ WasEligible

\* Server s has been looked at and failed a test, or is not to be.
Missed(s) == s = nosvr \/ MayFail(s)

\* A server of the balancer that has been looked at is a candidate or missed.
CollectedOK ==
    /\ pick.at \in {"collect", "score"} => pick.bal \in DOMAIN Balancers
    /\ pick.at \in {"collect", "score"} =>
         \A j \in DOMAIN Bal.servers :
            pick.at = "score" \/ j < pick.i =>
               \/ Missed(Bal.servers[j])
               \/ \E l \in DOMAIN pick.servers : pick.servers[l] = Bal.servers[j]

\* A candidate that has been compared is missed, unless a server has been found.
ComparedOK ==
    /\ pick.at \in {"client", "collect"} => pick.ret = None
    /\ pick.at = "score" =>
         /\ pick.ret \in Redundant => pick.round
         /\ \A l \in DOMAIN pick.servers :
              /\ pick.round /\ pick.servers[l] \notin Redundant => Missed(pick.servers[l])
              /\ l < pick.i /\ pick.ret = None /\ (pick.servers[l] \in Redundant) = pick.round
                   => Missed(pick.servers[l])

SInv == TypeOK /\ Recorded /\ LookOK /\ CandidatesOK /\ CollectedOK /\ ComparedOK /\ InOrder

\* What is to be read first is nothing.
LEMMA FreshType == Fresh \in LookRec /\ Fresh.at = "first"
<1>1. <<0, 1>> \in Int \X Int
  OBVIOUS
<1> QED
  BY <1>1 DEF Fresh, LookRec

\* No server has been looked at yet.
LEMMA FreshLook == look.at = "first" => LookOK
BY DEF LookOK

LEMMA InitSInv == Init => SInv
<1> SUFFICES ASSUME Init PROVE SInv
  OBVIOUS
<1>1. TypeOK
  <2>1. status \in [Servers -> StatusRec]
    <3>1. [active : BOOLEAN, limit : 1 .. MaxSlots, users : 0 .. MaxUsers, cmax : 0 .. MaxUsers,
           mem : Percent \cup {None}, cpu : Percent \cup {None}] \subseteq StatusRec
      BY DEF StatusRec
    <3> QED
      BY <3>1 DEF Init
  <2>2. pick \in PickRec
    BY DEF Init, PickRec
  <2>3. nosvr \in Servers \cup {None} /\ look \in LookRec
    BY FreshType DEF Init
  <2>4. num_slots \in [Servers -> Nat] /\ client_slots \in [Clients -> Nat]
    BY DEF Init
  <2>5. seen \in [Servers -> SeenRec]
    <3>1. \A s \in Servers : Now(s) \in SeenRec
      BY <2>1 DEF StatusRec, Now, SeenRec
    <3> QED
      BY <3>1 DEF Init
  <2> QED
    BY <2>1, <2>2, <2>3, <2>4, <2>5 DEF Init, TypeOK
<1>2. Recorded
  BY DEF Init, Recorded, Now
<1>3. pick.ret = None /\ pick.servers = <<>> /\ pick.at = "client" /\ Passed = {}
  BY DEF Init, Passed
<1>4. CandidatesOK
  BY <1>3 DEF CandidatesOK, WasEligible
<1>5. CollectedOK /\ ComparedOK
  BY <1>3 DEF CollectedOK, ComparedOK
<1>6. InOrder
  BY <1>3 DEF InOrder
<1>7. LookOK
  BY FreshType, FreshLook DEF Init
<1> QED
  BY <1>1, <1>2, <1>4, <1>5, <1>6, <1>7 DEF SInv

LEMMA MinOfIndexes ==
    ASSUME NEW J \in SUBSET Nat, J # {}
    PROVE  Min(J) \in J
<1>1. \E x \in J : \A y \in J : ~(<<y, x>> \in OpToRel(<, Nat))
  BY NatLessThanWellFounded, WFMin
<1>2. PICK x \in J : \A y \in J : ~(<<y, x>> \in OpToRel(<, Nat))
  BY <1>1
<1>3. \A y \in J : ~(y < x)
  BY <1>2 DEF OpToRel
<1>4. \E j \in J : \A k \in J : j <= k
  BY <1>3
<1> QED
  BY <1>4 DEF Min

LEMMA Percents == Percent \subseteq Int
<1>1. Percent \in SUBSET (0 .. 100)
  BY SelectionAssumption
<1>2. 0 .. 100 \subseteq Int
  OBVIOUS
<1> QED
  BY <1>1, <1>2, Zenon

LEMMA AverageType ==
    ASSUME NEW x \in Int \X Int, NEW y \in Int \X Int
    PROVE  Average(x, y) \in Int \X Int
  BY DEF Average

\* The figures of a server are numbers, if they are valid.
LEMMA FigureTypes ==
    ASSUME TypeOK, NEW s \in Servers
    PROVE  /\ num_slots[s] \in Nat /\ status[s].limit \in Nat \ {0} /\ Weight[s] \in Int
           /\ status[s].users \in Nat /\ status[s].cmax \in Nat
           /\ status[s].mem # None => status[s].mem \in Int
           /\ status[s].cpu # None => status[s].cpu \in Int
<1>1. status[s] \in StatusRec /\ num_slots[s] \in Nat
  BY DEF TypeOK
<1>2. /\ status[s].mem \in Percent \cup {None} /\ status[s].cpu \in Percent \cup {None}
      /\ status[s].limit \in Nat \ {0} /\ status[s].users \in Nat /\ status[s].cmax \in Nat
  BY <1>1 DEF StatusRec
<1>3. Percent \subseteq Int
  BY Percents
<1>4. Weight[s] \in Int
  <2>1. Weight \in [Servers -> 1 .. 100]
    BY SelectionAssumption
  <2>2. 1 .. 100 \subseteq Int
    OBVIOUS
  <2> QED
    BY <2>1, <2>2, Zenon
<1> QED
  BY <1>1, <1>2, <1>3, <1>4

\* Each part of a score is a pair of numbers.
LEMMA PartTypes ==
    ASSUME TypeOK, NEW b \in BalancerRec, NEW s \in Servers
    PROVE  /\ WithMem(b, s) \in Int \X Int
           /\ \A x \in Int \X Int : WithCpu(b, s, x) \in Int \X Int
           /\ \A x \in Int \X Int, n \in Nat : WithCapacity(b, s, n, x) \in Int \X Int
<1>1. \A m, x : (m # None => m \in Int) /\ x \in Int \X Int => Blend(m, x) \in Int \X Int
  <2>1. SUFFICES ASSUME NEW m, m # None => m \in Int, NEW x \in Int \X Int
                 PROVE  Blend(m, x) \in Int \X Int
    OBVIOUS
  <2>2. m # None => <<m, 1>> \in Int \X Int
    BY <2>1
  <2> QED
    BY <2>1, <2>2, AverageType DEF Blend
<1>2. WithMem(b, s) \in Int \X Int
  <2>1. <<Weight[s], 1>> \in Int \X Int
    BY FigureTypes
  <2> QED
    BY <1>1, <2>1, FigureTypes DEF WithMem
<1>3. \A x \in Int \X Int : WithCpu(b, s, x) \in Int \X Int
  BY <1>1, FigureTypes DEF WithCpu
<1>4. ASSUME NEW x \in Int \X Int, NEW n \in Nat PROVE WithCapacity(b, s, n, x) \in Int \X Int
  <2>1. Capacity(b, s, n) \in Int \X Int
    <3>1. num_slots[s] \in Nat
      BY FigureTypes
    <3> QED
      BY <3>1, SMTT(40) DEF Capacity
  <2> QED
    BY <1>4, <2>1, AverageType DEF WithCapacity
<1> QED
  BY <1>2, <1>3, <1>4

\* The balancer that is tried, and its servers.
LEMMA BalTypes ==
    ASSUME pick.bal \in DOMAIN Balancers
    PROVE  /\ Bal \in BalancerRec
           /\ \A j \in DOMAIN Bal.servers : Bal.servers[j] \in Servers
           /\ \A j \in DOMAIN Bal.clients : Bal.clients[j] \in Clients
           /\ Bal.servers \in Seq(Servers)
           /\ ServersOf(pick.bal) = {Bal.servers[j] : j \in DOMAIN Bal.servers}
<1>1. Bal \in BalancerRec
  BY DEF Bal
<1>2. ServersOf(pick.bal) = {Bal.servers[j] : j \in DOMAIN Bal.servers}
  BY DEF Bal, ServersOf, Range
<1>3. Bal.servers \in Seq(Servers) /\ Bal.clients \in Seq(Clients)
  BY <1>1 DEF BalancerRec
<1> QED
  BY <1>1, <1>2, <1>3

\* What a step that only moves the main thread leaves as it was.
LEMMA OthersKeep ==
    ASSUME SInv, Others
    PROVE  /\ Recorded'
           /\ \A s : Missed(s)' = Missed(s) /\ MayFail(s)' = MayFail(s) /\ MayPass(s)' = MayPass(s)
           /\ \A b : Admitting(b)' = Admitting(b)
           /\ \A s \in Servers : Eligible(s)' = Eligible(s)
           /\ pick' \in PickRec /\ look' \in LookRec => TypeOK'
<1>1. UNCHANGED <<status, num_slots, client_slots, nosvr, seen, quiet>>
  BY DEF Others
<1>2. \A s : LimitsRead(s)' = LimitsRead(s)
  BY <1>1 DEF LimitsRead
<1>3. \A s : MayFail(s)' = MayFail(s) /\ MayPass(s)' = MayPass(s)
  BY <1>1, <1>2 DEF MayFail, MayPass
<1>4. \A s : Missed(s)' = Missed(s)
  BY <1>1, <1>3 DEF Missed
<1> QED
  BY <1>1, <1>3, <1>4 DEF SInv, Recorded, Admitting, Eligible, TypeOK

\* A server that cannot be read to have passed the test of its users is missed, and a
\* test of a limit that was there is passed or missed.
LEMMA TestedUsers ==
    ASSUME SInv, NEW s \in Servers, NEW u \in seen[s].users, NEW n \in LimitsRead(s)
    PROVE  /\ ~ (u < n) => Missed(s)
           /\ u \in Nat /\ n \in Nat
<1>1. seen[s] \in SeenRec
  BY DEF SInv, TypeOK
<1>2. seen[s].users \subseteq Nat /\ seen[s].cmax \subseteq Nat
  BY <1>1 DEF SeenRec
<1>3. LimitsRead(s) \subseteq Nat
  BY <1>2 DEF LimitsRead, UserLimit
<1>4. u \in Nat /\ n \in Nat
  BY <1>2, <1>3
<1>5. ~ (u < n) => u >= n
  BY <1>4
<1> QED
  BY <1>4, <1>5 DEF Missed, MayFail

LEMMA TestedSlots ==
    ASSUME SInv, NEW s \in Servers, NEW n \in seen[s].limit
    PROVE  /\ ~ (num_slots[s] < n) => Missed(s)
           /\ n \in Nat /\ num_slots[s] \in Nat /\ ConfSlots[s] \in Nat /\ n <= ConfSlots[s]
<1>1. seen[s] \in SeenRec /\ num_slots[s] \in Nat
  BY DEF SInv, TypeOK
<1>2. n \in Nat
  BY <1>1 DEF SeenRec
<1>3. ~ (num_slots[s] < n) => num_slots[s] >= n
  BY <1>1, <1>2
<1>4. n <= ConfSlots[s] /\ ConfSlots[s] \in Nat
  BY DEF SInv, Recorded
<1> QED
  BY <1>1, <1>2, <1>3, <1>4 DEF Missed, MayFail

\* A step that only moves on to another read.
LEMMA GoOnKeeps ==
    ASSUME SInv, Others, NEW next \in LookRec, GoOn(next), LookOK'
    PROVE  SInv'
<1>1. UNCHANGED <<status, num_slots, client_slots, nosvr, seen, quiet, pick>> /\ look' \in LookRec
  BY DEF Others, GoOn
<1>2. TypeOK' /\ Recorded'
  BY <1>1, OthersKeep DEF SInv, TypeOK
<1>3. CandidatesOK'
  BY <1>1, OthersKeep DEF SInv, CandidatesOK, WasEligible
<1>4. CollectedOK' /\ ComparedOK'
  BY <1>1, OthersKeep DEF SInv, CollectedOK, ComparedOK, Bal
<1>5. InOrder'
  BY <1>1, OthersKeep DEF SInv, InOrder, Passed
<1> QED
  BY <1>2, <1>3, <1>4, <1>5 DEF SInv

LEMMA FindClientKeeps ==
    ASSUME SInv, FindClient
    PROVE  SInv'
<1>1. /\ pick \in PickRec /\ pick.at = "client" /\ pick.bal \in DOMAIN Balancers /\ pick.ret = None
      /\ look' = look /\ look' \in LookRec /\ look'.at = "first"
  BY DEF SInv, TypeOK, FindClient, ComparedOK, LookOK
<1>0. LookOK'
  BY <1>1 DEF LookOK
<1>2. CASE Admitting(Bal) = {}
  <2>1. pick' = [pick EXCEPT !.bal = @ + 1] /\ Others
    BY <1>2 DEF FindClient
  <2>2. /\ pick' \in PickRec /\ pick'.bal = pick.bal + 1 /\ pick'.at = "client"
        /\ pick'.ret = None /\ pick'.servers = pick.servers
    <3>1. pick.bal + 1 \in Nat \ {0}
      BY <1>1 DEF PickRec
    <3> QED
      BY <1>1, <2>1, <3>1 DEF PickRec
  <2>3. \A b \in Passed' : b = pick.bal \/ b \in Passed
    BY <1>1, <2>2 DEF Passed, PickRec
  <2>4. InOrder'
    <3>1. \A b \in Passed' : Admitting(Balancers[b]) # {} => b \in Passed
      BY <1>2, <2>3 DEF Bal
    <3>2. pick'.ret \notin Redundant
      BY <2>2
    <3> QED
      BY <2>1, <3>1, <3>2, OthersKeep DEF SInv, InOrder, Others
  <2>5. CandidatesOK'
    BY <2>1, <2>2, OthersKeep DEF SInv, CandidatesOK, WasEligible, Others
  <2>6. CollectedOK' /\ ComparedOK'
    BY <2>2 DEF CollectedOK, ComparedOK
  <2> QED
    BY <1>0, <1>1, <2>1, <2>2, <2>4, <2>5, <2>6, OthersKeep DEF SInv
<1>3. CASE Admitting(Bal) # {}
  <2> DEFINE k == Bal.clients[Min(Admitting(Bal))]
  <2>1. /\ pick' = [pick EXCEPT !.at = "collect", !.i = 1, !.client = k]
        /\ Others
    BY <1>3 DEF FindClient
  <2>2. k \in Clients
    <3>1. Admitting(Bal) \subseteq DOMAIN Bal.clients /\ DOMAIN Bal.clients \subseteq Nat
      BY <1>1, BalTypes DEF Admitting, BalancerRec
    <3>2. Min(Admitting(Bal)) \in Admitting(Bal)
      BY <1>3, <3>1, MinOfIndexes
    <3> QED
      BY <1>1, <3>1, <3>2, BalTypes
  <2> HIDE DEF k
  <2>3. /\ pick' \in PickRec /\ pick'.at = "collect" /\ pick'.bal = pick.bal /\ pick'.i = 1
        /\ pick'.ret = None /\ pick'.servers = pick.servers
    <3>1. k \in Clients \cup {None} /\ 1 \in Nat \ {0}
      BY <2>2
    <3> QED
      BY <1>1, <2>1, <3>1 DEF PickRec
  <2>4. Bal' = Bal /\ DOMAIN Bal.servers \subseteq Nat \ {0}
    BY <1>1, <2>3, BalTypes DEF Bal
  <2>5. CollectedOK' /\ ComparedOK'
    BY <1>1, <2>3, <2>4 DEF CollectedOK, ComparedOK
  <2>6. CandidatesOK'
    BY <2>1, <2>3, OthersKeep DEF SInv, CandidatesOK, WasEligible, Others
  <2>7. InOrder'
    BY <1>1, <2>1, <2>3, OthersKeep DEF SInv, InOrder, Others, Passed
  <2> QED
    BY <1>0, <1>1, <2>1, <2>3, <2>5, <2>6, <2>7, OthersKeep DEF SInv
<1> QED
  BY <1>2, <1>3

LEMMA Before ==
    ASSUME NEW S, NEW q \in Seq(S), NEW i \in Nat \ {0}, i \notin DOMAIN q
    PROVE  \A j \in DOMAIN q : j < i
  OBVIOUS

\* The server the main thread looks at.
LEMMA LookingAt ==
    ASSUME SInv, pick.at \in {"collect", "score"}, pick.i \in DOMAIN List
    PROVE  /\ pick \in PickRec /\ pick.bal \in DOMAIN Balancers /\ TypeOK
           /\ pick.servers \in Seq(Servers) /\ pick.i \in Nat \ {0} /\ pick.i + 1 \in Nat \ {0}
           /\ DOMAIN pick.servers \subseteq Nat /\ DOMAIN Bal.servers \subseteq Nat
           /\ pick.round \in BOOLEAN /\ Svr \in Servers
           /\ pick.at = "collect" => pick.i \in DOMAIN Bal.servers /\ Svr = Bal.servers[pick.i]
           /\ pick.at = "score" => pick.i \in DOMAIN pick.servers /\ Svr = pick.servers[pick.i]
<1>1. /\ pick \in PickRec /\ pick.bal \in DOMAIN Balancers /\ TypeOK
  BY DEF SInv, TypeOK, CollectedOK
<1>2. /\ pick.servers \in Seq(Servers) /\ pick.i \in Nat \ {0} /\ pick.i + 1 \in Nat \ {0}
      /\ DOMAIN pick.servers \subseteq Nat /\ pick.round \in BOOLEAN
  BY <1>1 DEF PickRec
<1>3. Bal.servers \in Seq(Servers) /\ DOMAIN Bal.servers \subseteq Nat
  BY <1>1, BalTypes
<1>4. CASE pick.at = "collect"
  BY <1>1, <1>2, <1>3, <1>4, BalTypes DEF List, Svr
<1>5. CASE pick.at = "score"
  BY <1>1, <1>2, <1>3, <1>5 DEF List, Svr
<1> QED
  BY <1>4, <1>5

\* The next server, if this one is missed or not of the round.
LEMMA NextServerKeeps ==
    ASSUME SInv, Others, NextServer, pick.at \in {"collect", "score"}, pick.i \in DOMAIN List,
           pick.at = "collect" \/ (Svr \in Redundant) = pick.round => Missed(Svr)
    PROVE  SInv'
<1>1. pick' = [pick EXCEPT !.i = @ + 1] /\ look' = Fresh
  BY DEF NextServer
<1>2. /\ pick' \in PickRec /\ pick'.at = pick.at /\ pick'.bal = pick.bal /\ pick'.i = pick.i + 1
      /\ pick'.ret = pick.ret /\ pick'.servers = pick.servers /\ pick'.round = pick.round
  BY <1>1, LookingAt DEF PickRec
<1>3. Bal' = Bal
  BY <1>2 DEF Bal
<1>4. TypeOK' /\ Recorded' /\ LookOK'
  BY <1>1, <1>2, FreshType, OthersKeep DEF LookOK
<1>5. CandidatesOK' /\ InOrder'
  BY <1>2, OthersKeep DEF SInv, CandidatesOK, WasEligible, InOrder, Passed, Others
<1>6. CollectedOK'
  <2>1. SUFFICES ASSUME pick.at \in {"collect", "score"}, NEW j \in DOMAIN Bal.servers,
                        pick.at = "score" \/ j < pick.i + 1
                 PROVE  \/ Missed(Bal.servers[j])
                        \/ \E l \in DOMAIN pick.servers : pick.servers[l] = Bal.servers[j]
    BY <1>2, <1>3, LookingAt, OthersKeep DEF CollectedOK
  <2>2. CASE pick.at = "collect" /\ j = pick.i
    BY <2>2, LookingAt
  <2>3. CASE pick.at = "score" \/ j # pick.i
    <3>1. pick.at = "score" \/ j < pick.i
      <4>1. j \in Nat /\ pick.i \in Nat
        BY LookingAt
      <4> HIDE DEF Missed
      <4> QED
        BY <2>1, <2>3, <4>1
    <3> QED
      BY <3>1 DEF SInv, CollectedOK
  <2> QED
    BY <2>1, <2>2, <2>3
<1>7. ComparedOK'
  <2>1. ASSUME pick.at = "score", NEW l \in DOMAIN pick.servers, l < pick.i + 1, pick.ret = None,
               (pick.servers[l] \in Redundant) = pick.round
        PROVE  Missed(pick.servers[l])
    <3>1. CASE l = pick.i
      BY <2>1, <3>1, LookingAt
    <3>2. CASE l # pick.i
      <4>1. l \in Nat /\ pick.i \in Nat
        BY LookingAt
      <4>2. l < pick.i
        BY <2>1, <3>2, <4>1
      <4> QED
        BY <2>1, <4>2 DEF SInv, ComparedOK
    <3> QED
      BY <3>1, <3>2
  <2>2. /\ pick.at = "collect" => pick.ret = None
        /\ pick.at = "score" =>
             /\ pick.ret \in Redundant => pick.round
             /\ \A l \in DOMAIN pick.servers :
                   pick.round /\ pick.servers[l] \notin Redundant => Missed(pick.servers[l])
    BY DEF SInv, ComparedOK
  <2> QED
    BY <1>2, <2>1, <2>2, OthersKeep DEF ComparedOK
<1> QED
  BY <1>4, <1>5, <1>6, <1>7 DEF SInv

\* A sequence of servers with one more.
LEMMA Appended ==
    ASSUME NEW q \in Seq(Servers), NEW t \in Servers
    PROVE  /\ Append(q, t) \in Seq(Servers)
           /\ \A l \in DOMAIN q : l \in DOMAIN Append(q, t) /\ Append(q, t)[l] = q[l]
           /\ \A l \in DOMAIN Append(q, t) :
                \/ l \in DOMAIN q /\ Append(q, t)[l] = q[l]
                \/ Append(q, t)[l] = t
           /\ \E l \in DOMAIN Append(q, t) : Append(q, t)[l] = t
<1>1. Append(q, t) \in Seq(Servers)
  OBVIOUS
<1>2. \A l \in DOMAIN q : l \in DOMAIN Append(q, t) /\ Append(q, t)[l] = q[l]
  OBVIOUS
<1>3. \A l \in DOMAIN Append(q, t) : \/ l \in DOMAIN q /\ Append(q, t)[l] = q[l]
                                     \/ Append(q, t)[l] = t
  OBVIOUS
<1>4. Len(q) + 1 \in DOMAIN Append(q, t) /\ Append(q, t)[Len(q) + 1] = t
  OBVIOUS
<1> QED
  BY <1>1, <1>2, <1>3, <1>4, Zenon

\* A new candidate that passed all tests.
LEMMA CandidateKeeps ==
    ASSUME SInv, Others, pick.at = "collect", pick.i \in DOMAIN List, look' = Fresh,
           pick' = [pick EXCEPT !.i = @ + 1, !.servers = Append(@, Svr)],
           MayPass(Svr), Svr # nosvr
    PROVE  SInv'
<1> DEFINE cand == Append(pick.servers, Svr)
<1>1. /\ pick \in PickRec /\ pick.bal \in DOMAIN Balancers /\ pick.ret = None
      /\ Svr \in Servers /\ pick.servers \in Seq(Servers) /\ pick.i \in Nat \ {0}
      /\ pick.i + 1 \in Nat \ {0} /\ DOMAIN Bal.servers \subseteq Nat
      /\ Svr = Bal.servers[pick.i]
  BY LookingAt DEF SInv, ComparedOK
<1>2. /\ cand \in Seq(Servers)
      /\ \A l \in DOMAIN pick.servers : l \in DOMAIN cand /\ cand[l] = pick.servers[l]
      /\ \A l \in DOMAIN cand :
          \/ l \in DOMAIN pick.servers /\ cand[l] = pick.servers[l]
          \/ cand[l] = Svr
      /\ \E l \in DOMAIN cand : cand[l] = Svr
  <2> DEFINE q == pick.servers  t == Svr
  <2>1. q \in Seq(Servers) /\ t \in Servers
    BY <1>1
  <2> HIDE DEF q, t
  <2>2. /\ Append(q, t) \in Seq(Servers)
        /\ \A l \in DOMAIN q : l \in DOMAIN Append(q, t) /\ Append(q, t)[l] = q[l]
        /\ \A l \in DOMAIN Append(q, t) :
             \/ l \in DOMAIN q /\ Append(q, t)[l] = q[l]
             \/ Append(q, t)[l] = t
        /\ \E l \in DOMAIN Append(q, t) : Append(q, t)[l] = t
    BY <2>1, Appended
  <2> QED
    BY <2>2, Zenon DEF q, t
<1> HIDE DEF cand
<1>3. /\ pick'.at = "collect" /\ pick'.bal = pick.bal /\ pick'.i = pick.i + 1
      /\ pick'.ret = None /\ pick'.servers = cand /\ pick' \in PickRec
  <2>1. pick' = [pick EXCEPT !.i = @ + 1, !.servers = cand]
    BY <1>1 DEF cand, PickRec
  <2> QED
    BY <1>1, <1>2, <2>1 DEF PickRec
<1>4. Bal' = Bal
  BY <1>3 DEF Bal
<1>5. TypeOK' /\ Recorded' /\ LookOK'
  BY <1>3, FreshType, OthersKeep DEF LookOK
<1>6. CandidatesOK'
  <2>1. \A l \in DOMAIN cand : MayPass(cand[l]) /\ cand[l] # nosvr
    BY <1>2 DEF SInv, CandidatesOK
  <2>2. UNCHANGED nosvr
    BY DEF Others
  <2> QED
    BY <1>3, <2>1, <2>2, OthersKeep DEF CandidatesOK, WasEligible
<1>7. CollectedOK'
  <2>1. ASSUME NEW j \in DOMAIN Bal.servers, j < pick.i + 1
        PROVE  Missed(Bal.servers[j]) \/ \E l \in DOMAIN cand : cand[l] = Bal.servers[j]
    <3>2. CASE j = pick.i
      BY <1>1, <1>2, <3>2
    <3>3. CASE j # pick.i
      <4>1. j < pick.i
        <5>1. j \in Nat /\ pick.i \in Nat
          BY <1>1
        <5> QED
          BY <2>1, <3>3, <5>1
      <4>2. \/ Missed(Bal.servers[j])
            \/ \E l \in DOMAIN pick.servers : pick.servers[l] = Bal.servers[j]
        BY <1>1, <4>1 DEF SInv, CollectedOK
      <4> QED
        BY <1>2, <4>2
    <3> QED
      BY <3>2, <3>3
  <2>2. \A x : Missed(x)' = Missed(x)
    BY OthersKeep
  <2>3. /\ pick'.at = "collect" /\ pick'.bal \in DOMAIN Balancers /\ pick'.i = pick.i + 1
        /\ pick'.servers = cand
    BY <1>1, <1>3
  <2> QED
    BY <1>4, <2>1, <2>2, <2>3 DEF CollectedOK
<1>8. ComparedOK'
  BY <1>3 DEF ComparedOK
<1>9. InOrder'
  BY <1>1, <1>3, OthersKeep DEF SInv, InOrder, Passed, Others
<1> QED
  BY <1>5, <1>6, <1>7, <1>8, <1>9 DEF SInv

\* The server and what is known of it stay, when only the next read changes.
LEMMA SameServer ==
    ASSUME SInv, Others, UNCHANGED pick
    PROVE  /\ Svr' = Svr /\ List' = List /\ seen' = seen /\ nosvr' = nosvr /\ num_slots' = num_slots
  BY DEF Others, Svr, List, Bal

LEMMA TestActiveKeeps ==
    ASSUME SInv, TestActive
    PROVE  SInv'
<1>1. /\ pick.at = "collect" /\ pick.i \in DOMAIN List /\ look.at = "first" /\ Others
      /\ look \in LookRec
  BY DEF TestActive, Looking, SInv, TypeOK
<1>2. CASE Svr # nosvr /\ status[Svr].active
  <2> DEFINE next == [look EXCEPT !.at = "slots"]
  <2>1. GoOn(next) /\ next \in LookRec /\ next.at = "slots"
    BY <1>1, <1>2 DEF TestActive, LookRec
  <2> HIDE DEF next
  <2>2. look' = next /\ pick' = pick
    BY <2>1 DEF GoOn
  <2>3. TRUE \in seen[Svr].active
    <3>1. Svr \in Servers
      BY <1>1, LookingAt
    <3>2. status[Svr].active \in seen[Svr].active /\ status[Svr].active \in BOOLEAN
      BY <3>1 DEF SInv, Recorded, TypeOK, StatusRec
    <3> QED
      BY <1>2, <3>2
  <2>4. LookOK'
    BY <1>1, <1>2, <2>1, <2>2, <2>3, SameServer DEF LookOK
  <2> QED
    BY <1>1, <2>1, <2>4, GoOnKeeps
<1>3. CASE ~ (Svr # nosvr /\ status[Svr].active)
  <2>1. NextServer
    BY <1>3 DEF TestActive
  <2>2. Missed(Svr)
    <3>1. Svr \in Servers
      BY <1>1, LookingAt
    <3>2. status[Svr].active \in seen[Svr].active /\ status[Svr].active \in BOOLEAN
      BY <3>1 DEF SInv, Recorded, TypeOK, StatusRec
    <3> QED
      BY <1>3, <3>2 DEF Missed, MayFail
  <2> QED
    BY <1>1, <2>1, <2>2, NextServerKeeps
<1> QED
  BY <1>2, <1>3

LEMMA TestSlotsKeeps ==
    ASSUME SInv, TestSlots
    PROVE  SInv'
<1>1. /\ pick.at = "collect" /\ pick.i \in DOMAIN List /\ look.at = "slots" /\ Others
      /\ look \in LookRec
  BY DEF TestSlots, Looking, SInv, TypeOK
<1>2. Svr \in Servers /\ status[Svr].limit \in seen[Svr].limit
  BY <1>1, LookingAt DEF SInv, Recorded
<1>3. CASE num_slots[Svr] < status[Svr].limit
  <2> DEFINE next == [look EXCEPT !.at = "users"]
  <2>1. GoOn(next) /\ next \in LookRec /\ next.at = "users"
    BY <1>1, <1>3 DEF TestSlots, LookRec
  <2> HIDE DEF next
  <2>2. look' = next /\ pick' = pick
    BY <2>1 DEF GoOn
  <2>3. \E n \in seen[Svr].limit : num_slots[Svr] < n
    BY <1>2, <1>3
  <2>4. Svr # nosvr /\ TRUE \in seen[Svr].active
    BY <1>1 DEF SInv, LookOK
  <2>5. LookOK'
    BY <1>1, <2>1, <2>2, <2>3, <2>4, SameServer DEF LookOK
  <2> QED
    BY <1>1, <2>1, <2>5, GoOnKeeps
<1>4. CASE ~ (num_slots[Svr] < status[Svr].limit)
  <2>1. NextServer
    BY <1>4 DEF TestSlots
  <2>2. Missed(Svr)
    BY <1>2, <1>4, TestedSlots
  <2> QED
    BY <1>1, <2>1, <2>2, NextServerKeeps
<1> QED
  BY <1>3, <1>4

LEMMA ReadSlotsKeeps ==
    ASSUME SInv, ReadSlots
    PROVE  SInv'
<1>1. /\ pick.at = "score" /\ pick.i \in DOMAIN List /\ look.at = "first" /\ Others
      /\ look \in LookRec
  BY DEF ReadSlots, Looking, SInv, TypeOK
<1>2. /\ Svr \in Servers /\ status[Svr].limit \in seen[Svr].limit /\ status[Svr].limit \in Nat
  <2>1. Svr \in Servers /\ TypeOK
    BY <1>1, LookingAt
  <2>2. status[Svr].limit \in Nat
    BY <2>1, FigureTypes
  <2> QED
    BY <2>1, <2>2 DEF SInv, Recorded
<1>3. CASE (Svr \in Redundant) = pick.round
  <2> DEFINE next == [look EXCEPT !.at = "users", !.limit = status[Svr].limit]
  <2>1. GoOn(next) /\ next \in LookRec /\ next.at = "users" /\ next.limit = status[Svr].limit
    BY <1>1, <1>2, <1>3 DEF ReadSlots, LookRec
  <2> HIDE DEF next
  <2>2. look' = next /\ pick' = pick
    BY <2>1 DEF GoOn
  <2>3. LookOK'
    BY <1>1, <1>2, <1>3, <2>1, <2>2, SameServer DEF LookOK
  <2> QED
    BY <1>1, <2>1, <2>3, GoOnKeeps
<1>4. CASE ~ ((Svr \in Redundant) = pick.round)
  <2>1. NextServer
    BY <1>4 DEF ReadSlots
  <2> QED
    BY <1>1, <1>4, <2>1, NextServerKeeps
<1> QED
  BY <1>3, <1>4

LEMMA ReadUsersKeeps ==
    ASSUME SInv, ReadUsers
    PROVE  SInv'
<1>1. /\ look.at = "users" /\ pick.at \in {"collect", "score"} /\ pick.i \in DOMAIN List /\ Others
      /\ look \in LookRec
  BY DEF ReadUsers, SInv, TypeOK, LookOK
<1>2. /\ Svr \in Servers /\ status[Svr].users \in seen[Svr].users /\ status[Svr].users \in Nat
  <2>1. Svr \in Servers /\ TypeOK
    BY <1>1, LookingAt
  <2>2. status[Svr].users \in Nat
    BY <2>1, FigureTypes
  <2> QED
    BY <2>1, <2>2 DEF SInv, Recorded
<1> DEFINE next == [look EXCEPT !.at = "cmax", !.users = status[Svr].users]
<1>3. /\ GoOn(next) /\ next \in LookRec /\ next.at = "cmax" /\ next.users = status[Svr].users
      /\ next.limit = look.limit
  BY <1>1, <1>2 DEF ReadUsers, LookRec
<1> HIDE DEF next
<1>4. look' = next /\ pick' = pick
  BY <1>3 DEF GoOn
<1>5. /\ pick.at = "collect" => /\ Svr # nosvr /\ TRUE \in seen[Svr].active
                                /\ \E n \in seen[Svr].limit : num_slots[Svr] < n
      /\ pick.at = "score" => (Svr \in Redundant) = pick.round /\ look.limit \in seen[Svr].limit
  BY <1>1 DEF SInv, LookOK
<1>6. LookOK'
  <2>1. /\ look'.at = "cmax" /\ look'.users = status[Svr].users /\ look'.limit = look.limit
        /\ pick' = pick /\ Svr' = Svr /\ List' = List /\ seen' = seen /\ nosvr' = nosvr
        /\ num_slots' = num_slots
    BY <1>1, <1>3, <1>4, SameServer
  <2>2. CASE pick.at = "collect"
    BY <1>1, <1>2, <1>5, <2>1, <2>2 DEF LookOK
  <2>3. CASE pick.at = "score"
    BY <1>1, <1>2, <1>5, <2>1, <2>3 DEF LookOK
  <2> QED
    BY <1>1, <2>2, <2>3
<1> QED
  BY <1>1, <1>3, <1>6, GoOnKeeps

\* The test of the users, with a limit that was there.
LEMMA WithLimitKeeps ==
    ASSUME SInv, Others, look.at \in {"cmax", "again"}, NEW n \in LimitsRead(Svr), WithLimit(n)
    PROVE  SInv'
<1>1. /\ pick.at \in {"collect", "score"} /\ pick.i \in DOMAIN List /\ look \in LookRec
      /\ look.users \in seen[Svr].users
  BY DEF SInv, LookOK, TypeOK
<1>2. Svr \in Servers
  BY <1>1, LookingAt
<1>3. ~ (look.users < n) => Missed(Svr)
  BY <1>1, <1>2, TestedUsers
<1>4. CASE pick.at = "collect"
  <2>1. Collect(n)
    BY <1>4 DEF WithLimit
  <2>2. CASE look.users < n
    <3>1. MayPass(Svr) /\ Svr # nosvr
      BY <1>1, <1>4, <2>2 DEF SInv, LookOK, MayPass
    <3>2. look' = Fresh /\ pick' = [pick EXCEPT !.i = @ + 1, !.servers = Append(@, Svr)]
      BY <2>1, <2>2 DEF Collect
    <3> QED
      BY <1>1, <1>4, <3>1, <3>2, CandidateKeeps
  <2>3. CASE ~ (look.users < n)
    <3>1. NextServer
      BY <2>1, <2>3 DEF Collect
    <3> QED
      BY <1>1, <1>3, <2>3, <3>1, NextServerKeeps
  <2> QED
    BY <2>2, <2>3
<1>5. CASE pick.at = "score"
  <2>1. Recheck(n)
    BY <1>5 DEF WithLimit
  <2>2. (Svr \in Redundant) = pick.round /\ look.limit \in seen[Svr].limit
    BY <1>5 DEF SInv, LookOK
  <2>3. CASE num_slots[Svr] < look.limit /\ look.users < n
    <3> DEFINE next == [look EXCEPT !.at = "mem"]
    <3>1. GoOn(next) /\ next \in LookRec /\ next.at = "mem" /\ next.limit = look.limit
      BY <1>1, <2>1, <2>3 DEF Recheck, LookRec
    <3> HIDE DEF next
    <3>2. look' = next /\ pick' = pick
      BY <3>1 DEF GoOn
    <3>3. LookOK'
      BY <1>1, <1>5, <2>2, <2>3, <3>1, <3>2, SameServer DEF LookOK
    <3> QED
      BY <3>1, <3>3, GoOnKeeps
  <2>4. CASE ~ (num_slots[Svr] < look.limit /\ look.users < n)
    <3>1. NextServer
      BY <2>1, <2>4 DEF Recheck
    <3>2. Missed(Svr)
      BY <1>2, <1>3, <2>2, <2>4, TestedSlots
    <3> QED
      BY <1>1, <3>1, <3>2, NextServerKeeps
  <2> QED
    BY <2>3, <2>4
<1> QED
  BY <1>1, <1>4, <1>5

LEMMA ReadCmaxKeeps ==
    ASSUME SInv, ReadCmax
    PROVE  SInv'
<1>1. /\ look.at = "cmax" /\ pick.at \in {"collect", "score"} /\ pick.i \in DOMAIN List /\ Others
      /\ look \in LookRec /\ look.users \in seen[Svr].users
  BY DEF ReadCmax, SInv, TypeOK, LookOK
<1>2. Svr \in Servers /\ status[Svr].cmax \in seen[Svr].cmax
  BY <1>1, LookingAt DEF SInv, Recorded
<1>3. CASE status[Svr].cmax = 0 /\ WithLimit(MaxUsers)
  <2>1. MaxUsers \in LimitsRead(Svr)
    BY <1>2, <1>3 DEF LimitsRead, UserLimit
  <2> QED
    BY <1>1, <1>3, <2>1, WithLimitKeeps
<1>4. CASE status[Svr].cmax # 0 /\ GoOn([look EXCEPT !.at = "again"])
  <2> DEFINE next == [look EXCEPT !.at = "again"]
  <2>1. /\ GoOn(next) /\ next \in LookRec /\ next.at = "again" /\ next.users = look.users
        /\ next.limit = look.limit
    BY <1>1, <1>4 DEF LookRec
  <2> HIDE DEF next
  <2>2. look' = next /\ pick' = pick
    BY <2>1 DEF GoOn
  <2>3. seen[Svr].cmax # {0}
    BY <1>2, <1>4
  <2>4. /\ pick.at = "collect" => /\ Svr # nosvr /\ TRUE \in seen[Svr].active
                                  /\ \E n \in seen[Svr].limit : num_slots[Svr] < n
        /\ pick.at = "score" => (Svr \in Redundant) = pick.round /\ look.limit \in seen[Svr].limit
    BY <1>1 DEF SInv, LookOK
  <2>5. LookOK'
    BY <1>1, <2>1, <2>2, <2>3, <2>4, SameServer DEF LookOK
  <2> QED
    BY <1>1, <2>1, <2>5, GoOnKeeps
<1> QED
  BY <1>3, <1>4 DEF ReadCmax

LEMMA ReadAgainKeeps ==
    ASSUME SInv, ReadAgain
    PROVE  SInv'
<1>1. /\ look.at = "again" /\ pick.at \in {"collect", "score"} /\ pick.i \in DOMAIN List /\ Others
      /\ seen[Svr].cmax # {0} /\ WithLimit(status[Svr].cmax)
  BY DEF ReadAgain, SInv, LookOK
<1>2. Svr \in Servers /\ status[Svr].cmax \in seen[Svr].cmax
  BY <1>1, LookingAt DEF SInv, Recorded
<1>3. status[Svr].cmax \in LimitsRead(Svr)
  BY <1>1, <1>2 DEF LimitsRead, UserLimit
<1> QED
  BY <1>1, <1>3, WithLimitKeeps

LEMMA ReadMemKeeps ==
    ASSUME SInv, ReadMem
    PROVE  SInv'
<1>1. /\ pick.at = "score" /\ pick.i \in DOMAIN List /\ look.at = "mem" /\ Others
      /\ look \in LookRec
  BY DEF ReadMem, Looking, SInv, TypeOK
<1>2. WithMem(Bal, Svr) \in Int \X Int
  BY <1>1, LookingAt, BalTypes, PartTypes
<1> DEFINE next == [look EXCEPT !.at = "cpu", !.score = WithMem(Bal, Svr)]
<1>3. GoOn(next) /\ next \in LookRec /\ next.at = "cpu" /\ next.limit = look.limit
  BY <1>1, <1>2 DEF ReadMem, LookRec
<1> HIDE DEF next
<1>4. look' = next /\ pick' = pick
  BY <1>3 DEF GoOn
<1>5. /\ (Svr \in Redundant) = pick.round /\ look.limit \in seen[Svr].limit
      /\ num_slots[Svr] < look.limit
  BY <1>1 DEF SInv, LookOK
<1>6. LookOK'
  BY <1>1, <1>3, <1>4, <1>5, SameServer DEF LookOK
<1> QED
  BY <1>1, <1>3, <1>6, GoOnKeeps

LEMMA CollectedKeeps ==
    ASSUME SInv, Collected
    PROVE  SInv'
<1>1. /\ pick \in PickRec /\ pick.at = "collect" /\ pick.i \notin DOMAIN Bal.servers
      /\ pick.bal \in DOMAIN Balancers /\ pick.ret = None /\ Others
      /\ pick' = [pick EXCEPT !.at = "score", !.round = FALSE, !.i = 1, !.scmax = <<0, 1>>]
      /\ look' = look /\ look' \in LookRec /\ look'.at = "first"
  BY DEF SInv, TypeOK, Collected, CollectedOK, ComparedOK, LookOK, List
<1>0. LookOK'
  BY <1>1 DEF LookOK
<1>2. /\ pick'.at = "score" /\ pick'.bal = pick.bal /\ pick'.i = 1 /\ pick'.round = FALSE
      /\ pick'.ret = None /\ pick'.servers = pick.servers
  BY <1>1 DEF PickRec
<1>3. pick' \in PickRec
  <2>1. <<0, 1>> \in Int \X Int /\ 1 \in Nat \ {0}
    OBVIOUS
  <2> QED
    BY <1>1, <2>1 DEF PickRec
<1>4. Bal' = Bal /\ Bal.servers \in Seq(Servers) /\ pick.i \in Nat \ {0}
  BY <1>1, <1>2, BalTypes DEF Bal, PickRec
<1>5. \A j \in DOMAIN Bal.servers : j < pick.i
  BY <1>1, <1>4, Before
<1>6. CollectedOK'
  BY <1>1, <1>2, <1>4, <1>5, OthersKeep DEF SInv, CollectedOK
<1>7. ComparedOK'
  <2>1. pick.servers \in Seq(Servers)
    BY <1>1 DEF PickRec
  <2>2. \A l \in DOMAIN pick.servers : ~ (l < 1)
    BY <2>1
  <2>3. pick'.ret \notin Redundant
    BY <1>2
  <2> QED
    BY <1>2, <2>2, <2>3 DEF ComparedOK
<1>8. CandidatesOK' /\ InOrder'
  BY <1>1, <1>2, OthersKeep DEF SInv, CandidatesOK, WasEligible, InOrder, Passed, Others
<1> QED
  BY <1>0, <1>1, <1>3, <1>6, <1>7, <1>8, OthersKeep DEF SInv

LEMMA CompareKeeps ==
    ASSUME SInv, Compare
    PROVE  SInv'
<1> DEFINE s == Svr
           score == WithCapacity(Bal, s, look.limit, WithCpu(Bal, s, look.score))
           better == pick.ret = None \/ Greater(score, pick.scmax)
<1>0. pick.at = "score" /\ pick.i \in DOMAIN List /\ look.at = "cpu" /\ look' = Fresh
  BY DEF Compare, Looking
<1>1. /\ pick \in PickRec /\ pick.at = "score" /\ pick.i \in DOMAIN pick.servers
      /\ pick.bal \in DOMAIN Balancers /\ Others /\ TypeOK
      /\ pick' = IF better THEN [pick EXCEPT !.i = @ + 1, !.ret = s, !.scmax = score]
                 ELSE [pick EXCEPT !.i = @ + 1]
  BY <1>0, LookingAt DEF Compare
<1>2. /\ pick.servers \in Seq(Servers) /\ pick.i \in Nat \ {0} /\ pick.i + 1 \in Nat \ {0}
      /\ DOMAIN pick.servers \subseteq Nat /\ pick.round \in BOOLEAN
  BY <1>1, SMTT(40) DEF PickRec
<1>3. s \in Servers /\ s = pick.servers[pick.i]
  BY <1>0, LookingAt
<1>4. score \in Int \X Int
  <2>1. look.score \in Int \X Int /\ look.limit \in Nat
    BY <1>1 DEF TypeOK, LookRec
  <2> QED
    BY <1>1, <1>3, <2>1, BalTypes, PartTypes
<1> HIDE DEF s, score
<1>5. /\ pick' \in PickRec /\ pick'.at = "score" /\ pick'.bal = pick.bal
      /\ pick'.i = pick.i + 1 /\ pick'.servers = pick.servers /\ pick'.round = pick.round
      /\ pick'.ret = IF better THEN s ELSE pick.ret
  <2>1. CASE better
    <3> HIDE DEF better
    <3> QED
      BY <1>1, <1>2, <1>3, <1>4, <2>1 DEF PickRec
  <2>2. CASE ~better
    <3> HIDE DEF better
    <3> QED
      BY <1>1, <1>2, <2>2 DEF PickRec
  <2> QED
    BY <2>1, <2>2
<1>6. Bal' = Bal
  BY <1>5 DEF Bal
<1>61. LookOK'
  BY <1>0, <1>5, FreshType DEF LookOK
<1>7. CollectedOK'
  BY <1>1, <1>5, <1>6, OthersKeep DEF SInv, CollectedOK
<1>8. CandidatesOK'
  <2>1. MayPass(s) /\ s # nosvr
    BY <1>1, <1>3 DEF SInv, CandidatesOK
  <2>2. num_slots[s] < ConfSlots[s]
    <3>1. look.limit \in seen[s].limit /\ num_slots[s] < look.limit
      BY <1>0 DEF SInv, LookOK, s
    <3>2. /\ num_slots[s] \in Nat /\ look.limit \in Nat /\ ConfSlots[s] \in Nat
          /\ look.limit <= ConfSlots[s]
      BY <1>3, <3>1, TestedSlots
    <3> QED
      BY <3>1, <3>2
  <2> HIDE DEF better
  <2> QED
    BY <1>1, <1>5, <2>1, <2>2, OthersKeep DEF SInv, CandidatesOK, WasEligible, Others
<1>9. (s \in Redundant) <=> pick.round
  BY <1>0, <1>2 DEF SInv, LookOK, s
<1>10. ComparedOK'
  <2>1. pick'.ret \in Redundant => pick'.round
    BY <1>1, <1>5, <1>9 DEF SInv, ComparedOK
  <2>2. ASSUME NEW l \in DOMAIN pick.servers, pick.round, pick.servers[l] \notin Redundant
        PROVE  Missed(pick.servers[l])
    BY <1>1, <2>2 DEF SInv, ComparedOK
  <2>3. ASSUME NEW l \in DOMAIN pick.servers, l < pick.i + 1, pick'.ret = None,
               (pick.servers[l] \in Redundant) = pick.round
        PROVE  Missed(pick.servers[l])
    <3>1. pick.ret = None /\ ~better
      BY <1>3, <1>5, <2>3
    <3> QED
      BY <3>1
  <2> HIDE DEF better
  <2> QED
    BY <1>1, <1>5, <2>1, <2>2, <2>3, OthersKeep DEF ComparedOK
<1>11. InOrder'
  <2>1. \A b \in Passed' : b \in Passed
    BY <1>5 DEF Passed
  <2>2. ASSUME pick'.ret \in Redundant
        PROVE  \A t \in ServersOf(pick.bal) \ (Redundant \cup {nosvr}) : MayFail(t)
    <3>1. pick.round
      BY <1>1, <1>5, <1>9, <2>2 DEF SInv, ComparedOK
    <3>2. SUFFICES ASSUME NEW j \in DOMAIN Bal.servers, Bal.servers[j] \notin Redundant
                   PROVE  Missed(Bal.servers[j])
      BY <1>1, BalTypes DEF Missed
    <3>3. CASE \E l \in DOMAIN pick.servers : pick.servers[l] = Bal.servers[j]
      BY <1>1, <3>1, <3>2, <3>3 DEF SInv, ComparedOK
    <3>4. CASE ~ \E l \in DOMAIN pick.servers : pick.servers[l] = Bal.servers[j]
      BY <1>1, <3>4 DEF SInv, CollectedOK
    <3> QED
      BY <3>3, <3>4
  <2> HIDE DEF better
  <2> QED
    BY <1>1, <1>5, <2>1, <2>2, OthersKeep DEF SInv, InOrder, Others
<1> HIDE DEF better
<1> QED
  BY <1>0, <1>1, <1>5, <1>61, <1>7, <1>8, <1>10, <1>11, FreshType, OthersKeep DEF SInv

LEMMA ComparedKeeps ==
    ASSUME SInv, Compared
    PROVE  SInv'
<1>1. /\ pick \in PickRec /\ pick.at = "score" /\ pick.i \notin DOMAIN pick.servers
      /\ pick.bal \in DOMAIN Balancers /\ Others
      /\ look' = look /\ look' \in LookRec /\ look'.at = "first"
  BY DEF SInv, TypeOK, Compared, CollectedOK, LookOK, List
<1>0. LookOK'
  BY <1>1 DEF LookOK
<1>2. /\ pick.servers \in Seq(Servers) /\ pick.i \in Nat \ {0} /\ pick.bal \in Nat \ {0}
      /\ pick.round \in BOOLEAN
  BY <1>1 DEF PickRec
<1>3. \A l \in DOMAIN pick.servers : l < pick.i
  BY <1>1, <1>2, Before
<1>4. CASE pick.ret # None
  <2>1. pick' = [pick EXCEPT !.at = "done"]
    BY <1>4 DEF Compared
  <2>2. /\ pick' \in PickRec /\ pick'.at = "done" /\ pick'.ret = pick.ret
        /\ pick'.bal = pick.bal /\ pick'.servers = pick.servers
    BY <1>1, <2>1 DEF PickRec
  <2>3. CandidatesOK' /\ CollectedOK' /\ ComparedOK' /\ InOrder'
    BY <1>1, <2>2, OthersKeep, SMTT(40) DEF SInv, CandidatesOK, WasEligible, CollectedOK, ComparedOK,
                                  InOrder, Passed, Others
  <2> QED
    BY <1>0, <1>1, <2>2, <2>3, OthersKeep DEF SInv
<1>5. CASE pick.ret = None /\ ~pick.round
  <2>1. pick' = [pick EXCEPT !.round = TRUE, !.i = 1, !.scmax = <<0, 1>>]
    BY <1>5 DEF Compared
  <2>2. <<0, 1>> \in Int \X Int /\ 1 \in Nat \ {0}
    OBVIOUS
  <2>3. /\ pick' \in PickRec /\ pick'.at = "score" /\ pick'.ret = None /\ pick'.round /\ pick'.i = 1
        /\ pick'.bal = pick.bal /\ pick'.servers = pick.servers
    BY <1>1, <1>5, <2>1, <2>2 DEF PickRec
  <2>4. Bal' = Bal
    BY <2>3 DEF Bal
  <2>5. CandidatesOK' /\ InOrder'
    BY <1>1, <1>5, <2>3, OthersKeep DEF SInv, CandidatesOK, WasEligible, InOrder, Passed, Others
  <2>6. CollectedOK'
    BY <1>1, <2>3, <2>4, OthersKeep DEF SInv, CollectedOK
  <2>7. ComparedOK'
    <3>1. ASSUME NEW l \in DOMAIN pick.servers, pick.servers[l] \notin Redundant
          PROVE  Missed(pick.servers[l])
      BY <1>1, <1>2, <1>3, <1>5, <3>1 DEF SInv, ComparedOK
    <3>2. \A l \in DOMAIN pick.servers : ~ (l < 1)
      BY <1>2
    <3> QED
      BY <1>1, <2>3, <3>1, <3>2, OthersKeep DEF ComparedOK
  <2> QED
    BY <1>0, <1>1, <2>3, <2>5, <2>6, <2>7, OthersKeep DEF SInv
<1>6. CASE pick.ret = None /\ pick.round
  <2>1. pick' = [pick EXCEPT !.at = "client", !.bal = @ + 1]
    BY <1>6 DEF Compared
  <2>2. /\ pick' \in PickRec /\ pick'.at = "client" /\ pick'.ret = None
        /\ pick'.bal = pick.bal + 1 /\ pick'.servers = pick.servers
    <3>1. pick.bal + 1 \in Nat \ {0}
      BY <1>2
    <3> QED
      BY <1>1, <1>6, <2>1, <3>1 DEF PickRec
  <2>3. CandidatesOK' /\ CollectedOK' /\ ComparedOK'
    BY <1>1, <2>2, OthersKeep DEF SInv, CandidatesOK, WasEligible, CollectedOK, ComparedOK, Others
  <2>4. \A t \in ServersOf(pick.bal) \ {nosvr} : MayFail(t)
    <3>1. \A l \in DOMAIN pick.servers : Missed(pick.servers[l])
      BY <1>1, <1>2, <1>3, <1>6 DEF SInv, ComparedOK
    <3>2. \A j \in DOMAIN Bal.servers : Missed(Bal.servers[j])
      BY <1>1, <3>1 DEF SInv, CollectedOK
    <3> QED
      BY <1>1, <3>2, BalTypes DEF Missed
  <2>5. \A b \in Passed' : b = pick.bal \/ b \in Passed
    BY <1>1, <1>2, <2>2 DEF Passed
  <2>6. InOrder'
    <3>1. pick'.ret \notin Redundant
      BY <2>2
    <3> QED
      BY <1>1, <2>4, <2>5, <3>1, OthersKeep DEF SInv, InOrder, Others
  <2> QED
    BY <1>0, <1>1, <2>2, <2>3, <2>6, OthersKeep DEF SInv
<1> QED
  BY <1>2, <1>4, <1>5, <1>6

LEMMA GiveUpKeeps ==
    ASSUME SInv, GiveUp
    PROVE  SInv'
<1>1. /\ pick \in PickRec /\ pick.at = "client" /\ Others /\ pick' = [pick EXCEPT !.at = "done"]
      /\ look' = look /\ look' \in LookRec /\ look'.at = "first"
  BY DEF SInv, TypeOK, GiveUp, LookOK
<1>0. LookOK'
  BY <1>1 DEF LookOK
<1>2. /\ pick' \in PickRec /\ pick'.at = "done" /\ pick'.ret = pick.ret
      /\ pick'.bal = pick.bal /\ pick'.servers = pick.servers
  BY <1>1 DEF PickRec
<1>3. CandidatesOK'
  BY <1>1, <1>2, OthersKeep DEF SInv, CandidatesOK, WasEligible, Others
<1>4. CollectedOK' /\ ComparedOK'
  BY <1>2 DEF CollectedOK, ComparedOK
<1>5. InOrder'
  BY <1>1, <1>2, OthersKeep DEF SInv, InOrder, Passed, Others
<1> QED
  BY <1>0, <1>1, <1>2, <1>3, <1>4, <1>5, OthersKeep DEF SInv

LEMMA WriteKeeps ==
    ASSUME SInv, NEW s \in Servers, Write(s)
    PROVE  SInv'
<1>1. /\ UNCHANGED <<num_slots, client_slots, nosvr, pick, look>>
      /\ seen' = [t \in Servers |-> Both(seen[t], Now(t)')]
  BY DEF Write
<1>2. /\ status' \in [Servers -> StatusRec]
      /\ \A t \in Servers : status'[t].limit <= status[t].limit
  <2>1. ASSUME NEW rec \in StatusRec, rec.limit <= status[s].limit,
               status' = [status EXCEPT ![s] = rec]
        PROVE  /\ status' \in [Servers -> StatusRec]
               /\ \A t \in Servers : status'[t].limit <= status[t].limit
    <3>1. status \in [Servers -> StatusRec]
      BY DEF SInv, TypeOK
    <3>2. \A t \in Servers : status[t].limit \in Nat
      BY <3>1, SMTT(40) DEF StatusRec
    <3> QED
      BY <2>1, <3>1, <3>2
  <2>2. status[s] \in StatusRec /\ status \in [Servers -> StatusRec]
    BY DEF SInv, TypeOK
  <2>3. CASE status' = [status EXCEPT ![s].active = ~@]
    <3>1. [status[s] EXCEPT !.active = ~@] \in StatusRec
      BY <2>2 DEF StatusRec
    <3> QED
      BY <2>1, <2>2, <2>3, <3>1, SMTT(40) DEF StatusRec
  <2>4. ASSUME NEW n \in 0 .. MaxUsers, status' = [status EXCEPT ![s].users = n]
        PROVE  /\ status' \in [Servers -> StatusRec]
               /\ \A t \in Servers : status'[t].limit <= status[t].limit
    <3>0. n \in Nat
      OBVIOUS
    <3>1. [status[s] EXCEPT !.users = n] \in StatusRec
      BY <2>2, <3>0 DEF StatusRec
    <3> QED
      BY <2>1, <2>2, <2>4, <3>1, SMTT(40) DEF StatusRec
  <2>41. ASSUME NEW n \in 0 .. MaxUsers, status' = [status EXCEPT ![s].cmax = n]
        PROVE  /\ status' \in [Servers -> StatusRec]
               /\ \A t \in Servers : status'[t].limit <= status[t].limit
    <3>0. n \in Nat
      OBVIOUS
    <3>1. [status[s] EXCEPT !.cmax = n] \in StatusRec
      BY <2>2, <3>0 DEF StatusRec
    <3> QED
      BY <2>1, <2>2, <2>41, <3>1, SMTT(40) DEF StatusRec
  <2>5. ASSUME NEW n \in 1 .. status[s].limit - 1, status' = [status EXCEPT ![s].limit = n]
        PROVE  /\ status' \in [Servers -> StatusRec]
               /\ \A t \in Servers : status'[t].limit <= status[t].limit
    <3>1. status[s].limit \in Nat
      BY <2>2 DEF StatusRec
    <3>2. n \in Nat \ {0} /\ n <= status[s].limit
      BY <3>1
    <3>3. [status[s] EXCEPT !.limit = n] \in StatusRec
      BY <2>2, <3>2 DEF StatusRec
    <3> QED
      BY <2>1, <2>2, <2>5, <3>2, <3>3 DEF StatusRec
  <2>6. ASSUME NEW p \in Percent \cup {None}, status' = [status EXCEPT ![s].mem = p]
        PROVE  /\ status' \in [Servers -> StatusRec]
               /\ \A t \in Servers : status'[t].limit <= status[t].limit
    <3>1. [status[s] EXCEPT !.mem = p] \in StatusRec
      BY <2>2 DEF StatusRec
    <3> QED
      BY <2>1, <2>2, <2>6, <3>1 DEF StatusRec
  <2>7. ASSUME NEW p \in Percent \cup {None}, status' = [status EXCEPT ![s].cpu = p]
        PROVE  /\ status' \in [Servers -> StatusRec]
               /\ \A t \in Servers : status'[t].limit <= status[t].limit
    <3>1. [status[s] EXCEPT !.cpu = p] \in StatusRec
      BY <2>2 DEF StatusRec
    <3> QED
      BY <2>1, <2>2, <2>7, <3>1 DEF StatusRec
  <2> QED
    BY <2>3, <2>4, <2>41, <2>5, <2>6, <2>7 DEF Write
<1>21. /\ seen' \in [Servers -> SeenRec]
       /\ \A t \in Servers :
            /\ seen[t].active \subseteq seen'[t].active /\ status'[t].active \in seen'[t].active
            /\ seen[t].limit \subseteq seen'[t].limit /\ status'[t].limit \in seen'[t].limit
            /\ seen[t].users \subseteq seen'[t].users /\ status'[t].users \in seen'[t].users
            /\ seen[t].cmax \subseteq seen'[t].cmax /\ status'[t].cmax \in seen'[t].cmax
            /\ seen'[t].limit = seen[t].limit \cup {status'[t].limit}
  <2>1. ASSUME NEW t \in Servers
        PROVE  /\ Both(seen[t], Now(t)') \in SeenRec
               /\ Both(seen[t], Now(t)').active = seen[t].active \cup {status'[t].active}
               /\ Both(seen[t], Now(t)').limit = seen[t].limit \cup {status'[t].limit}
               /\ Both(seen[t], Now(t)').users = seen[t].users \cup {status'[t].users}
               /\ Both(seen[t], Now(t)').cmax = seen[t].cmax \cup {status'[t].cmax}
    <3>1. seen[t] \in SeenRec /\ status'[t] \in StatusRec
      BY <1>2 DEF SInv, TypeOK
    <3>2. Now(t)' = [active |-> {status'[t].active}, limit |-> {status'[t].limit},
                     users |-> {status'[t].users}, cmax |-> {status'[t].cmax}]
      BY DEF Now
    <3> QED
      BY <3>1, <3>2 DEF Both, SeenRec, StatusRec
  <2> DEFINE new(t) == Both(seen[t], Now(t)')
  <2>2. \A t \in Servers : seen'[t] = new(t)
    BY <1>1
  <2>3. seen' \in [Servers -> SeenRec]
    <3>1. \A t \in Servers : new(t) \in SeenRec
      BY <2>1
    <3> HIDE DEF new
    <3>2. seen' = [t \in Servers |-> new(t)]
      BY <1>1 DEF new
    <3> QED
      BY <3>1, <3>2
  <2>4. \A t \in Servers : /\ new(t).active = seen[t].active \cup {status'[t].active}
                           /\ new(t).limit = seen[t].limit \cup {status'[t].limit}
                           /\ new(t).users = seen[t].users \cup {status'[t].users}
                           /\ new(t).cmax = seen[t].cmax \cup {status'[t].cmax}
    BY <2>1
  <2> HIDE DEF new
  <2> QED
    BY <2>2, <2>3, <2>4
<1>22. \A t \in Servers : LimitsRead(t) \subseteq LimitsRead(t)'
  <2>1. ASSUME NEW t \in Servers, NEW n \in LimitsRead(t)
        PROVE  n \in LimitsRead(t)'
    <3>1. seen[t].cmax \subseteq seen'[t].cmax
      BY <1>21
    <3>2. CASE \E m \in seen[t].cmax : n = UserLimit(m)
      BY <3>1, <3>2 DEF LimitsRead, UserLimit
    <3>3. CASE n = 0 /\ n \in seen[t].cmax /\ seen[t].cmax # {0}
      <4>1. seen'[t].cmax # {0}
        BY <3>1, <3>3, SMTT(40)
      <4> QED
        BY <3>1, <3>3, <4>1 DEF LimitsRead
    <3> QED
      BY <2>1, <3>2, <3>3 DEF LimitsRead
  <2> QED
    BY <2>1
<1>23. \A t \in Servers : (MayPass(t) => MayPass(t)') /\ (MayFail(t) => MayFail(t)')
  <2>1. num_slots' = num_slots
    BY <1>1
  <2> QED
    BY <1>21, <1>22, <2>1 DEF MayPass, MayFail
<1>3. TypeOK'
  <2>1. \A t \in Servers : status'[t].limit <= ConfSlots[t]
    <3>1. ASSUME NEW t \in Servers PROVE status'[t].limit <= ConfSlots[t]
      <4>1. status'[t].limit \in Nat /\ status[t].limit \in Nat /\ ConfSlots[t] \in Nat
        BY <1>2 DEF SInv, TypeOK, StatusRec
      <4>2. status'[t].limit <= status[t].limit /\ status[t].limit <= ConfSlots[t]
        BY <1>2 DEF SInv, TypeOK
      <4> QED
        BY <4>1, <4>2
    <3> QED
      BY <3>1
  <2>2. quiet' \in BOOLEAN
    BY DEF Write
  <2> QED
    BY <1>1, <1>2, <1>21, <2>1, <2>2 DEF SInv, TypeOK
<1>4. Recorded'
  BY <1>3, <1>21 DEF SInv, Recorded, TypeOK
<1>5. /\ \A t \in Servers : Missed(t) => Missed(t)'
      /\ \A j \in DOMAIN pick.servers : pick.servers[j] \in Servers
      /\ pick.ret # None => pick.ret \in Servers
  BY <1>1, <1>23 DEF Missed, SInv, TypeOK, PickRec
<1>6. /\ pick.bal \in DOMAIN Balancers => \A j \in DOMAIN Bal.servers : Bal.servers[j] \in Servers
      /\ \A b \in DOMAIN Balancers : ServersOf(b) \subseteq Servers
  <2>1. \A b \in DOMAIN Balancers : Balancers[b].servers \in Seq(Servers)
    <3>1. \A b \in DOMAIN Balancers : Balancers[b] \in BalancerRec
      BY SelectionAssumption
    <3> QED
      BY <3>1 DEF BalancerRec
  <2> QED
    BY <2>1, BalTypes DEF ServersOf, Range
<1>7. Bal' = Bal /\ Passed' = Passed /\ \A b : Admitting(b)' = Admitting(b) /\ Svr' = Svr /\ List' = List
  BY <1>1 DEF Bal, Passed, Admitting, Svr, List
<1>8. CandidatesOK'
  BY <1>1, <1>5, <1>23 DEF SInv, CandidatesOK, WasEligible
<1>9. CollectedOK'
  BY <1>1, <1>5, <1>6, <1>7 DEF SInv, CollectedOK
<1>10. ComparedOK'
  BY <1>1, <1>5 DEF SInv, ComparedOK
<1>11. InOrder'
  <2>1. \A b \in Passed : b \in DOMAIN Balancers
    BY DEF Passed
  <2>2. ASSUME NEW b \in Passed, Admitting(Balancers[b]) # {}, NEW t \in ServersOf(b) \ {nosvr}
        PROVE  MayFail(t)'
    BY <1>6, <1>23, <2>1, <2>2 DEF SInv, InOrder
  <2>3. ASSUME pick.ret \in Redundant, NEW t \in ServersOf(pick.bal) \ (Redundant \cup {nosvr})
        PROVE  MayFail(t)'
    <3>1. MayFail(t)
      BY <2>3 DEF SInv, InOrder
    <3>2. pick.bal \in DOMAIN Balancers
      <4>1. pick.at \notin {"done", "client", "collect"} /\ pick \in PickRec
        BY <2>3 DEF Write, SInv, TypeOK, ComparedOK
      <4> QED
        BY <4>1 DEF SInv, CollectedOK, PickRec
    <3> QED
      BY <1>6, <1>23, <2>3, <3>1, <3>2
  <2> QED
    BY <1>1, <1>7, <2>2, <2>3 DEF InOrder, ServersOf
<1>12. LookOK'
  <2>1. CASE look.at = "first"
    BY <1>1, <2>1 DEF LookOK
  <2>2. CASE look.at # "first"
    <3>1. pick.at \in {"collect", "score"} /\ pick.i \in DOMAIN List
      BY <2>2 DEF SInv, LookOK
    <3>2. Svr \in Servers
      BY <3>1, LookingAt
    <3>3. look.at = "again" => seen'[Svr].cmax # {0}
      <4>1. seen[Svr].cmax \subseteq seen'[Svr].cmax /\ status[Svr].cmax \in seen[Svr].cmax
        BY <1>21, <3>2 DEF SInv, Recorded
      <4>2. look.at = "again" => seen[Svr].cmax # {0}
        BY DEF SInv, LookOK
      <4>3. ASSUME look.at = "again" PROVE \E c \in seen[Svr].cmax : c # 0
        <5>1. (\A c \in seen[Svr].cmax : c = 0) => seen[Svr].cmax = {0}
          BY <4>1
        <5> QED
          BY <4>2, <4>3, <5>1
      <4> QED
        BY <4>1, <4>3
    <3>4. /\ seen[Svr].active \subseteq seen'[Svr].active /\ seen[Svr].limit \subseteq seen'[Svr].limit
          /\ seen[Svr].users \subseteq seen'[Svr].users
      BY <1>21, <3>2
    <3> QED
      BY <1>1, <1>7, <3>1, <3>3, <3>4 DEF SInv, LookOK
  <2> QED
    BY <2>1, <2>2
<1> QED
  BY <1>3, <1>4, <1>8, <1>9, <1>10, <1>11, <1>12 DEF SInv

LEMMA NextSInv ==
    SInv /\ [Select \/ \E s \in Servers : Write(s)]_vars => SInv'
<1> SUFFICES ASSUME SInv, [Select \/ \E s \in Servers : Write(s)]_vars PROVE SInv'
  OBVIOUS
<1>1. CASE Select
  BY <1>1, FindClientKeeps, TestActiveKeeps, TestSlotsKeeps, CollectedKeeps, ReadSlotsKeeps,
     ReadMemKeeps, CompareKeeps, ComparedKeeps, ReadUsersKeeps, ReadCmaxKeeps, ReadAgainKeeps,
     GiveUpKeeps DEF Select
<1>2. CASE \E s \in Servers : Write(s)
  BY <1>2, WriteKeeps
<1>3. CASE UNCHANGED vars
  <2>1. Others /\ GoOn(look) /\ look \in LookRec
    BY <1>3 DEF vars, Others, GoOn, SInv, TypeOK
  <2>2. LookOK'
    BY <1>3 DEF vars, SInv, LookOK, Svr, List, Bal
  <2> QED
    BY <2>1, <2>2, GoOnKeeps
<1> QED
  BY <1>1, <1>2, <1>3

-----------------------------------------------------------------------------
(* Scores are fractions: averages keep the order of what they are made of.      *)

\* A fraction with a positive denominator.
Fraction == Int \X (Nat \ {0})

\* Comparing fractions by products.
NoLess(y, x) == y[1] * x[2] >= x[1] * y[2]

\* NoLess is the negation of Greater.
LEMMA NoLessIs ==
    ASSUME NEW x \in Fraction, NEW y \in Fraction
    PROVE  ~ Greater(x, y) <=> NoLess(y, x)
<1>1. x[1] * y[2] \in Int /\ y[1] * x[2] \in Int
  BY DEF Fraction
<1> QED
  BY <1>1 DEF Greater, NoLess

\* What is greater is not less.
LEMMA GreaterNoLess ==
    ASSUME NEW x \in Fraction, NEW y \in Fraction, Greater(y, x)
    PROVE  NoLess(y, x)
<1>1. x[1] * y[2] \in Int /\ y[1] * x[2] \in Int
  BY DEF Fraction
<1> QED
  BY <1>1 DEF Greater, NoLess

\* A positive factor keeps the sign.
LEMMA ProductSign ==
    ASSUME NEW a \in Int, NEW c \in Int, c > 0
    PROVE  /\ a >= 0 => a * c >= 0
           /\ a > 0 <=> a * c > 0
OBVIOUS

\* Greater than what is not less is greater.
LEMMA Transitive ==
    ASSUME NEW x \in Fraction, NEW y \in Fraction, NEW z \in Fraction, NoLess(y, x), Greater(z, y)
    PROVE  Greater(z, x)
<1> DEFINE a == x[1]  b == x[2]  c == y[1]  d == y[2]  e == z[1]  f == z[2]
<1>1. /\ a \in Int /\ b \in Int /\ c \in Int /\ d \in Int /\ e \in Int /\ f \in Int
      /\ b > 0 /\ d > 0 /\ f > 0
  BY DEF Fraction
<1>2. c * b - a * d >= 0 /\ e * d - c * f > 0
  <2>1. c * b >= a * d /\ e * d > c * f
    BY DEF NoLess, Greater
  <2> HIDE DEF a, b, c, d, e, f
  <2>2. c * b \in Int /\ a * d \in Int /\ e * d \in Int /\ c * f \in Int
    BY <1>1
  <2> QED
    BY <2>1, <2>2
<1> HIDE DEF a, b, c, d, e, f
<1>3. (c * b - a * d) * f >= 0 /\ (e * d - c * f) * b > 0
  BY <1>1, <1>2, ProductSign
<1>4. (e * b - a * f) * d = (c * b - a * d) * f + (e * d - c * f) * b
  BY <1>1
<1>5. (e * b - a * f) * d > 0
  <2> DEFINE r == (c * b - a * d) * f  s == (e * d - c * f) * b
  <2>1. r \in Int /\ s \in Int
    BY <1>1
  <2>2. r >= 0 /\ s > 0 /\ (e * b - a * f) * d = r + s
    BY <1>3, <1>4
  <2> HIDE DEF r, s
  <2>3. r + s > 0
    BY <2>1, <2>2
  <2> QED
    BY <2>2, <2>3
<1>6. e * b - a * f > 0
  BY <1>1, <1>5, ProductSign
<1>7. e * b > a * f
  BY <1>1, <1>6
<1> QED
  BY <1>7 DEF Greater, a, b, e, f

\* An average is a fraction.
LEMMA AverageIs ==
    ASSUME NEW x \in Fraction, NEW y \in Fraction
    PROVE  Average(x, y) \in Fraction
<1> DEFINE a == x[1]  b == x[2]  c == y[1]  d == y[2]
<1>1. /\ a \in Int /\ b \in Int /\ c \in Int /\ d \in Int /\ b > 0 /\ d > 0
  BY DEF Fraction
<1>2. Average(x, y) = <<a * d + c * b, 2 * b * d>>
  BY DEF Average
<1> HIDE DEF a, b, c, d
<1>3. 2 * b * d > 0
  BY <1>1, ProductSign
<1>4. a * d + c * b \in Int /\ 2 * b * d \in Int
  BY <1>1
<1>5. 2 * b * d \in Nat \ {0}
  BY <1>3, <1>4
<1> QED
  BY <1>2, <1>4, <1>5 DEF Fraction

\* An average is greater when one of its parts is, and the other is not less.
LEMMA AverageKeepsOrder ==
    ASSUME NEW x \in Fraction, NEW y \in Fraction, NEW u \in Fraction, NEW v \in Fraction,
           NoLess(u, x), NoLess(v, y)
    PROVE  /\ NoLess(Average(u, v), Average(x, y))
           /\ Greater(u, x) \/ Greater(v, y) => Greater(Average(u, v), Average(x, y))
<1> DEFINE a == x[1]  b == x[2]  c == y[1]  d == y[2]
           e == u[1]  f == u[2]  g == v[1]  h == v[2]
           p == e * b - a * f
           q == g * d - c * h
           U == (e * h + g * f) * (2 * b * d)
           X == (a * d + c * b) * (2 * f * h)
<1>1. /\ a \in Int /\ b \in Int /\ c \in Int /\ d \in Int /\ b > 0 /\ d > 0
      /\ e \in Int /\ f \in Int /\ g \in Int /\ h \in Int /\ f > 0 /\ h > 0
  BY DEF Fraction
<1>2. /\ NoLess(Average(u, v), Average(x, y)) <=> U >= X
      /\ Greater(Average(u, v), Average(x, y)) <=> U > X
  BY DEF NoLess, Greater, Average
<1>3. e * b >= a * f /\ g * d >= c * h
  BY DEF NoLess
<1>4. /\ Greater(u, x) <=> e * b > a * f
      /\ Greater(v, y) <=> g * d > c * h
  BY DEF Greater
<1> HIDE DEF a, b, c, d, e, f, g, h
<1>5. e * b \in Int /\ a * f \in Int /\ g * d \in Int /\ c * h \in Int
  BY <1>1
<1>6. /\ p \in Int /\ q \in Int /\ p >= 0 /\ q >= 0
      /\ Greater(u, x) => p > 0
      /\ Greater(v, y) => q > 0
  BY <1>3, <1>4, <1>5
<1>7. U - X = 2 * (p * (d * h) + q * (b * f)) /\ U \in Int /\ X \in Int
  BY <1>1
<1>8. d * h \in Int /\ d * h > 0 /\ b * f \in Int /\ b * f > 0
  BY <1>1, ProductSign
<1> HIDE DEF p, q, U, X
<1>9. /\ p * (d * h) >= 0 /\ (p > 0 => p * (d * h) > 0) /\ p * (d * h) \in Int
      /\ q * (b * f) >= 0 /\ (q > 0 => q * (b * f) > 0) /\ q * (b * f) \in Int
  BY <1>6, <1>8, ProductSign
<1> DEFINE r == p * (d * h)
           s == q * (b * f)
<1>10. U - X = 2 * (r + s) /\ r \in Int /\ s \in Int /\ r >= 0 /\ s >= 0
  BY <1>7, <1>9
<1>11. Greater(u, x) \/ Greater(v, y) => r > 0 \/ s > 0
  BY <1>6, <1>9
<1> HIDE DEF r, s
<1>12. U - X >= 0 /\ (r > 0 \/ s > 0 => U - X > 0)
  BY <1>10
<1>13. U >= X /\ (r > 0 \/ s > 0 => U > X)
  BY <1>7, <1>12
<1> QED
  BY <1>2, <1>11, <1>13

\* The figures of a server that a score is made of.
LEMMA FiguresType ==
    ASSUME TypeOK, NEW s \in Servers
    PROVE  /\ <<Weight[s], 1>> \in Fraction
           /\ status[s].mem # None => <<status[s].mem, 1>> \in Fraction
           /\ status[s].cpu # None => <<status[s].cpu, 1>> \in Fraction
           /\ status[s].limit \in Nat \ {0} /\ num_slots[s] \in Nat
<1>1. \A x \in Int : <<x, 1>> \in Fraction
  BY DEF Fraction
<1> QED
  BY <1>1, FigureTypes

\* The score when all is read at one time.
FullCapacity(b, s) == Capacity(b, s, status[s].limit)
CpuScore(b, s) == WithCpu(b, s, WithMem(b, s))
Score(b, s) == WithCapacity(b, s, status[s].limit, CpuScore(b, s))

\* A score is made in three steps.
LEMMA ScoreParts ==
    ASSUME NEW b, NEW s
    PROVE  /\ Score(b, s) = IF "cap" \in b.metrics THEN Average(CpuScore(b, s), FullCapacity(b, s))
                            ELSE CpuScore(b, s)
           /\ CpuScore(b, s) = IF "cpu" \in b.metrics /\ status[s].cpu # None
                               THEN Average(<<status[s].cpu, 1>>, WithMem(b, s)) ELSE WithMem(b, s)
           /\ WithMem(b, s) = IF "mem" \in b.metrics /\ status[s].mem # None
                              THEN Average(<<status[s].mem, 1>>, <<Weight[s], 1>>) ELSE <<Weight[s], 1>>
BY DEF Score, WithCapacity, CpuScore, WithCpu, WithMem, Blend, FullCapacity

\* Capacity is a fraction: no limit is 0, and one channel is added.
LEMMA CapacityIs ==
    ASSUME TypeOK, NEW b \in BalancerRec, NEW s \in Servers
    PROVE  FullCapacity(b, s) \in Fraction
<1>1. status[s].limit \in Nat \ {0} /\ num_slots[s] \in Nat
  BY FiguresType
<1>2. 100 * (status[s].limit - num_slots[s]) \in Int /\ num_slots[s] + 1 \in Nat \ {0}
  BY <1>1
<1> QED
  BY <1>1, <1>2 DEF FullCapacity, Capacity, Fraction

\* A score and its parts are fractions.
LEMMA PartsAre ==
    ASSUME TypeOK, NEW b \in BalancerRec, NEW s \in Servers
    PROVE  WithMem(b, s) \in Fraction /\ CpuScore(b, s) \in Fraction /\ Score(b, s) \in Fraction
<1>1. WithMem(b, s) \in Fraction
  BY FiguresType, AverageIs DEF WithMem, Blend
<1>2. CpuScore(b, s) \in Fraction
  BY <1>1, FiguresType, AverageIs DEF CpuScore, WithCpu, Blend
<1>3. Average(CpuScore(b, s), FullCapacity(b, s)) \in Fraction
  BY <1>2, CapacityIs, AverageIs
<1>4. Score(b, s) \in Fraction
  BY <1>2, <1>3, ScoreParts
<1> QED
  BY <1>1, <1>2, <1>4

\* A metric taken in, if both have it, keeps the order.
LEMMA MetricKeepsOrder ==
    ASSUME NEW x \in Fraction, NEW u \in Fraction, NoLess(u, x),
           NEW m \in Int, NEW n \in Int, n >= m
    PROVE  /\ NoLess(Average(<<n, 1>>, u), Average(<<m, 1>>, x))
           /\ n # m \/ Greater(u, x) => Greater(Average(<<n, 1>>, u), Average(<<m, 1>>, x))
<1> DEFINE y == <<m, 1>>  v == <<n, 1>>
<1>1. /\ y \in Fraction /\ v \in Fraction /\ NoLess(v, y)
      /\ n # m => Greater(v, y)
  BY DEF Fraction, NoLess, Greater
<1> HIDE DEF y, v
<1>2. /\ NoLess(Average(v, u), Average(y, x))
      /\ Greater(v, y) \/ Greater(u, x) => Greater(Average(v, u), Average(y, x))
  BY <1>1, AverageKeepsOrder
<1> QED
  BY <1>1, <1>2 DEF y, v

\* Nothing is less than itself.
LEMMA Itself ==
    ASSUME NEW x \in Fraction
    PROVE  NoLess(x, x)
<1>1. x[1] * x[2] \in Int
  BY DEF Fraction
<1> QED
  BY <1>1 DEF NoLess

\* More free capacity, or fewer channels, is a higher figure, between servers of one limit.
LEMMA CapacityOrder ==
    ASSUME TypeOK, NEW b \in BalancerRec, NEW s \in Servers, NEW t \in Servers,
           status[s].limit = status[t].limit, CapacityOf(b, t) >= CapacityOf(b, s)
    PROVE  /\ NoLess(FullCapacity(b, t), FullCapacity(b, s))
           /\ CapacityOf(b, t) # CapacityOf(b, s) => Greater(FullCapacity(b, t), FullCapacity(b, s))
<1> DEFINE L == status[s].limit  m == num_slots[s]  n == num_slots[t]
<1>1. L \in Nat \ {0} /\ m \in Nat /\ n \in Nat
  BY FiguresType
<1>2. CASE b.method = "byrequests"
  <2>1. n <= m /\ (CapacityOf(b, t) # CapacityOf(b, s) => n < m)
    BY <1>1, <1>2 DEF CapacityOf
  <2>2. FullCapacity(b, t) = <<100, n + 1>> /\ FullCapacity(b, s) = <<100, m + 1>>
    BY <1>2 DEF FullCapacity, Capacity
  <2> HIDE DEF m, n
  <2>3. 100 * (m + 1) >= 100 * (n + 1) /\ (n < m => 100 * (m + 1) > 100 * (n + 1))
    BY <1>1, <2>1
  <2> QED
    BY <2>1, <2>2, <2>3 DEF NoLess, Greater
<1>3. CASE b.method # "byrequests"
  <2>1. n <= m /\ (CapacityOf(b, t) # CapacityOf(b, s) => n < m)
    BY <1>1, <1>3 DEF CapacityOf
  <2>2. FullCapacity(b, t) = <<100 * (L - n), L>> /\ FullCapacity(b, s) = <<100 * (L - m), L>>
    BY <1>3 DEF FullCapacity, Capacity
  <2> HIDE DEF L, m, n
  <2>3. /\ (m - n) * L >= 0 /\ (m - n > 0 => (m - n) * L > 0)
        /\ (100 * (L - n)) * L - (100 * (L - m)) * L = 100 * ((m - n) * L)
    BY <1>1, <2>1, ProductSign
  <2>4. /\ (100 * (L - n)) * L >= (100 * (L - m)) * L
        /\ n < m => (100 * (L - n)) * L > (100 * (L - m)) * L
    <3> DEFINE p == (m - n) * L  U == (100 * (L - n)) * L  X == (100 * (L - m)) * L
    <3>1. p \in Int /\ U \in Int /\ X \in Int /\ U - X = 100 * p /\ p >= 0
      BY <1>1, <2>3
    <3>2. n < m => p > 0
      BY <1>1, <2>3
    <3> HIDE DEF p, U, X
    <3>3. U >= X /\ (p > 0 => U > X)
      BY <3>1
    <3> QED
      BY <3>2, <3>3 DEF U, X
  <2> QED
    BY <2>1, <2>2, <2>4 DEF NoLess, Greater
<1> QED
  BY <1>2, <1>3

\* What it means to dominate, figure by figure.
LEMMA FigureOrder ==
    ASSUME TypeOK, NEW b, NEW s \in Servers, NEW t \in Servers, Dominates(b, t, s)
    PROVE  /\ status[s].limit = status[t].limit
           /\ Weight[t] >= Weight[s]
           /\ "mem" \in b.metrics =>
                \/ status[t].mem = status[s].mem
                \/ status[t].mem # None /\ status[s].mem # None /\ status[t].mem >= status[s].mem
           /\ "cpu" \in b.metrics =>
                \/ status[t].cpu = status[s].cpu
                \/ status[t].cpu # None /\ status[s].cpu # None /\ status[t].cpu >= status[s].cpu
           /\ "cap" \in b.metrics => CapacityOf(b, t) >= CapacityOf(b, s)
           /\ \/ Weight[t] # Weight[s]
              \/ "mem" \in b.metrics /\ status[t].mem # status[s].mem
              \/ "cpu" \in b.metrics /\ status[t].cpu # status[s].cpu
              \/ "cap" \in b.metrics /\ CapacityOf(b, t) # CapacityOf(b, s)
<1> DEFINE F(x) == [weight |-> Weight[x],
                    mem |-> IF "mem" \in b.metrics THEN status[x].mem ELSE None,
                    cpu |-> IF "cpu" \in b.metrics THEN status[x].cpu ELSE None,
                    cap |-> IF "cap" \in b.metrics THEN CapacityOf(b, x) ELSE None]
<1>1. /\ status[s].limit = status[t].limit
      /\ F(s) # F(t)
      /\ \A m \in DOMAIN F(s) : IF None \in {F(s)[m], F(t)[m]} THEN F(s)[m] = F(t)[m] ELSE F(t)[m] >= F(s)[m]
  BY DEF Dominates
<1>2. DOMAIN F(s) = {"weight", "mem", "cpu", "cap"}
  OBVIOUS
<1>3. \A m \in {"weight", "mem", "cpu", "cap"} :
         F(s)[m] = F(t)[m] \/ (F(s)[m] # None /\ F(t)[m] # None /\ F(t)[m] >= F(s)[m])
  BY <1>1, <1>2, Zenon
<1>4. /\ \A x : F(x).weight = Weight[x]
      /\ "mem" \in b.metrics => \A x : F(x).mem = status[x].mem
      /\ "cpu" \in b.metrics => \A x : F(x).cpu = status[x].cpu
      /\ "cap" \in b.metrics => \A x : F(x).cap = CapacityOf(b, x)
  OBVIOUS
<1>5. \/ Weight[t] # Weight[s]
      \/ "mem" \in b.metrics /\ status[t].mem # status[s].mem
      \/ "cpu" \in b.metrics /\ status[t].cpu # status[s].cpu
      \/ "cap" \in b.metrics /\ CapacityOf(b, t) # CapacityOf(b, s)
  BY <1>1
<1> HIDE DEF F
<1>6. F(s).weight = F(t).weight \/ F(t).weight >= F(s).weight
  BY <1>3
<1>7. Weight[s] \in Int /\ Weight[t] \in Int
  BY FiguresType DEF Fraction
<1>8. Weight[t] >= Weight[s]
  BY <1>4, <1>6, <1>7
<1>9. "mem" \in b.metrics =>
        \/ status[t].mem = status[s].mem
        \/ status[t].mem # None /\ status[s].mem # None /\ status[t].mem >= status[s].mem
  BY <1>3, <1>4
<1>10. "cpu" \in b.metrics =>
        \/ status[t].cpu = status[s].cpu
        \/ status[t].cpu # None /\ status[s].cpu # None /\ status[t].cpu >= status[s].cpu
  BY <1>3, <1>4
<1>11. "cap" \in b.metrics => CapacityOf(b, t) >= CapacityOf(b, s)
  <2>1. CapacityOf(b, t) \in Int /\ CapacityOf(b, s) \in Int
    <3>1. /\ num_slots[s] \in Int /\ num_slots[t] \in Int
          /\ status[s].limit \in Int /\ status[t].limit \in Int
      <4>1. num_slots[s] \in Nat /\ status[s].limit \in Nat \ {0}
        BY FiguresType
      <4>2. num_slots[t] \in Nat /\ status[t].limit \in Nat \ {0}
        BY FiguresType
      <4> QED
        BY <4>1, <4>2
    <3>2. \A x, y \in Int : -x \in Int /\ y - x \in Int
      OBVIOUS
    <3>3. -num_slots[s] \in Int /\ -num_slots[t] \in Int
      BY <3>1, <3>2
    <3>4. status[s].limit - num_slots[s] \in Int /\ status[t].limit - num_slots[t] \in Int
      BY <3>1, <3>2
    <3> QED
      BY <3>3, <3>4, Zenon DEF CapacityOf
  <2>2. F(s).cap = F(t).cap \/ F(t).cap >= F(s).cap
    BY <1>3
  <2> QED
    BY <1>4, <2>1, <2>2
<1> QED
  BY <1>1, <1>5, <1>8, <1>9, <1>10, <1>11

\* A server that dominates another one has the higher score.
LEMMA DominatingScores ==
    ASSUME TypeOK, NEW b \in BalancerRec, NEW s \in Servers, NEW t \in Servers,
           Dominates(b, t, s)
    PROVE  Greater(Score(b, t), Score(b, s))
<1>1. /\ Weight[s] \in Int /\ Weight[t] \in Int
      /\ <<Weight[s], 1>> \in Fraction /\ <<Weight[t], 1>> \in Fraction
  BY FiguresType DEF Fraction
<1>2. /\ status[s].mem # None => status[s].mem \in Int
      /\ status[t].mem # None => status[t].mem \in Int
      /\ status[s].cpu # None => status[s].cpu \in Int
      /\ status[t].cpu # None => status[t].cpu \in Int
  BY FiguresType DEF Fraction
<1>3. /\ NoLess(<<Weight[t], 1>>, <<Weight[s], 1>>)
      /\ Weight[t] # Weight[s] => Greater(<<Weight[t], 1>>, <<Weight[s], 1>>)
  <2>1. Weight[t] >= Weight[s]
    BY FigureOrder
  <2> QED
    BY <1>1, <2>1 DEF NoLess, Greater
<1> DEFINE less1 == Weight[t] # Weight[s]
           less2 == less1 \/ ("mem" \in b.metrics /\ status[t].mem # status[s].mem)
           less3 == less2 \/ ("cpu" \in b.metrics /\ status[t].cpu # status[s].cpu)
           M(x) == WithMem(b, x)
           C(x) == CpuScore(b, x)
<1>4. /\ M(s) \in Fraction /\ M(t) \in Fraction /\ C(s) \in Fraction /\ C(t) \in Fraction
      /\ FullCapacity(b, s) \in Fraction /\ FullCapacity(b, t) \in Fraction
  BY PartsAre, CapacityIs
<1>5. NoLess(M(t), M(s)) /\ (less2 => Greater(M(t), M(s)))
  <2>1. CASE "mem" \in b.metrics /\ status[s].mem # None
    <3>1. /\ status[t].mem \in Int /\ status[s].mem \in Int /\ status[t].mem # None
          /\ status[t].mem >= status[s].mem
      <4>1. \/ status[t].mem = status[s].mem
            \/ status[t].mem # None /\ status[s].mem # None /\ status[t].mem >= status[s].mem
        BY <2>1, FigureOrder
      <4> QED
        BY <1>2, <2>1, <4>1
    <3>2. /\ M(t) = Average(<<status[t].mem, 1>>, <<Weight[t], 1>>)
          /\ M(s) = Average(<<status[s].mem, 1>>, <<Weight[s], 1>>)
      BY <2>1, <3>1, ScoreParts
    <3> HIDE DEF M
    <3> QED
      BY <1>1, <1>3, <3>1, <3>2, MetricKeepsOrder
  <2>2. CASE ~ ("mem" \in b.metrics /\ status[s].mem # None)
    <3>1. "mem" \in b.metrics => status[t].mem = status[s].mem
      BY <2>2, FigureOrder
    <3>2. M(t) = <<Weight[t], 1>> /\ M(s) = <<Weight[s], 1>>
      BY <2>2, <3>1, ScoreParts
    <3> HIDE DEF M
    <3> QED
      BY <1>3, <3>1, <3>2
  <2> QED
    BY <2>1, <2>2
<1> HIDE DEF less2, M
<1>6. NoLess(C(t), C(s)) /\ (less3 => Greater(C(t), C(s)))
  <2>1. CASE "cpu" \in b.metrics /\ status[s].cpu # None
    <3>1. /\ status[t].cpu \in Int /\ status[s].cpu \in Int /\ status[t].cpu # None
          /\ status[t].cpu >= status[s].cpu
      <4>1. \/ status[t].cpu = status[s].cpu
            \/ status[t].cpu # None /\ status[s].cpu # None /\ status[t].cpu >= status[s].cpu
        BY <2>1, FigureOrder
      <4> QED
        BY <1>2, <2>1, <4>1
    <3>2. /\ C(t) = Average(<<status[t].cpu, 1>>, M(t))
          /\ C(s) = Average(<<status[s].cpu, 1>>, M(s))
      BY <2>1, <3>1, ScoreParts DEF M
    <3> HIDE DEF C
    <3> QED
      BY <1>4, <1>5, <3>1, <3>2, MetricKeepsOrder
  <2>2. CASE ~ ("cpu" \in b.metrics /\ status[s].cpu # None)
    <3>1. "cpu" \in b.metrics => status[t].cpu = status[s].cpu
      BY <2>2, FigureOrder
    <3>2. C(t) = M(t) /\ C(s) = M(s)
      BY <2>2, <3>1, ScoreParts DEF M
    <3> HIDE DEF C
    <3> QED
      BY <1>5, <3>1, <3>2
  <2> QED
    BY <2>1, <2>2
<1> HIDE DEF less3
<1>7. less3 \/ ("cap" \in b.metrics /\ CapacityOf(b, t) # CapacityOf(b, s))
  BY FigureOrder DEF less2, less3
<1>8. CASE "cap" \in b.metrics
  <2>1. /\ Score(b, t) = Average(C(t), FullCapacity(b, t))
        /\ Score(b, s) = Average(C(s), FullCapacity(b, s))
    BY <1>8, ScoreParts
  <2>2. /\ NoLess(FullCapacity(b, t), FullCapacity(b, s))
        /\ CapacityOf(b, t) # CapacityOf(b, s) => Greater(FullCapacity(b, t), FullCapacity(b, s))
    BY <1>8, FigureOrder, CapacityOrder
  <2> HIDE DEF C
  <2> QED
    BY <1>4, <1>6, <1>7, <2>1, <2>2, AverageKeepsOrder
<1>9. CASE "cap" \notin b.metrics
  <2>1. Score(b, t) = C(t) /\ Score(b, s) = C(s)
    BY <1>9, ScoreParts
  <2> HIDE DEF C
  <2> QED
    BY <1>6, <1>7, <1>9, <2>1
<1> QED
  BY <1>8, <1>9

-----------------------------------------------------------------------------
(* What the loops know as long as no server is written.                         *)

CanBeChosen == {s \in Servers : Eligible(s)}

\* The server found so far is of the balancer and of the round, and none of those
\* compared in this round has a higher score.
BestYet ==
    /\ (pick.ret \in Redundant) <=> pick.round
    /\ pick.ret \in ServersOf(pick.bal)
    /\ pick.scmax = Score(Bal, pick.ret)
    /\ \A l \in DOMAIN pick.servers :
          l < pick.i /\ ((pick.servers[l] \in Redundant) <=> pick.round)
            => NoLess(pick.scmax, Score(Bal, pick.servers[l]))

\* The candidates are of the balancer, and the client group is its first one.
OfBalancer ==
    /\ \A l \in DOMAIN pick.servers : pick.servers[l] \in ServersOf(pick.bal)
    /\ Admitting(Bal) # {} /\ pick.client = Bal.clients[Min(Admitting(Bal))]

\* What is certain as long as no server has been written.
Undisturbed ==
    quiet =>
      /\ seen = [s \in Servers |-> Now(s)]
      /\ pick.at = "client" => pick.servers = <<>>
      /\ pick.at \in {"collect", "score"} => OfBalancer
      /\ pick.at = "score" /\ pick.ret # None => BestYet
      /\ look.at = "cpu" => look.score = WithMem(Bal, Svr)

\* At the start nothing is written.
LEMMA InitUndisturbed == Init => Undisturbed
<1> SUFFICES ASSUME Init PROVE Undisturbed
  OBVIOUS
<1>1. pick.servers = <<>> /\ pick.at = "client" /\ look.at = "first"
  BY FreshType DEF Init
<1> QED
  BY <1>1 DEF Init, Undisturbed

\* When nothing is written, a server can be chosen, or is missed.
LEMMA NothingWritten ==
    ASSUME SInv, Undisturbed, quiet, NEW s \in Servers
    PROVE  /\ seen[s].limit = {status[s].limit} /\ seen[s].users = {status[s].users}
           /\ LimitsRead(s) = {UserLimit(status[s].cmax)}
           /\ MayPass(s) <=> Eligible(s)
           /\ MayFail(s) <=> ~ Eligible(s)
<1>1. seen[s] = Now(s)
  BY DEF Undisturbed
<1>2. /\ seen[s].active = {status[s].active} /\ seen[s].limit = {status[s].limit}
      /\ seen[s].users = {status[s].users} /\ seen[s].cmax = {status[s].cmax}
  BY <1>1 DEF Now
<1>3. LimitsRead(s) = {UserLimit(status[s].cmax)}
  <2>1. {n \in seen[s].cmax : n = 0 /\ seen[s].cmax # {0}} = {}
    BY <1>2
  <2>2. {UserLimit(n) : n \in seen[s].cmax} = {UserLimit(status[s].cmax)}
    BY <1>2
  <2> QED
    BY <2>1, <2>2 DEF LimitsRead
<1>4. /\ status[s].active \in BOOLEAN /\ status[s].limit \in Nat /\ num_slots[s] \in Nat
      /\ status[s].users \in Nat /\ UserLimit(status[s].cmax) \in Nat
  <2>1. status[s] \in StatusRec /\ num_slots[s] \in Nat
    BY DEF SInv, TypeOK
  <2> QED
    BY <2>1 DEF StatusRec, UserLimit
<1>5. MayPass(s) <=> Eligible(s)
  BY <1>2, <1>3, <1>4 DEF MayPass, Eligible
<1>6. MayFail(s) <=> ~ Eligible(s)
  <2>1. MayFail(s) <=> \/ status[s].active = FALSE
                       \/ num_slots[s] >= status[s].limit
                       \/ status[s].users >= UserLimit(status[s].cmax)
    BY <1>2, <1>3 DEF MayFail
  <2> HIDE DEF UserLimit
  <2>2. /\ num_slots[s] >= status[s].limit <=> ~ (num_slots[s] < status[s].limit)
        /\ status[s].users >= UserLimit(status[s].cmax)
             <=> ~ (status[s].users < UserLimit(status[s].cmax))
    BY <1>4
  <2> QED
    BY <1>4, <2>1, <2>2 DEF Eligible
<1> QED
  BY <1>2, <1>3, <1>5, <1>6

\* A step that only moves the main thread keeps scores and what can be chosen.
LEMMA OthersKeepScores ==
    ASSUME Others
    PROVE  /\ quiet' = quiet /\ seen' = seen /\ CanBeChosen' = CanBeChosen
           /\ nosvr' = nosvr /\ [s \in Servers |-> Now(s)]' = [s \in Servers |-> Now(s)]
           /\ \A b : Admitting(b)' = Admitting(b)
           /\ \A b, s : Score(b, s)' = Score(b, s) /\ WithMem(b, s)' = WithMem(b, s)
<1>1. UNCHANGED <<status, num_slots, client_slots, nosvr, seen, quiet>>
  BY DEF Others
<1>2. \A b, s : /\ WithMem(b, s)' = WithMem(b, s) /\ FullCapacity(b, s)' = FullCapacity(b, s)
                /\ CpuScore(b, s)' = CpuScore(b, s)
  BY <1>1 DEF WithMem, FullCapacity, Capacity, CpuScore, WithCpu
<1>3. \A b, s : Score(b, s)' = Score(b, s)
  BY <1>2 DEF Score, WithCapacity, FullCapacity
<1> QED
  BY <1>1, <1>2, <1>3 DEF CanBeChosen, Eligible, Admitting, Now

\* Scores are the same while the lists are.
LEMMA SameScores ==
    ASSUME Others, Bal' = Bal, pick'.ret = pick.ret, pick'.servers = pick.servers
    PROVE  /\ Score(Bal, pick.ret)' = Score(Bal, pick.ret)
           /\ \A l : Score(Bal, pick.servers[l])' = Score(Bal, pick.servers[l])
BY DEF Others, Score, WithCapacity, CpuScore, WithCpu, WithMem, Capacity

\* Undisturbed, a candidate can be chosen, and is not missed.
LEMMA CandidatesStay ==
    ASSUME SInv, Undisturbed, quiet, NEW l \in DOMAIN pick.servers
    PROVE  /\ pick.servers[l] \in CanBeChosen
           /\ ~ Missed(pick.servers[l])
<1>1. pick.servers[l] \in Servers /\ MayPass(pick.servers[l]) /\ pick.servers[l] # nosvr
  BY DEF SInv, TypeOK, PickRec, CandidatesOK
<1> QED
  BY <1>1, NothingWritten DEF Missed, CanBeChosen

\* Another client group, list or round, with no server looked at.
LEMMA MovedUndisturbed ==
    ASSUME SInv, Undisturbed, Others, look'.at = "first", quiet,
           pick'.at = "client" => pick'.servers = <<>>,
           pick'.at \in {"collect", "score"} => OfBalancer',
           pick'.at = "score" /\ pick'.ret # None => BestYet'
    PROVE  Undisturbed'
<1>1. seen' = [s \in Servers |-> Now(s)]'
  BY OthersKeepScores DEF Undisturbed
<1> QED
  BY <1>1 DEF Undisturbed

\* The client group found is the first one that admits the connection.
LEMMA FindClientUndisturbed ==
    ASSUME SInv, Undisturbed, FindClient
    PROVE  Undisturbed'
<1>1. /\ pick \in PickRec /\ pick.at = "client" /\ pick.bal \in DOMAIN Balancers /\ Others
      /\ look'.at = "first"
  BY DEF SInv, TypeOK, FindClient, LookOK
<1>2. SUFFICES ASSUME quiet PROVE Undisturbed'
  BY <1>1, OthersKeepScores DEF Undisturbed
<1>3. pick.servers = <<>>
  BY <1>1, <1>2 DEF Undisturbed
<1>4. CASE Admitting(Bal) = {}
  <2>1. pick' = [pick EXCEPT !.bal = @ + 1]
    BY <1>4 DEF FindClient
  <2>2. pick'.at = "client" /\ pick'.servers = <<>>
    BY <1>1, <1>3, <2>1 DEF PickRec
  <2> QED
    BY <1>1, <1>2, <2>2, MovedUndisturbed
<1>5. CASE Admitting(Bal) # {}
  <2> DEFINE k == Bal.clients[Min(Admitting(Bal))]
  <2>1. pick' = [pick EXCEPT !.at = "collect", !.i = 1, !.client = k]
    BY <1>5 DEF FindClient
  <2> HIDE DEF k
  <2>2. pick'.at = "collect" /\ pick'.servers = <<>> /\ pick'.bal = pick.bal /\ pick'.client = k
    BY <1>1, <1>3, <2>1 DEF PickRec
  <2>3. Bal' = Bal /\ Admitting(Bal)' = Admitting(Bal)
    BY <1>1, <2>2, OthersKeepScores DEF Bal
  <2>4. OfBalancer'
    <3>1. \A l \in DOMAIN pick'.servers : pick'.servers[l] \in ServersOf(pick'.bal)
      BY <2>2
    <3> QED
      BY <1>5, <2>2, <2>3, <3>1 DEF OfBalancer, k
  <2> QED
    BY <1>1, <1>2, <2>2, <2>4, MovedUndisturbed
<1> QED
  BY <1>4, <1>5

\* A step of collecting keeps the balancer and its client group.
LEMMA StillOfBalancer ==
    ASSUME Others, OfBalancer, pick'.bal = pick.bal, pick'.client = pick.client,
           \A l \in DOMAIN pick'.servers : pick'.servers[l] \in ServersOf(pick.bal)
    PROVE  OfBalancer' /\ Bal' = Bal
<1>1. Bal' = Bal /\ Admitting(Bal)' = Admitting(Bal) /\ ServersOf(pick.bal)' = ServersOf(pick.bal)
  BY OthersKeepScores DEF Bal, ServersOf
<1>2. Admitting(Bal)' # {} /\ pick'.client = Bal'.clients[Min(Admitting(Bal)')]
  BY <1>1 DEF OfBalancer
<1>3. \A l \in DOMAIN pick'.servers : pick'.servers[l] \in ServersOf(pick'.bal)
  OBVIOUS
<1> QED
  BY <1>1, <1>2, <1>3 DEF OfBalancer

\* A step that only moves on to another read.
LEMMA GoOnUndisturbed ==
    ASSUME SInv, Undisturbed, Others, NEW next, GoOn(next),
           next.at = "cpu" => next.score = WithMem(Bal, Svr)
    PROVE  Undisturbed'
<1>1. SUFFICES ASSUME quiet PROVE Undisturbed'
  BY OthersKeepScores DEF Undisturbed
<1>2. pick' = pick /\ look' = next /\ Bal' = Bal /\ Svr' = Svr
  BY DEF GoOn, Bal, Svr, List
<1>3. pick.at \in {"collect", "score"} => OfBalancer'
  BY <1>1, <1>2, StillOfBalancer DEF Undisturbed, OfBalancer
<1>4. pick.at = "score" /\ pick.ret # None => BestYet'
  <2>1. /\ Score(Bal, pick.ret)' = Score(Bal, pick.ret)
        /\ \A l : Score(Bal, pick.servers[l])' = Score(Bal, pick.servers[l])
    BY <1>2, SameScores
  <2> QED
    BY <1>1, <1>2, <2>1 DEF Undisturbed, BestYet, ServersOf
<1>5. next.at = "cpu" => next.score = WithMem(Bal, Svr)'
  <2>1. WithMem(Bal, Svr)' = WithMem(Bal, Svr)
    BY <1>2 DEF Others, WithMem
  <2> QED
    BY <2>1
<1>6. seen' = [s \in Servers |-> Now(s)]'
  BY <1>1, OthersKeepScores DEF Undisturbed
<1> QED
  BY <1>1, <1>2, <1>3, <1>4, <1>5, <1>6 DEF Undisturbed

\* The next server while candidates are collected, perhaps with a new candidate.
LEMMA CollectUndisturbed ==
    ASSUME SInv, Undisturbed, Others, pick.at = "collect", pick.i \in DOMAIN List, look' = Fresh,
           NextServer \/ pick' = [pick EXCEPT !.i = @ + 1, !.servers = Append(@, Svr)]
    PROVE  Undisturbed'
<1>1. SUFFICES ASSUME quiet PROVE Undisturbed'
  BY OthersKeepScores DEF Undisturbed
<1>2. /\ pick \in PickRec /\ pick.servers \in Seq(Servers) /\ Svr \in Servers
      /\ Svr \in ServersOf(pick.bal) /\ OfBalancer
  BY <1>1, LookingAt, BalTypes DEF Undisturbed
<1> DEFINE cand == IF NextServer THEN pick.servers ELSE Append(pick.servers, Svr)
<1>3. \A l \in DOMAIN cand : cand[l] \in ServersOf(pick.bal)
  <2> DEFINE q == pick.servers  t == Svr
  <2>1. q \in Seq(Servers) /\ t \in Servers
    BY <1>2
  <2> HIDE DEF q, t
  <2>2. \A l \in DOMAIN Append(q, t) : \/ l \in DOMAIN q /\ Append(q, t)[l] = q[l]
                                       \/ Append(q, t)[l] = t
    BY <2>1, Appended
  <2>3. \A l \in DOMAIN q : q[l] \in ServersOf(pick.bal)
    BY <1>2 DEF OfBalancer, q
  <2>4. t \in ServersOf(pick.bal)
    BY <1>2 DEF t
  <2> QED
    BY <2>2, <2>3, <2>4, Zenon DEF q, t
<1> HIDE DEF cand
<1>4. /\ pick'.at = "collect" /\ pick'.servers = cand /\ pick'.bal = pick.bal
      /\ pick'.client = pick.client
  BY <1>2, ZenonT(40) DEF NextServer, PickRec, cand
<1>5. OfBalancer'
  BY <1>2, <1>3, <1>4, StillOfBalancer
<1> QED
  BY <1>1, <1>4, <1>5, FreshType, MovedUndisturbed

\* Nothing is compared before the first candidate.
LEMMA CollectedUndisturbed ==
    ASSUME SInv, Undisturbed, Collected
    PROVE  Undisturbed'
<1>1. /\ pick \in PickRec /\ pick.at = "collect" /\ pick.ret = None /\ Others /\ look'.at = "first"
      /\ pick' = [pick EXCEPT !.at = "score", !.round = FALSE, !.i = 1, !.scmax = <<0, 1>>]
  BY DEF SInv, TypeOK, Collected, ComparedOK, LookOK
<1>2. SUFFICES ASSUME quiet PROVE Undisturbed'
  BY <1>1, OthersKeepScores DEF Undisturbed
<1>3. /\ pick'.at = "score" /\ pick'.servers = pick.servers /\ pick'.bal = pick.bal
      /\ pick'.client = pick.client /\ pick'.ret = None
  BY <1>1 DEF PickRec
<1>4. OfBalancer'
  BY <1>1, <1>2, <1>3, StillOfBalancer DEF Undisturbed, OfBalancer
<1> QED
  BY <1>1, <1>2, <1>3, <1>4, MovedUndisturbed

\* A candidate of the other round is not compared.
LEMMA OtherRoundUndisturbed ==
    ASSUME SInv, Undisturbed, Others, pick.at = "score", pick.i \in DOMAIN List, NextServer,
           ~ ((Svr \in Redundant) = pick.round)
    PROVE  Undisturbed'
<1>1. SUFFICES ASSUME quiet PROVE Undisturbed'
  BY OthersKeepScores DEF Undisturbed
<1>2. /\ pick \in PickRec /\ pick.i \in Nat \ {0} /\ DOMAIN pick.servers \subseteq Nat
      /\ Svr = pick.servers[pick.i] /\ ~ ((Svr \in Redundant) <=> pick.round)
  BY LookingAt
<1>3. OfBalancer /\ (pick.ret # None => BestYet)
  BY <1>1 DEF Undisturbed
<1>4. /\ pick'.at = "score" /\ pick'.bal = pick.bal /\ pick'.i = pick.i + 1 /\ pick'.ret = pick.ret
      /\ pick'.servers = pick.servers /\ pick'.round = pick.round /\ pick'.client = pick.client
      /\ pick'.scmax = pick.scmax
  BY <1>2 DEF NextServer, PickRec
<1>5. OfBalancer' /\ Bal' = Bal
  BY <1>3, <1>4, StillOfBalancer DEF OfBalancer
<1>6. ASSUME pick.ret # None PROVE BestYet'
  <2>1. /\ Score(Bal, pick.ret)' = Score(Bal, pick.ret)
        /\ \A l : Score(Bal, pick.servers[l])' = Score(Bal, pick.servers[l])
    BY <1>4, <1>5, SameScores
  <2>2. ASSUME NEW l \in DOMAIN pick.servers, l < pick.i + 1, (pick.servers[l] \in Redundant) <=> pick.round
        PROVE  NoLess(pick.scmax, Score(Bal, pick.servers[l]))
    <3>1. l # pick.i
      BY <1>2, <2>2
    <3>2. l < pick.i
      BY <1>2, <2>2, <3>1
    <3> QED
      BY <1>3, <1>6, <2>2, <3>2 DEF BestYet
  <2>3. ServersOf(pick.bal)' = ServersOf(pick.bal)
    BY <1>4 DEF ServersOf
  <2> QED
    BY <1>3, <1>4, <1>6, <2>1, <2>2, <2>3 DEF BestYet
<1> QED
  BY <1>1, <1>4, <1>5, <1>6, FreshType, MovedUndisturbed DEF NextServer

\* A candidate passes the second test, as it passed the first one.
LEMMA WithLimitUndisturbed ==
    ASSUME SInv, Undisturbed, Others, look.at \in {"cmax", "again"}, NEW n \in LimitsRead(Svr),
           WithLimit(n)
    PROVE  Undisturbed'
<1>1. SUFFICES ASSUME quiet PROVE Undisturbed'
  BY OthersKeepScores DEF Undisturbed
<1>2. /\ pick.at \in {"collect", "score"} /\ pick.i \in DOMAIN List /\ look.users \in seen[Svr].users
      /\ look \in LookRec
  BY DEF SInv, LookOK, TypeOK
<1>3. CASE pick.at = "collect"
  <2>1. look' = Fresh /\ (NextServer \/ pick' = [pick EXCEPT !.i = @ + 1, !.servers = Append(@, Svr)])
    BY <1>3 DEF WithLimit, Collect, NextServer
  <2> QED
    BY <1>2, <1>3, <2>1, CollectUndisturbed
<1>4. CASE pick.at = "score"
  <2>1. Svr \in CanBeChosen /\ Svr \in Servers
    BY <1>1, <1>2, <1>4, LookingAt, CandidatesStay
  <2>2. /\ look.users = status[Svr].users /\ n = UserLimit(status[Svr].cmax)
        /\ look.limit = status[Svr].limit
    BY <1>1, <1>2, <1>4, <2>1, NothingWritten DEF SInv, LookOK
  <2>3. num_slots[Svr] < look.limit /\ look.users < n
    BY <2>1, <2>2 DEF CanBeChosen, Eligible
  <2> DEFINE next == [look EXCEPT !.at = "mem"]
  <2>4. GoOn(next) /\ next.at # "cpu"
    BY <1>2, <1>4, <2>3 DEF WithLimit, Recheck, LookRec
  <2> HIDE DEF next
  <2> QED
    BY <2>4, GoOnUndisturbed
<1> QED
  BY <1>2, <1>3, <1>4

\* Each read.
LEMMA TestActiveUndisturbed ==
    ASSUME SInv, Undisturbed, TestActive
    PROVE  Undisturbed'
<1>1. /\ pick.at = "collect" /\ pick.i \in DOMAIN List /\ Others /\ look \in LookRec
  BY DEF TestActive, Looking, SInv, TypeOK
<1> DEFINE next == [look EXCEPT !.at = "slots"]
<1>2. GoOn(next) \/ NextServer
  BY DEF TestActive
<1>3. next.at # "cpu"
  BY <1>1 DEF LookRec
<1> HIDE DEF next
<1>4. CASE GoOn(next)
  BY <1>1, <1>3, <1>4, GoOnUndisturbed
<1>5. CASE NextServer
  BY <1>1, <1>5, CollectUndisturbed DEF NextServer
<1> QED
  BY <1>2, <1>4, <1>5

LEMMA TestSlotsUndisturbed ==
    ASSUME SInv, Undisturbed, TestSlots
    PROVE  Undisturbed'
<1>1. /\ pick.at = "collect" /\ pick.i \in DOMAIN List /\ Others /\ look \in LookRec
  BY DEF TestSlots, Looking, SInv, TypeOK
<1> DEFINE next == [look EXCEPT !.at = "users"]
<1>2. GoOn(next) \/ NextServer
  BY DEF TestSlots
<1>3. next.at # "cpu"
  BY <1>1 DEF LookRec
<1> HIDE DEF next
<1>4. CASE GoOn(next)
  BY <1>1, <1>3, <1>4, GoOnUndisturbed
<1>5. CASE NextServer
  BY <1>1, <1>5, CollectUndisturbed DEF NextServer
<1> QED
  BY <1>2, <1>4, <1>5

LEMMA ReadSlotsUndisturbed ==
    ASSUME SInv, Undisturbed, ReadSlots
    PROVE  Undisturbed'
<1>1. /\ pick.at = "score" /\ pick.i \in DOMAIN List /\ Others /\ look \in LookRec
  BY DEF ReadSlots, Looking, SInv, TypeOK
<1> DEFINE next == [look EXCEPT !.at = "users", !.limit = status[Svr].limit]
<1>2. IF (Svr \in Redundant) = pick.round THEN GoOn(next) ELSE NextServer
  BY DEF ReadSlots
<1>3. next.at # "cpu"
  BY <1>1 DEF LookRec
<1> HIDE DEF next
<1>4. CASE (Svr \in Redundant) = pick.round
  BY <1>1, <1>2, <1>3, <1>4, GoOnUndisturbed
<1>5. CASE ~ ((Svr \in Redundant) = pick.round)
  BY <1>1, <1>2, <1>5, OtherRoundUndisturbed
<1> QED
  BY <1>4, <1>5

LEMMA ReadUsersUndisturbed ==
    ASSUME SInv, Undisturbed, ReadUsers
    PROVE  Undisturbed'
<1> DEFINE next == [look EXCEPT !.at = "cmax", !.users = status[Svr].users]
<1>1. Others /\ GoOn(next) /\ next.at # "cpu"
  BY DEF ReadUsers, SInv, TypeOK, LookRec
<1> HIDE DEF next
<1> QED
  BY <1>1, GoOnUndisturbed

LEMMA ReadCmaxUndisturbed ==
    ASSUME SInv, Undisturbed, ReadCmax
    PROVE  Undisturbed'
<1>1. /\ look.at = "cmax" /\ Others /\ look \in LookRec /\ Svr \in Servers
      /\ status[Svr].cmax \in seen[Svr].cmax
  BY LookingAt DEF ReadCmax, SInv, TypeOK, LookOK, Recorded
<1>2. CASE status[Svr].cmax = 0 /\ WithLimit(MaxUsers)
  <2>1. MaxUsers \in LimitsRead(Svr)
    BY <1>1, <1>2 DEF LimitsRead, UserLimit
  <2> QED
    BY <1>1, <1>2, <2>1, WithLimitUndisturbed
<1>3. CASE GoOn([look EXCEPT !.at = "again"])
  <2> DEFINE next == [look EXCEPT !.at = "again"]
  <2>1. GoOn(next) /\ next.at # "cpu"
    BY <1>1, <1>3 DEF LookRec
  <2> HIDE DEF next
  <2> QED
    BY <1>1, <2>1, GoOnUndisturbed
<1> QED
  BY <1>2, <1>3 DEF ReadCmax

LEMMA ReadAgainUndisturbed ==
    ASSUME SInv, Undisturbed, ReadAgain
    PROVE  Undisturbed'
<1>1. /\ look.at = "again" /\ Others /\ WithLimit(status[Svr].cmax)
      /\ status[Svr].cmax \in seen[Svr].cmax /\ seen[Svr].cmax # {0}
  BY LookingAt DEF ReadAgain, SInv, LookOK, Recorded
<1>2. status[Svr].cmax \in LimitsRead(Svr)
  BY <1>1 DEF LimitsRead, UserLimit
<1> QED
  BY <1>1, <1>2, WithLimitUndisturbed

LEMMA ReadMemUndisturbed ==
    ASSUME SInv, Undisturbed, ReadMem
    PROVE  Undisturbed'
<1> DEFINE next == [look EXCEPT !.at = "cpu", !.score = WithMem(Bal, Svr)]
<1>1. Others /\ GoOn(next) /\ next.score = WithMem(Bal, Svr)
  BY DEF ReadMem, SInv, TypeOK, LookRec
<1> HIDE DEF next
<1> QED
  BY <1>1, GoOnUndisturbed

\* A new best server is better than all that were compared before.
LEMMA CompareUndisturbed ==
    ASSUME SInv, Undisturbed, Compare
    PROVE  Undisturbed'
<1> DEFINE s == Svr
           score == WithCapacity(Bal, s, look.limit, WithCpu(Bal, s, look.score))
           better == pick.ret = None \/ Greater(Score(Bal, s), pick.scmax)
           of(l) == (pick.servers[l] \in Redundant) <=> pick.round
<1>0. /\ pick.at = "score" /\ pick.i \in DOMAIN List /\ look.at = "cpu" /\ Others /\ look' = Fresh
      /\ pick' = IF pick.ret = None \/ Greater(score, pick.scmax)
                 THEN [pick EXCEPT !.i = @ + 1, !.ret = s, !.scmax = score]
                 ELSE [pick EXCEPT !.i = @ + 1]
  BY DEF Compare, Looking
<1>2. SUFFICES ASSUME quiet PROVE Undisturbed'
  BY <1>0, OthersKeepScores DEF Undisturbed
<1>20. score = Score(Bal, s)
  <2>1. s \in Servers /\ look.limit \in seen[s].limit /\ look.score = WithMem(Bal, s)
    BY <1>0, <1>2, LookingAt DEF SInv, LookOK, Undisturbed
  <2>2. look.limit = status[s].limit
    BY <1>2, <2>1, NothingWritten
  <2> QED
    BY <2>1, <2>2 DEF Score, CpuScore
<1> HIDE DEF score
<1>1. /\ pick \in PickRec /\ pick.at = "score" /\ pick.i \in DOMAIN pick.servers
      /\ pick.bal \in DOMAIN Balancers /\ Others /\ TypeOK /\ s = pick.servers[pick.i]
      /\ pick' = IF better THEN [pick EXCEPT !.i = @ + 1, !.ret = s, !.scmax = Score(Bal, s)]
                 ELSE [pick EXCEPT !.i = @ + 1]
  BY <1>0, <1>20, LookingAt
<1>3. /\ pick.servers \in Seq(Servers) /\ pick.i \in Nat \ {0}
      /\ DOMAIN pick.servers \subseteq Nat /\ pick.round \in BOOLEAN
      /\ pick.ret \in Servers \cup {None}
  BY <1>1, SMTT(40) DEF PickRec
<1>4. OfBalancer /\ (pick.ret # None => BestYet)
  BY <1>1, <1>2 DEF Undisturbed
<1>5. /\ s \in Servers /\ s \in ServersOf(pick.bal) /\ of(pick.i)
      /\ \A l \in DOMAIN pick.servers : pick.servers[l] \in Servers
      /\ \A l \in DOMAIN pick.servers : ~ Missed(pick.servers[l])
  BY <1>0, <1>1, <1>2, <1>3, <1>4, CandidatesStay DEF CanBeChosen, OfBalancer, SInv, LookOK
<1>7. \A l \in DOMAIN pick.servers : l < pick.i /\ of(l) => pick.ret # None
  <2>1. \A l \in DOMAIN pick.servers :
           l < pick.i /\ pick.ret = None /\ (pick.servers[l] \in Redundant) = pick.round
              => Missed(pick.servers[l])
    BY <1>1 DEF SInv, ComparedOK
  <2>2. \A l \in DOMAIN pick.servers : of(l) => (pick.servers[l] \in Redundant) = pick.round
    BY <1>3
  <2> HIDE DEF of
  <2> QED
    BY <1>5, <2>1, <2>2
<1>8. \A l \in DOMAIN pick.servers : l < pick.i + 1 => l < pick.i \/ l = pick.i
  BY <1>3
<1>9. \A x \in Servers : Score(Bal, x) \in Fraction
  BY <1>1, BalTypes, PartsAre
<1>10. pick.ret # None =>
         /\ pick.scmax = Score(Bal, pick.ret) /\ pick.scmax \in Fraction
         /\ \A l \in DOMAIN pick.servers :
               l < pick.i /\ of(l) => NoLess(pick.scmax, Score(Bal, pick.servers[l]))
  BY <1>3, <1>4, <1>9 DEF BestYet
<1>91. s = pick.servers[pick.i] /\ ((s \in Redundant) <=> pick.round)
  BY <1>1, <1>5
<1> HIDE DEF s
<1>11. /\ pick'.at = "score" /\ pick'.bal = pick.bal /\ pick'.i = pick.i + 1
       /\ pick'.servers = pick.servers /\ pick'.round = pick.round /\ pick'.client = pick.client
       /\ pick'.ret = IF better THEN s ELSE pick.ret
       /\ pick'.scmax = IF better THEN Score(Bal, s) ELSE pick.scmax
  <2>1. CASE better
    <3> HIDE DEF better
    <3> QED
      BY <1>1, <2>1 DEF PickRec
  <2>2. CASE ~better
    <3> HIDE DEF better
    <3> QED
      BY <1>1, <2>2 DEF PickRec
  <2> QED
    BY <2>1, <2>2
<1>12. OfBalancer' /\ Bal' = Bal /\ ServersOf(pick.bal)' = ServersOf(pick.bal)
  BY <1>1, <1>4, <1>11, StillOfBalancer DEF OfBalancer, ServersOf
<1>14. /\ Score(Bal, pick.ret)' = Score(Bal, pick'.ret)
       /\ \A l : Score(Bal, pick.servers[l])' = Score(Bal, pick'.servers[l])
  BY <1>1, <1>12 DEF Others, Score, WithCapacity, CpuScore, WithCpu, WithMem, Capacity
<1>15. ASSUME pick'.ret # None, NEW l \in DOMAIN pick.servers, l < pick.i + 1, of(l)
       PROVE  NoLess(pick'.scmax, Score(Bal, pick.servers[l]))
  <2>1. CASE better
    <3>1. pick'.scmax = Score(Bal, s)
      BY <1>11, <2>1
    <3>2. CASE l = pick.i
      BY <1>5, <1>9, <1>91, <3>1, <3>2, Itself
    <3>3. CASE l < pick.i
      <4>1. pick.ret # None
        BY <1>7, <1>15, <3>3
      <4>2. Greater(Score(Bal, s), pick.scmax)
        BY <2>1, <4>1
      <4>3. NoLess(pick.scmax, Score(Bal, pick.servers[l]))
        BY <1>10, <1>15, <3>3, <4>1
      <4>4. Greater(Score(Bal, s), Score(Bal, pick.servers[l]))
        BY <1>5, <1>9, <1>10, <4>1, <4>2, <4>3, Transitive
      <4> QED
        BY <1>5, <1>9, <3>1, <4>4, GreaterNoLess
    <3> QED
      BY <1>8, <1>15, <3>2, <3>3
  <2>2. CASE ~better
    <3>1. pick'.scmax = pick.scmax /\ pick.ret # None
      BY <1>11, <1>15, <2>2
    <3>2. CASE l = pick.i
      <4>1. ~ Greater(Score(Bal, s), pick.scmax)
        BY <2>2
      <4> QED
        BY <1>5, <1>9, <1>10, <3>1, <3>2, <4>1, <1>91, NoLessIs
    <3>3. CASE l < pick.i
      BY <1>10, <1>15, <3>1, <3>3
    <3> QED
      BY <1>8, <1>15, <3>2, <3>3
  <2> QED
    BY <2>1, <2>2
<1>16. ASSUME pick'.ret # None
       PROVE  /\ (pick'.ret \in Redundant) <=> pick.round
              /\ pick'.ret \in ServersOf(pick.bal)
              /\ pick'.scmax = Score(Bal, pick'.ret)
  <2>1. CASE better
    <3>1. (s \in Redundant) <=> pick.round
      BY <1>91
    <3> HIDE DEF better
    <3> QED
      BY <1>5, <1>11, <2>1, <3>1
  <2>2. CASE ~better
    <3> HIDE DEF better
    <3> QED
      BY <1>4, <1>11, <1>16, <2>2 DEF BestYet
  <2> QED
    BY <2>1, <2>2
<1> HIDE DEF better
<1>17. ASSUME pick'.ret # None PROVE BestYet'
  <2>1. /\ (pick'.ret \in Redundant) <=> pick'.round
        /\ pick'.ret \in ServersOf(pick'.bal)
        /\ pick'.scmax = Score(Bal, pick.ret)'
    BY <1>11, <1>14, <1>16, <1>17
  <2>2. ASSUME NEW l \in DOMAIN pick'.servers,
               l < pick'.i, (pick'.servers[l] \in Redundant) <=> pick'.round
        PROVE  NoLess(pick'.scmax, Score(Bal, pick.servers[l])')
    <3>1. l \in DOMAIN pick.servers /\ l < pick.i + 1 /\ of(l)
      BY <1>11, <2>2
    <3>2. NoLess(pick'.scmax, Score(Bal, pick.servers[l]))
      BY <1>15, <1>17, <3>1
    <3> QED
      BY <1>11, <1>14, <3>2
  <2> QED
    BY <2>1, <2>2 DEF BestYet
<1> HIDE DEF of
<1> QED
  BY <1>0, <1>2, <1>11, <1>12, <1>17, FreshType, MovedUndisturbed

\* Without candidates that could be chosen there are no candidates.
LEMMA ComparedUndisturbed ==
    ASSUME SInv, Undisturbed, Compared
    PROVE  Undisturbed'
<1>1. /\ pick \in PickRec /\ pick.at = "score" /\ pick.i \notin DOMAIN pick.servers /\ Others
      /\ look'.at = "first"
  BY DEF SInv, TypeOK, Compared, LookOK, List
<1>2. SUFFICES ASSUME quiet PROVE Undisturbed'
  BY <1>1, OthersKeepScores DEF Undisturbed
<1>3. /\ pick.servers \in Seq(Servers) /\ pick.i \in Nat \ {0} /\ pick.round \in BOOLEAN
  BY <1>1 DEF PickRec
<1>4. OfBalancer
  BY <1>1, <1>2 DEF Undisturbed
<1>5. CASE pick.ret # None
  <2>1. pick' = [pick EXCEPT !.at = "done"]
    BY <1>5 DEF Compared
  <2>2. pick'.at = "done"
    BY <1>1, <2>1 DEF PickRec
  <2> QED
    BY <1>1, <1>2, <2>2, MovedUndisturbed
<1>6. CASE pick.ret = None /\ ~pick.round
  <2>1. pick' = [pick EXCEPT !.round = TRUE, !.i = 1, !.scmax = <<0, 1>>]
    BY <1>6 DEF Compared
  <2>2. /\ pick'.at = "score" /\ pick'.ret = None /\ pick'.bal = pick.bal
        /\ pick'.servers = pick.servers /\ pick'.client = pick.client
    BY <1>1, <1>6, <2>1 DEF PickRec
  <2>3. OfBalancer'
    BY <1>1, <1>4, <2>2, StillOfBalancer DEF OfBalancer
  <2> QED
    BY <1>1, <1>2, <2>2, <2>3, MovedUndisturbed
<1>7. CASE pick.ret = None /\ pick.round
  <2>1. pick' = [pick EXCEPT !.at = "client", !.bal = @ + 1]
    BY <1>7 DEF Compared
  <2>2. pick'.at = "client" /\ pick'.servers = pick.servers
    BY <1>1, <2>1 DEF PickRec
  <2>3. \A l \in DOMAIN pick.servers : l < pick.i
    BY <1>1, <1>3, Before
  <2>4. \A l \in DOMAIN pick.servers : Missed(pick.servers[l])
    BY <1>1, <1>3, <1>7, <2>3 DEF SInv, ComparedOK
  <2>5. DOMAIN pick.servers = {}
    BY <1>2, <2>4, CandidatesStay
  <2>6. pick.servers = <<>>
    <3> DEFINE q == pick.servers
    <3>1. q \in Seq(Servers) /\ DOMAIN q = {}
      BY <1>3, <2>5
    <3> HIDE DEF q
    <3>2. q = <<>>
      BY <3>1, SMTT(30)
    <3> QED
      BY <3>2 DEF q
  <2> QED
    BY <1>1, <1>2, <2>2, <2>6, MovedUndisturbed
<1> QED
  BY <1>3, <1>5, <1>6, <1>7

\* At the end nothing is left to compare.
LEMMA GiveUpUndisturbed ==
    ASSUME SInv, Undisturbed, GiveUp
    PROVE  Undisturbed'
<1>1. /\ pick \in PickRec /\ Others /\ pick' = [pick EXCEPT !.at = "done"] /\ look'.at = "first"
  BY DEF SInv, TypeOK, GiveUp, LookOK
<1>2. pick'.at = "done"
  BY <1>1 DEF PickRec
<1> QED
  BY <1>1, <1>2, OthersKeepScores, MovedUndisturbed DEF Undisturbed

\* Every step keeps what is known as long as no server is written.
LEMMA NextUndisturbed ==
    SInv /\ Undisturbed /\ [Select \/ \E s \in Servers : Write(s)]_vars => Undisturbed'
<1> SUFFICES ASSUME SInv, Undisturbed, [Select \/ \E s \in Servers : Write(s)]_vars
             PROVE  Undisturbed'
  OBVIOUS
<1>1. CASE Select
  BY <1>1, FindClientUndisturbed, TestActiveUndisturbed, TestSlotsUndisturbed,
     CollectedUndisturbed, ReadSlotsUndisturbed, ReadMemUndisturbed, CompareUndisturbed,
     ComparedUndisturbed, ReadUsersUndisturbed, ReadCmaxUndisturbed, ReadAgainUndisturbed,
     GiveUpUndisturbed DEF Select
<1>2. CASE \E s \in Servers : Write(s)
  BY <1>2 DEF Write, Undisturbed
<1>3. CASE UNCHANGED vars
  <2>1. Others /\ GoOn(look)
    BY <1>3 DEF vars, Others, GoOn
  <2>2. SUFFICES ASSUME quiet PROVE Undisturbed'
    BY <2>1, OthersKeepScores DEF Undisturbed
  <2>3. look.at = "cpu" => look.score = WithMem(Bal, Svr)
    BY <2>2 DEF Undisturbed
  <2> QED
    BY <2>1, <2>3, GoOnUndisturbed
<1> QED
  BY <1>1, <1>2, <1>3

\* The best of all candidates is dominated by none.
LEMMA BestNotDominated ==
    ASSUME SInv, Undisturbed, quiet, Compared, pick.ret # None
    PROVE  NotDominated
<1>1. /\ pick \in PickRec /\ pick.at = "score" /\ pick.i \notin DOMAIN pick.servers
      /\ pick.bal \in DOMAIN Balancers /\ TypeOK
  BY DEF SInv, TypeOK, Compared, CollectedOK, List
<1>2. /\ pick.servers \in Seq(Servers) /\ pick.i \in Nat \ {0} /\ pick.ret \in Servers
  BY <1>1 DEF PickRec
<1>3. BestYet
  BY <1>1 DEF Undisturbed
<1>4. SUFFICES ASSUME NEW t \in ServersOf(pick.bal) \ {nosvr}, Eligible(t),
                      (t \in Redundant) = (pick.ret \in Redundant), Dominates(Bal, t, pick.ret)
               PROVE  FALSE
  BY DEF NotDominated
<1>5. PICK j \in DOMAIN Bal.servers : Bal.servers[j] = t
  BY <1>1, BalTypes
<1>6. t \in Servers
  BY <1>1, <1>5, BalTypes
<1>7. ~ Missed(t)
  BY <1>4, <1>6, NothingWritten DEF Missed
<1>8. PICK l \in DOMAIN pick.servers : pick.servers[l] = t
  BY <1>1, <1>5, <1>7 DEF SInv, CollectedOK
<1>9. l < pick.i
  BY <1>1, <1>2, Before
<1>10. (pick.servers[l] \in Redundant) <=> pick.round
  BY <1>3, <1>4, <1>8 DEF BestYet
<1>11. NoLess(Score(Bal, pick.ret), Score(Bal, t))
  BY <1>3, <1>8, <1>9, <1>10 DEF BestYet
<1>12. Greater(Score(Bal, t), Score(Bal, pick.ret))
  BY <1>1, <1>2, <1>4, <1>6, BalTypes, DominatingScores
<1>13. Score(Bal, t) \in Fraction /\ Score(Bal, pick.ret) \in Fraction
  BY <1>1, <1>2, <1>6, BalTypes, PartsAre
<1> QED
  BY <1>11, <1>12, <1>13, NoLessIs

-----------------------------------------------------------------------------
(* The end of the loops as a step of Routing.                                   *)

\* The servers whose number of users is at its limit.
Busy == {s \in Servers : ~ (status[s].users < UserLimit(status[s].cmax))}

\* Balancers with a client group and a server for the connection.
Useful == {b \in DOMAIN Balancers :
             /\ Admitting(Balancers[b]) # {}
             /\ \E s \in ServersOf(b) : s # nosvr /\ Eligible(s)}

\* The variables and constants of Routing.
MBalancers == [b \in DOMAIN Balancers |-> [clients |-> Balancers[b].clients,
                                           servers |-> ServersOf(b)]]
MRoute == [r \in {x \in {"old", "new"} : IF x = "old" THEN nosvr # None ELSE Chosen} |->
              IF r = "old" THEN RouteTo(None, nosvr) ELSE RouteTo(pick.client, pick.ret)]
MMain == IF pick.at # "done" THEN Call("route", None)
         ELSE IF Chosen THEN Call("connect", "new")
         ELSE IF nosvr # None THEN Call("drop", None)
         ELSE [at |-> "loop", host |-> None, failed |-> None, route |-> None]
MChan == [c \in {x \in {"failed"} : nosvr # None} |->
             [host |-> "source", route |-> "old", connected |-> FALSE]]
MCache == [h \in {"source"} |-> None]

\* NULL is no object of the mapping.
LEMMA NoneIsNothing == None \notin {"source", "old", "new", "failed"} /\ None \notin Servers
BY SelectionAssumption, MappingAssumption

\* Nothing is cached: no route is found and none is evicted.
LEMMA NothingCached ==
    ASSUME pick.at # "done"
    PROVE  /\ R!Found = None /\ ~ R!Refused /\ R!Gone = {} /\ R!NextSweep = 0
           /\ R!CacheWithout({}) = MCache
           /\ R!HeapWithout({}) = MRoute
<1>1. R!Evicted = {}
  BY DEF R!Evicted
<1>2. R!Found = None
  BY <1>1 DEF R!Found, Call
<1>3. ~ R!Refused
  BY <1>2 DEF R!Refused
<1>4. R!Gone = {}
  BY <1>1, <1>3 DEF R!Gone
<1>5. R!NextSweep = 0
  BY DEF R!NextSweep, R!CacheOn
<1>6. R!CacheWithout({}) = MCache
  BY DEF R!CacheWithout, MCache
<1>7. R!HeapWithout({}) = MRoute
  BY DEF R!HeapWithout, R!Without, R!Restrict, MRoute
<1> QED
  BY <1>2, <1>3, <1>4, <1>5, <1>6, <1>7

\* The server of the failed channel is nosvr.
LEMMA FailedServer ==
    ASSUME pick.at # "done"
    PROVE  R!NoSvr = nosvr
<1>1. CASE nosvr = None
  BY <1>1 DEF R!NoSvr, Call
<1>2. CASE nosvr # None
  BY <1>2, NoneIsNothing DEF R!NoSvr, R!ServerOf, Call, RouteTo
<1> QED
  BY <1>1, <1>2

\* Balancers have their types.
LEMMA BalancerIs ==
    ASSUME NEW b \in DOMAIN Balancers
    PROVE  Balancers[b] \in BalancerRec
BY SelectionAssumption

\* Both admit the connection to the same client groups.
LEMMA MappedAdmitting ==
    ASSUME pick.at # "done", NEW b \in DOMAIN Balancers
    PROVE  R!Admitting(MBalancers[b]) = Admitting(Balancers[b])
<1>1. MBalancers[b].clients = Balancers[b].clients
  BY DEF MBalancers
<1>2. Balancers[b].clients \in Seq(Clients)
  BY BalancerIs DEF BalancerRec
<1>3. \A i \in DOMAIN Balancers[b].clients : Balancers[b].clients[i] \in Clients
  BY <1>2
<1> QED
  BY <1>1, <1>3 DEF R!Admitting, Admitting, Call

\* The candidates of Routing are the servers that can be chosen.
LEMMA MappedCandidates ==
    ASSUME pick.at # "done", NEW b \in DOMAIN Balancers, NEW busy, busy = Busy
    PROVE  R!Candidates(MBalancers[b], busy) = {s \in ServersOf(b) : s # nosvr /\ Eligible(s)}
<1>1. MBalancers[b].servers = ServersOf(b)
  BY DEF MBalancers
<1>2. ServersOf(b) \subseteq Servers
  <2>1. Balancers[b].servers \in Seq(Servers)
    BY BalancerIs DEF BalancerRec
  <2> QED
    BY <2>1 DEF ServersOf, Range
<1> QED
  BY <1>1, <1>2, FailedServer DEF R!Candidates, Busy, Eligible

\* The usable balancers of Routing are the useful ones.
LEMMA MappedUsable ==
    ASSUME pick.at # "done", NEW busy, busy = Busy
    PROVE  R!Usable(busy) = Useful
<1>1. R!Usable(busy) = {i \in DOMAIN MBalancers : /\ R!Admitting(MBalancers[i]) # {}
                                                  /\ R!Candidates(MBalancers[i], busy) # {}}
  BY DEF R!Usable, MBalancers
<1>2. DOMAIN MBalancers = DOMAIN Balancers
  BY DEF MBalancers
<1>3. ASSUME NEW b \in DOMAIN Balancers
      PROVE  R!Admitting(MBalancers[b]) # {} /\ R!Candidates(MBalancers[b], busy) # {} <=> b \in Useful
  <2>1. R!Admitting(MBalancers[b]) = Admitting(Balancers[b])
    BY MappedAdmitting
  <2>2. R!Candidates(MBalancers[b], busy) = {s \in ServersOf(b) : s # nosvr /\ Eligible(s)}
    BY MappedCandidates
  <2> QED
    BY <2>1, <2>2 DEF Useful
<1>4. Useful \subseteq DOMAIN Balancers
  BY DEF Useful
<1> QED
  BY <1>1, <1>2, <1>3, <1>4, Zenon

\* What is not above any other is the least.
LEMMA LeastIs ==
    ASSUME NEW S \in SUBSET Nat, NEW x \in S, \A y \in S : x <= y
    PROVE  Min(S) = x
<1>1. \A z \in S : (\A y \in S : z <= y) => z = x
  OBVIOUS
<1> QED
  BY <1>1 DEF Min

\* Undisturbed, a balancer passed by cannot be used.
LEMMA PassedAreUseless ==
    ASSUME SInv, Undisturbed, quiet, NEW b \in Passed
    PROVE  b \notin Useful
<1>1. Admitting(Balancers[b]) # {} => \A s \in ServersOf(b) \ {nosvr} : MayFail(s)
  BY DEF SInv, InOrder
<1>2. ServersOf(b) \subseteq Servers
  <2>1. Balancers[b].servers \in Seq(Servers)
    BY BalancerIs DEF BalancerRec, Passed
  <2> QED
    BY <2>1 DEF ServersOf, Range
<1>3. \A s \in Servers : MayFail(s) => ~ Eligible(s)
  BY NothingWritten
<1> QED
  BY <1>1, <1>2, <1>3 DEF Useful

\* The two steps of Routing, of its variables.
LEMMA FreshIs ==
    ASSUME NEW busy
    PROVE  R!RouteFresh(busy) <=>
        /\ MMain.at = "route"
        /\ R!Found = None \/ R!Refused
        /\ R!Usable(busy) # {}
        /\ \E r \in {"old", "new"} \ DOMAIN MRoute,
              s \in R!Preferred(R!Candidates(MBalancers[Min(R!Usable(busy))], busy)) :
             /\ MRoute' = R!With(R!HeapWithout(R!Gone), r,
                    [client |-> MBalancers[Min(R!Usable(busy))].clients[
                                    Min(R!Admitting(MBalancers[Min(R!Usable(busy))]))],
                     server |-> s, cached |-> FALSE, num_slots |-> 0, idle |-> 0])
             /\ MMain' = [MMain EXCEPT !.at = "connect", !.route = r]
        /\ MCache' = R!CacheWithout(R!Gone)
        /\ 0 = R!NextSweep
        /\ UNCHANGED <<R!status, R!counts, MChan>>
BY DEF R!RouteFresh, MRoute, MMain, MCache, MChan, MBalancers, R!Min, Min

\* The step that finds nothing.
LEMMA NoneIs ==
    ASSUME NEW busy
    PROVE  R!RouteNone(busy) <=>
        /\ MMain.at = "route"
        /\ R!Found = None \/ R!Refused
        /\ R!Usable(busy) = {}
        /\ MCache' = R!CacheWithout(R!Gone)
        /\ MRoute' = R!HeapWithout(R!Gone)
        /\ 0 = R!NextSweep
        /\ MMain' = R!Return
        /\ UNCHANGED <<R!status, R!counts, MChan>>
BY DEF R!RouteNone, MRoute, MMain, MCache, MChan

\* What the selection leaves alone does not change for Routing either.
LEMMA MappedOthers ==
    ASSUME Others
    PROVE  /\ UNCHANGED <<R!status, R!counts>>
           /\ UNCHANGED MChan
BY DEF Others, R!status, R!counts, MChan

\* The main thread goes on to connect on the new route.
LEMMA GoesOn ==
    ASSUME NEW m, NEW f, m = [at |-> "route", host |-> "source", route |-> None, failed |-> f]
    PROVE  [m EXCEPT !.at = "connect", !.route = "new"] =
             [at |-> "connect", host |-> "source", route |-> "new", failed |-> f]
<1> DEFINE Mains == [at : {"route", "connect"}, host : {"source"}, route : {None, "new"}, failed : {f}]
           x == [m EXCEPT !.at = "connect", !.route = "new"]
<1>1. m \in Mains
  OBVIOUS
<1>2. x \in Mains /\ x.at = "connect" /\ x.route = "new"
  BY <1>1
<1> HIDE DEF x
<1>3. /\ x = [at |-> x.at, host |-> x.host, route |-> x.route, failed |-> x.failed]
      /\ x.host = "source" /\ x.failed = f
  BY <1>2
<1>4. x = [at |-> "connect", host |-> "source", route |-> "new", failed |-> f]
  BY <1>2, <1>3
<1> QED
  BY <1>4 DEF x

\* A balancer with its first client group and the best of its preferred servers.
LEMMA ChoiceIsFresh ==
    ASSUME SInv, Undisturbed, quiet, Compared, pick.ret # None,
           NEW busy, busy = Busy
    PROVE  R!RouteFresh(busy) /\ NotDominated'
<1>1. /\ pick \in PickRec /\ pick.at = "score" /\ pick.bal \in DOMAIN Balancers /\ Others
      /\ pick' = [pick EXCEPT !.at = "done"]
  BY DEF SInv, TypeOK, Compared, CollectedOK
<1>2. pick.ret \in Servers /\ pick.bal \in Nat
  BY <1>1 DEF PickRec
<1>3. /\ pick'.at = "done" /\ pick'.ret = pick.ret /\ pick'.bal = pick.bal
      /\ pick'.client = pick.client /\ nosvr' = nosvr
  BY <1>1 DEF PickRec, Others
<1>4. /\ BestYet
      /\ Admitting(Bal) # {} /\ pick.client = Bal.clients[Min(Admitting(Bal))]
  BY <1>1 DEF Undisturbed, OfBalancer
<1>5. /\ pick.ret \in ServersOf(pick.bal) /\ pick.ret # nosvr /\ Eligible(pick.ret)
  BY <1>2, <1>4, NothingWritten DEF BestYet, SInv, CandidatesOK, WasEligible
<1>6. pick.bal \in Useful
  BY <1>1, <1>4, <1>5 DEF Useful, Bal
<1>7. Min(Useful) = pick.bal
  <2>1. Useful \in SUBSET Nat
    <3>1. DOMAIN Balancers \subseteq Nat
      BY SelectionAssumption
    <3> QED
      BY <3>1 DEF Useful
  <2>2. \A b \in Useful : pick.bal <= b
    <3>1. SUFFICES ASSUME NEW b \in Useful, b < pick.bal PROVE FALSE
      BY <1>2, <2>1
    <3>2. b \in Passed
      BY <3>1 DEF Useful, Passed
    <3> QED
      BY <3>1, <3>2, PassedAreUseless
  <2> QED
    BY <1>6, <2>1, <2>2, LeastIs
<1> DEFINE b == MBalancers[pick.bal]
           k == b.clients[Min(R!Admitting(b))]
           C == R!Candidates(b, busy)
<1>8. /\ R!Usable(busy) = Useful /\ R!Usable(busy) # {}
      /\ MBalancers[Min(R!Usable(busy))] = b
      /\ R!Admitting(b) = Admitting(Bal)
      /\ C = {s \in ServersOf(pick.bal) : s # nosvr /\ Eligible(s)}
  BY <1>1, <1>6, <1>7, MappedUsable, MappedAdmitting, MappedCandidates DEF Bal
<1>9. k = pick.client
  <2>1. b.clients = Bal.clients
    BY <1>1 DEF MBalancers, Bal
  <2> HIDE DEF b
  <2> QED
    BY <1>4, <1>8, <2>1
<1>10. pick.ret \in R!Preferred(C)
  <2>1. pick.ret \in C
    BY <1>5, <1>8
  <2>2. pick.ret \in Redundant => C \subseteq Redundant
    <3>1. SUFFICES ASSUME pick.ret \in Redundant, NEW s \in ServersOf(pick.bal),
                          s # nosvr, Eligible(s), s \notin Redundant
                   PROVE  FALSE
      BY <1>8
    <3>2. MayFail(s)
      BY <3>1 DEF SInv, InOrder
    <3>3. s \in Servers
      BY <1>1, <3>1, BalTypes
    <3> QED
      BY <3>1, <3>2, <3>3, NothingWritten
  <2> HIDE DEF C
  <2> QED
    BY <2>1, <2>2 DEF R!Preferred
<1>11. /\ R!Found = None /\ R!Gone = {} /\ R!NextSweep = 0
       /\ R!CacheWithout(R!Gone) = MCache /\ R!HeapWithout(R!Gone) = MRoute
  BY <1>1, NothingCached
<1>12. MRoute' = R!With(MRoute, "new", [client |-> k, server |-> pick.ret, cached |-> FALSE,
                                        num_slots |-> 0, idle |-> 0])
  <2>1. MRoute = [r \in {x \in {"old", "new"} : x = "old" /\ nosvr # None} |-> RouteTo(None, nosvr)]
    BY <1>1 DEF MRoute, Chosen
  <2>2. MRoute' = [r \in {x \in {"old", "new"} : x = "old" => nosvr # None} |->
                     IF r = "old" THEN RouteTo(None, nosvr) ELSE RouteTo(k, pick.ret)]
    BY <1>2, <1>3, <1>9, NoneIsNothing DEF MRoute, Chosen, RouteTo
  <2> HIDE DEF k
  <2>3. RouteTo(k, pick.ret) = [client |-> k, server |-> pick.ret, cached |-> FALSE,
                                num_slots |-> 0, idle |-> 0]
    BY DEF RouteTo
  <2> QED
    BY <2>1, <2>2, <2>3 DEF R!With
<1>13. MMain.at = "route" /\ MMain' = [MMain EXCEPT !.at = "connect", !.route = "new"]
  <2>1. MMain = Call("route", None)
    BY <1>1 DEF MMain
  <2>2. MMain' = Call("connect", "new")
    BY <1>2, <1>3, NoneIsNothing DEF MMain, Chosen, Call
  <2> DEFINE f == IF nosvr = None THEN None ELSE "failed"
  <2>3. MMain = [at |-> "route", host |-> "source", route |-> None, failed |-> f]
    BY <2>1 DEF Call
  <2>4. MMain' = [at |-> "connect", host |-> "source", route |-> "new", failed |-> f]
    BY <2>2 DEF Call
  <2> HIDE DEF f
  <2>5. [MMain EXCEPT !.at = "connect", !.route = "new"] = MMain'
    BY <2>3, <2>4, GoesOn
  <2> QED
    BY <2>3, <2>5
<1>14. "new" \in {"old", "new"} \ DOMAIN MRoute
  BY <1>1 DEF MRoute, Chosen
<1> HIDE DEF k, C, b
<1>15. R!RouteFresh(busy)
  <2>1. \E r \in {"old", "new"} \ DOMAIN MRoute, s \in R!Preferred(C) :
           /\ MRoute' = R!With(R!HeapWithout(R!Gone), r, [client |-> k, server |-> s, cached |-> FALSE,
                                                          num_slots |-> 0, idle |-> 0])
           /\ MMain' = [MMain EXCEPT !.at = "connect", !.route = r]
    BY <1>10, <1>11, <1>12, <1>13, <1>14
  <2>2. MCache' = R!CacheWithout(R!Gone) /\ 0 = R!NextSweep
    BY <1>11 DEF MCache
  <2>3. UNCHANGED <<R!status, R!counts, MChan>>
    BY <1>1, MappedOthers
  <2> QED
    BY <1>8, <1>11, <1>13, <2>1, <2>2, <2>3, FreshIs DEF k, C
<1>16. NotDominated'
  <2>1. NotDominated
    BY BestNotDominated
  <2>2. UNCHANGED <<status, num_slots, nosvr>>
    BY <1>1 DEF Others
  <2>3. \A t : Dominates(Bal, t, pick.ret)' = Dominates(Bal, t, pick.ret)
    BY <1>3, <2>2 DEF Dominates, CapacityOf, Bal
  <2> QED
    BY <1>3, <2>1, <2>2, <2>3 DEF NotDominated, Eligible
<1> QED
  BY <1>15, <1>16

\* When no balancer is left none can be used.
LEMMA RefusalIsNone ==
    ASSUME SInv, Undisturbed, quiet, GiveUp, NEW busy, busy = Busy
    PROVE  R!RouteNone(busy) /\ NotDominated'
<1>1. /\ pick \in PickRec /\ pick.at = "client" /\ pick.bal \notin DOMAIN Balancers /\ Others
      /\ pick' = [pick EXCEPT !.at = "done"] /\ pick.ret = None
  BY DEF SInv, TypeOK, GiveUp, ComparedOK
<1>2. pick'.at = "done" /\ pick'.ret = None /\ nosvr' = nosvr
  BY <1>1 DEF PickRec, Others
<1>3. R!Usable(busy) = {}
  <2>1. pick.bal \in Nat \ {0}
    BY <1>1 DEF PickRec
  <2>2. \A b \in DOMAIN Balancers : b \in Passed
    BY <1>1, <2>1, SelectionAssumption, Before DEF Passed
  <2>3. Useful = {}
    BY <2>2, PassedAreUseless DEF Useful
  <2> QED
    BY <1>1, <2>3, MappedUsable
<1>4. /\ R!Found = None /\ R!Gone = {} /\ R!NextSweep = 0
      /\ R!CacheWithout(R!Gone) = MCache /\ R!HeapWithout(R!Gone) = MRoute
  BY <1>1, NothingCached
<1>5. MRoute' = MRoute
  BY <1>1, <1>2 DEF MRoute, Chosen
<1>6. MMain.at = "route" /\ MMain' = R!Return
  <2>1. CASE nosvr = None
    BY <1>1, <1>2, <2>1 DEF MMain, Chosen, Call, R!Return, R!Idle
  <2>2. CASE nosvr # None
    BY <1>1, <1>2, <2>2, NoneIsNothing DEF MMain, Chosen, Call, R!Return
  <2> QED
    BY <2>1, <2>2
<1>7. R!RouteNone(busy)
  <2>1. MCache' = MCache
    BY DEF MCache
  <2> QED
    BY <1>1, <1>3, <1>4, <1>5, <1>6, <2>1, MappedOthers, NoneIs
<1> QED
  BY <1>2, <1>7 DEF NotDominated

\* A step that looks at a server does not end the selection.
LEMMA GoesAhead ==
    ASSUME pick \in PickRec
    PROVE  /\ \A next : GoOn(next) => pick'.at = pick.at
           /\ NextServer => pick'.at = pick.at
           /\ \A n : WithLimit(n) => pick'.at = pick.at
<1>1. \A next : GoOn(next) => pick'.at = pick.at
  BY DEF GoOn
<1>2. NextServer => pick'.at = pick.at
  BY DEF NextServer, PickRec
<1>3. ASSUME NEW n, Collect(n) PROVE pick'.at = pick.at
  <2>1. CASE pick' = [pick EXCEPT !.i = @ + 1, !.servers = Append(@, Svr)]
    BY <2>1 DEF PickRec
  <2> QED
    BY <1>2, <1>3, <2>1 DEF Collect
<1>4. ASSUME NEW n, Recheck(n) PROVE pick'.at = pick.at
  BY <1>1, <1>2, <1>4 DEF Recheck
<1> QED
  BY <1>1, <1>2, <1>3, <1>4 DEF WithLimit

-----------------------------------------------------------------------------
\* Every variable of a selection keeps its type, whatever the callback writes.
THEOREM SelectionTypes == Spec => []TypeOK
<1>1. SInv => TypeOK
  BY DEF SInv
<1> QED
  BY <1>1, InitSInv, NextSInv, PTL DEF Spec

\* nrdpx_select_server returns a server that passed each test at some time since the
\* selection began, is not the one that failed, and is below its configured limit,
\* though the callback writes between any two reads of its status.
THEOREM ChosenWasEligible == Spec => []WasEligible
<1>1. SInv => WasEligible
  BY DEF SInv, CandidatesOK
<1> QED
  BY <1>1, InitSInv, NextSInv, PTL DEF Spec

\* Balancers are tried in order and redundant servers last: what is passed over failed
\* a test at some time of the selection.
THEOREM ChoiceInOrder == Spec => []InOrder
<1>1. SInv => InOrder
  BY DEF SInv
<1> QED
  BY <1>1, InitSInv, NextSInv, PTL DEF Spec

\* When no server is written meanwhile, the loops over balancers, client groups and
\* servers do the one step of Routing, and choose a server that no other dominates.
THEOREM LoopsChooseBest == Spec => ChoosesBest
<1> DEFINE Inv == SInv /\ Undisturbed
           Step == Select \/ \E s \in Servers : Write(s)
           Choice == quiet /\ pick.at # "done" /\ pick'.at = "done" =>
                       /\ \E busy \in SUBSET Servers : R!RouteFresh(busy) \/ R!RouteNone(busy)
                       /\ NotDominated'
<1>1. Init => Inv
  BY InitSInv, InitUndisturbed
<1>2. Inv /\ [Step]_vars => Inv'
  BY NextSInv, NextUndisturbed
<1>3. Inv /\ [Step]_vars => [Choice]_vars
  <2>1. SUFFICES ASSUME Inv, Step, quiet, pick.at # "done", pick'.at = "done"
                 PROVE  /\ \E busy \in SUBSET Servers : R!RouteFresh(busy) \/ R!RouteNone(busy)
                        /\ NotDominated'
    BY Zenon
  <2>2. pick \in PickRec
    BY <2>1 DEF SInv, TypeOK
  <2>3. PICK S \in SUBSET Servers : S = Busy
    BY DEF Busy
  <2>4. CASE Compared
    <3>1. pick.ret # None
      BY <2>1, <2>2, <2>4 DEF Compared, PickRec
    <3>2. SInv /\ Undisturbed /\ quiet
      BY <2>1
    <3>3. R!RouteFresh(S) /\ NotDominated'
      BY <2>3, <2>4, <3>1, <3>2, ChoiceIsFresh
    <3> QED
      BY <2>3, <3>3, ZenonT(40)
  <2>5. CASE GiveUp
    <3>1. SInv /\ Undisturbed /\ quiet
      BY <2>1
    <3>2. R!RouteNone(S) /\ NotDominated'
      BY <2>3, <2>5, <3>1, RefusalIsNone
    <3> QED
      BY <2>3, <3>2, Zenon
  <2>6. ~ FindClient /\ ~ Collected
    BY <2>1, <2>2, ZenonT(40) DEF FindClient, Collected, PickRec
  <2>7. ~ TestActive /\ ~ TestSlots /\ ~ ReadSlots
    BY <2>1, <2>2, GoesAhead, ZenonT(40) DEF TestActive, TestSlots, ReadSlots
  <2>8. ~ Compare /\ ~ ReadMem /\ ~ ReadUsers
    BY <2>1, <2>2, GoesAhead, ZenonT(40) DEF Compare, ReadMem, ReadUsers, PickRec
  <2>81. ~ ReadCmax /\ ~ ReadAgain
    BY <2>1, <2>2, GoesAhead DEF ReadCmax, ReadAgain
  <2>9. ~ \E s \in Servers : Write(s)
    BY <2>1 DEF Write
  <2> QED
    BY <2>1, <2>4, <2>5, <2>6, <2>7, <2>8, <2>81, <2>9 DEF Select
<1>4. Choice <=> (quiet /\ pick.at # "done" /\ pick'.at = "done" =>
                       /\ \E busy \in SUBSET Servers : R!RouteFresh(busy) \/ R!RouteNone(busy)
                       /\ NotDominated')
  OBVIOUS
<1> HIDE DEF Inv, Choice
<1> QED
  BY <1>1, <1>2, <1>3, <1>4, PTL DEF Spec, ChoosesBest, Step
=============================================================================
