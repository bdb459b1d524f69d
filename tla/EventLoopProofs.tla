-------------------------- MODULE EventLoopProofs ---------------------------
(***************************************************************************)
(* The event loop handles the bytes as Relay does, so that they form       *)
(* streams, for any number of connections and descriptors.                 *)
(***************************************************************************)
EXTENDS EventLoop, RelayProofs, WellFoundedInduction

USE EventLoopAssumption

\* Where the index of the loop over the channels can be.
Position ==
    /\ pc = "serve" => InPass
    /\ pc = "accept" => i = 1

LInv == IInv /\ TypeOK /\ Position /\ InTurn

ChanRec == [conn : Conns, source : Fds, target : Fds, seen : BOOLEAN]

-----------------------------------------------------------------------------
(* Descriptors and the sequence of channels. *)

LEMMA LowestFree ==
    ASSUME NEW F \in SUBSET Fds, F # {}
    PROVE  Lowest(F) \in F
<1>1. F \subseteq Nat
  OBVIOUS
<1>2. PICK f \in F : \A g \in F : ~ (<<g, f>> \in OpToRel(<, Nat))
  BY <1>1, NatLessThanWellFounded, WFMin
<1>3. \A g \in F : f <= g
  <2> SUFFICES ASSUME NEW g \in F
               PROVE  f <= g
    OBVIOUS
  <2>1. f \in Nat /\ g \in Nat
    BY <1>1
  <2>2. ~ (g < f)
    BY <1>2, <2>1 DEF OpToRel
  <2> QED
    BY <2>1, <2>2
<1> QED
  BY <1>3 DEF Lowest

LEMMA Removing ==
    ASSUME NEW V, NEW q \in Seq(V), NEW m \in 1 .. Len(q)
    PROVE  /\ RemoveAt(q, m) \in Seq(V)
           /\ Len(RemoveAt(q, m)) = Len(q) - 1
           /\ \A j \in 1 .. Len(q) - 1 :
                 RemoveAt(q, m)[j] = IF j < m THEN q[j] ELSE q[j + 1]
<1> DEFINE p == SubSeq(q, 1, m - 1)
           r == SubSeq(q, m + 1, Len(q))
<1>1. \A j \in 1 .. Len(q) : q[j] \in V
  BY ElementOfSeq
<1>2. m \in Nat /\ Len(q) \in Nat /\ 1 <= m /\ m <= Len(q)
  OBVIOUS
<1>3. /\ p \in Seq(V)
      /\ Len(p) = (IF 1 <= m - 1 THEN m - 1 - 1 + 1 ELSE 0)
      /\ \A j \in 1 .. m - 1 - 1 + 1 : p[j] = q[1 + j - 1]
  <2>1. \A j \in 1 .. m - 1 : q[j] \in V
    BY <1>1, <1>2
  <2>2. 1 \in Int /\ m - 1 \in Int
    BY <1>2
  <2> QED
    BY <2>1, <2>2, SubSeqProperties
<1>4. /\ r \in Seq(V)
      /\ Len(r) = (IF m + 1 <= Len(q) THEN Len(q) - (m + 1) + 1 ELSE 0)
      /\ \A j \in 1 .. Len(q) - (m + 1) + 1 : r[j] = q[(m + 1) + j - 1]
  <2>1. \A j \in m + 1 .. Len(q) : q[j] \in V
    BY <1>1, <1>2
  <2>2. m + 1 \in Int /\ Len(q) \in Int
    BY <1>2
  <2> QED
    BY <2>1, <2>2, SubSeqProperties
<1> HIDE DEF p, r
<1>5. /\ Len(p) = m - 1 /\ Len(r) = Len(q) - m
      /\ \A j \in 1 .. m - 1 : p[j] = q[j]
      /\ \A j \in 1 .. Len(q) - m : r[j] = q[m + j]
  BY <1>2, <1>3, <1>4
<1>6. /\ p \o r \in Seq(V)
      /\ Len(p \o r) = Len(p) + Len(r)
      /\ \A j \in 1 .. Len(p) + Len(r) : (p \o r)[j] = IF j <= Len(p) THEN p[j] ELSE r[j - Len(p)]
  BY <1>3, <1>4, ConcatProperties
<1>7. RemoveAt(q, m) = p \o r
  BY DEF RemoveAt, p, r
<1>8. \A j \in 1 .. Len(q) - 1 : RemoveAt(q, m)[j] = IF j < m THEN q[j] ELSE q[j + 1]
  <2> SUFFICES ASSUME NEW j \in 1 .. Len(q) - 1
               PROVE  RemoveAt(q, m)[j] = IF j < m THEN q[j] ELSE q[j + 1]
    OBVIOUS
  <2>1. Len(p) + Len(r) = Len(q) - 1
    BY <1>2, <1>5
  <2>2. RemoveAt(q, m)[j] = IF j <= Len(p) THEN p[j] ELSE r[j - Len(p)]
    BY <1>6, <1>7, <2>1
  <2>3. CASE j < m
    BY <1>2, <1>5, <2>2, <2>3
  <2>4. CASE ~ (j < m)
    <3>1. j - Len(p) \in 1 .. Len(q) - m /\ m + (j - Len(p)) = j + 1 /\ ~ (j <= Len(p))
      BY <1>2, <1>5, <2>4
    <3> QED
      BY <1>5, <2>2, <2>4, <3>1
  <2> QED
    BY <2>3, <2>4
<1>9. RemoveAt(q, m) \in Seq(V) /\ Len(RemoveAt(q, m)) = Len(q) - 1
  BY <1>2, <1>5, <1>6, <1>7
<1> QED
  BY <1>8, <1>9

LEMMA CurType ==
    ASSUME LInv, InPass
    PROVE  /\ i \in 1 .. Len(chans)
           /\ chans[i] \in ChanRec
           /\ Cur \in Conns
<1>1. i \in 1 .. Len(chans) /\ chans \in Seq(ChanRec)
  BY DEF LInv, TypeOK, LoopOK, InPass, ChanRec
<1>2. chans[i] \in ChanRec
  BY <1>1, ElementOfSeq
<1> QED
  BY <1>1, <1>2 DEF Cur, ChanRec

-----------------------------------------------------------------------------
(* Every step of the event loop is one of Relay or leaves the bytes alone. *)

LEMMA SpeakRelay ==
    ASSUME LInv, NEW k \in Conns, NEW s \in Sides, Speak(k, s)
    PROVE  RelayNext
<1>1. Len(said[k][s]) \in Nat
  BY Lengths DEF LInv
<1>2. MaxSaid[k][s] \in Nat /\ Len(said[k][s]) < MaxSaid[k][s]
  BY DEF Speak
<1>3. Len(said[k][s]) + 1 \in Bytes
  <2>1. Len(said[k][s]) + 1 \in 1 .. MaxSaid[k][s]
    BY <1>1, <1>2
  <2> QED
    BY <2>1
<1> QED
  BY <1>3 DEF Speak, RelayNext

\* Where the main thread is in the turn of a channel.
LEMMA AtType ==
    ASSUME LInv, NEW op, NEW s \in Sides, At(op, s), InPass, op \in {"read", "write", "rest"}
    PROVE  /\ op = "read" => Space(Cur, s)
           /\ op # "read" => buf[Cur][Other(s)] # <<>>
           /\ Other(s) \in Sides
<1>1. PICK j \in step .. Len(Turn) : Turn[j] = <<op, s>> /\ Marked(j)
  BY DEF At
<1>2. Turn[j][1] = op /\ Turn[j][2] = s
  BY <1>1
<1> QED
  BY <1>1, <1>2 DEF Marked, Other, Sides

LEMMA ReadSomeRelay ==
    ASSUME LInv, InPass, NEW s \in Sides, ReadSome(s)
    PROVE  RelayNext
<1> DEFINE size == Size(connected[Cur] \/ s = "target")
           m == Least(Len(wire[Cur][s]), size - Len(buf[Cur][s]))
<1>1. Cur \in Conns
  BY CurType
<1>2. /\ Len(wire[Cur][s]) \in Nat /\ Len(buf[Cur][s]) \in Nat
      /\ wire[Cur][s] \in Seq(Bytes) /\ connected[Cur] \in BOOLEAN
  BY <1>1, Lengths, Types DEF LInv
<1>3. Len(wire[Cur][s]) >= 1
  BY <1>2, EmptySeq DEF ReadSome
<1>4. Len(buf[Cur][s]) < Size(connected[Cur])
  BY AtType DEF ReadSome, Space
<1>5. size \in Nat /\ Size(connected[Cur]) \in Nat /\ Size(connected[Cur]) <= size
  BY <1>2, SizeType
<1> DEFINE w == Len(wire[Cur][s])
           b == Len(buf[Cur][s])
<1>6. m \in 1 .. w
  <2>1. w \in Nat /\ b \in Nat /\ size \in Nat /\ w >= 1 /\ b < size
    <3>1. \A x, y, z \in Nat : x < y /\ y <= z => x < z
      OBVIOUS
    <3> HIDE DEF size
    <3> QED
      BY <1>2, <1>3, <1>4, <1>5, <3>1
  <2>2. m = Least(w, size - b)
    OBVIOUS
  <2> HIDE DEF w, b, size, m
  <2> QED
    BY <2>1, <2>2 DEF Least
<1>7. Read(Cur, s, m)
  BY DEF ReadSome, size
<1> HIDE DEF size, m
<1> QED
  BY <1>1, <1>6, <1>7 DEF RelayNext

\* A send to side s of the current channel.
LEMMA SendRelay ==
    ASSUME LInv, InPass, NEW s \in Sides, Send(s), buf[Cur][Other(s)] # <<>>,
           Other(s) \in Sides
    PROVE  RelayNext /\ room' \in [Conns -> [Sides -> 0 .. Window]]
<1> DEFINE all == Len(buf[Cur][Other(s)])
           n == Least(room[Cur][s], all)
<1>1. Cur \in Conns
  BY CurType
<1>2. /\ room \in [Conns -> [Sides -> 0 .. Window]]
      /\ room[Cur][s] \in 0 .. Window /\ room[Cur][s] > 0
  BY <1>1 DEF LInv, TypeOK, NetOK, Send, Takes
<1>3. all \in Nat /\ all >= 1
  <2>1. buf[Cur][Other(s)] \in Seq(Bytes)
    BY <1>1, Types DEF LInv
  <2> QED
    BY <2>1, EmptySeq
<1>4. Write(Cur, Other(s), n) /\ room' = [room EXCEPT ![Cur][s] = @ - n]
  BY DEF Send
<1> HIDE DEF all
<1>5. n \in 1 .. all /\ room[Cur][s] - n \in 0 .. Window
  BY <1>2, <1>3 DEF Least
<1>6. RelayNext
  BY <1>1, <1>4, <1>5 DEF RelayNext, all
<1> HIDE DEF n
<1>7. room' \in [Conns -> [Sides -> 0 .. Window]]
  BY <1>1, <1>2, <1>4, <1>5
<1> QED
  BY <1>6, <1>7

LEMMA TouchOnlyRelay ==
    ASSUME LInv, InPass, NEW s \in Sides, TouchOnly(Cur, s)
    PROVE  RelayNext
  BY CurType DEF RelayNext

LEMMA DropRelay ==
    ASSUME NEW k \in Conns, Drop(k)
    PROVE  RelayNext
  BY DEF RelayNext

\* A channel is served only in a pass over the channels.
LEMMA NextRelay ==
    ASSUME LInv, Next
    PROVE  [RelayNext]_relayVars
<1>0. pc = "serve" => InPass
  BY DEF LInv, Position
<1>1. "target" \in Sides /\ "source" \in Sides
  BY DEF Sides
<1>2. CASE NetNext
  <2>1. PICK k \in Conns :
           \/ Arrive(k) \/ Establish(k) \/ Tick(k)
           \/ \E s \in Sides : Speak(k, s) \/ Drain(k, s) \/ Leave(k, s)
    BY <1>2 DEF NetNext
  <2>2. CASE \E s \in Sides : Speak(k, s)
    BY <2>2, SpeakRelay
  <2>3. CASE \/ Arrive(k) \/ Establish(k) \/ Tick(k)
             \/ \E s \in Sides : Drain(k, s) \/ Leave(k, s)
    BY <2>3 DEF Arrive, Establish, Tick, Drain, Leave
  <2> QED
    BY <2>1, <2>2, <2>3
<1>3. CASE \/ SelectReady \/ SelectIdle \/ SelectInterrupted \/ AcceptNone
           \/ Serve \/ EndPass \/ EndTurn
  BY <1>3 DEF SelectReady, SelectIdle, SelectInterrupted, SelectReturns, AcceptNone, Serve,
     EndPass, EndTurn
<1>4. CASE Accept
  <2>1. PICK k \in backlog : Refuse(k) \/ Admit(k)
    BY <1>4 DEF Accept
  <2>2. k \in Conns
    BY DEF LInv, TypeOK, NetOK
  <2> QED
    BY <2>1, <2>2 DEF Refuse, Admit, RelayNext
<1>5. CASE Failover
  BY <1>5, CurType DEF Failover, RelayNext
<1>6. CASE FailoverRefused
  BY <1>6, CurType, DropRelay DEF FailoverRefused, Delete
<1>7. ASSUME NEW s \in Sides,
             ReadSome(s) \/ ReadEof(s) \/ ReadError(s) \/ WriteSome(s) \/ WriteError(s)
      PROVE  RelayNext
  <2>1. InPass
    BY <1>0, <1>7 DEF ReadSome, ReadEof, ReadError, WriteSome, WriteError, At
  <2>2. CASE ReadSome(s)
    BY <2>1, <2>2, ReadSomeRelay
  <2>3. CASE ReadEof(s)
    BY <2>1, <2>3, CurType, DropRelay, TouchOnlyRelay DEF ReadEof, Delete
  <2>4. CASE ReadError(s) \/ WriteError(s)
    BY <2>1, <2>4, CurType, DropRelay DEF ReadError, WriteError, Delete
  <2>5. CASE WriteSome(s)
    BY <2>1, <2>5, AtType, SendRelay DEF WriteSome
  <2> QED
    BY <1>7, <2>2, <2>3, <2>4, <2>5
<1>8. CASE ReadNothing \/ WriteNothing
  <2>1. InPass
    BY <1>0, <1>8 DEF ReadNothing, WriteNothing, At
  <2> QED
    BY <1>1, <1>8, <2>1, TouchOnlyRelay DEF ReadNothing, WriteNothing
<1>9. CASE WriteRest
  <2>1. InPass
    BY <1>0, <1>9 DEF WriteRest, At
  <2> QED
    BY <1>1, <1>9, <2>1, AtType, SendRelay DEF WriteRest
<1>10. CASE RestLeft
  BY <1>10 DEF RestLeft
<1> QED
  BY <1>2, <1>3, <1>4, <1>5, <1>6, <1>7, <1>8, <1>9, <1>10
  DEF Next, MainNext, RestReset, RestInterrupted

-----------------------------------------------------------------------------
(* The invariant, apart from the bytes. *)

Rest == NetOK /\ LoopOK /\ Position /\ InTurn

\* InTurn of a sequence q of channels, when those before n have had their turn.
TurnsUpTo(q, n) == \A j \in 1 .. Len(q) : q[j].seen <=> j < n

LEMMA UpTo ==
    \A n \in Nat : \A p : n + (IF p = "serve" THEN 1 ELSE 0) = IF p = "serve" THEN n + 1 ELSE n
  OBVIOUS

LEMMA InTurnAs ==
    ASSUME chans \in Seq(ChanRec), i \in Nat
    PROVE  InTurn <=> TurnsUpTo(chans, IF pc = "serve" THEN i + 1 ELSE i)
<1>1. DOMAIN chans = 1 .. Len(chans)
  BY DEF ChanRec
<1>2. i + (IF pc = "serve" THEN 1 ELSE 0) = IF pc = "serve" THEN i + 1 ELSE i
  OBVIOUS
<1> QED
  BY <1>1, <1>2 DEF InTurn, TurnsUpTo

LEMMA InTurnAsNext ==
    ASSUME chans' \in Seq(ChanRec), i' \in Nat
    PROVE  InTurn' <=> TurnsUpTo(chans', IF pc' = "serve" THEN i' + 1 ELSE i')
<1>1. DOMAIN chans' = 1 .. Len(chans')
  BY DEF ChanRec
<1>2. i' + (IF pc' = "serve" THEN 1 ELSE 0) = IF pc' = "serve" THEN i' + 1 ELSE i'
  BY UpTo, Zenon
<1> QED
  BY <1>1, <1>2 DEF InTurn, TurnsUpTo

LEMMA LoopTypes ==
    ASSUME LInv
    PROVE  /\ chans \in Seq(ChanRec) /\ Len(chans) \in Nat
           /\ i \in Nat /\ i >= 1
           /\ TurnsUpTo(chans, IF pc = "serve" THEN i + 1 ELSE i)
<1>1. chans \in Seq(ChanRec) /\ i \in Nat /\ i >= 1
  BY DEF LInv, TypeOK, LoopOK, ChanRec
<1>2. Len(chans) \in Nat
  BY <1>1
<1> QED
  BY <1>1, <1>2, InTurnAs DEF LInv

\* A channel is taken out of the sequence at the index of the loop.
LEMMA TakenOut ==
    ASSUME LInv, InPass, pc \in {"check", "serve"}
    PROVE  /\ RemoveAt(chans, i) \in Seq(ChanRec)
           /\ Len(RemoveAt(chans, i)) = Len(chans) - 1
           /\ TurnsUpTo(RemoveAt(chans, i), i)
<1>1. i \in 1 .. Len(chans) /\ chans \in Seq(ChanRec) /\ Len(chans) \in Nat
  BY CurType, LoopTypes
<1>2. /\ RemoveAt(chans, i) \in Seq(ChanRec)
      /\ Len(RemoveAt(chans, i)) = Len(chans) - 1
      /\ \A j \in 1 .. Len(chans) - 1 :
            RemoveAt(chans, i)[j] = IF j < i THEN chans[j] ELSE chans[j + 1]
  BY <1>1, Removing
<1>3. ASSUME NEW j \in 1 .. Len(chans) - 1
      PROVE  RemoveAt(chans, i)[j].seen <=> j < i
  <2>1. CASE j < i
    <3>1. chans[j].seen
      BY <1>1, <2>1, LoopTypes DEF TurnsUpTo
    <3> QED
      BY <1>2, <2>1, <3>1
  <2>2. CASE ~ (j < i)
    <3>1. j + 1 \in 1 .. Len(chans) /\ ~ (j + 1 < i) /\ ~ (j + 1 < i + 1)
      BY <1>1, <2>2
    <3>2. ~ chans[j + 1].seen
      BY <3>1, LoopTypes DEF TurnsUpTo
    <3> QED
      BY <1>2, <2>2, <3>2
  <2> QED
    BY <2>1, <2>2
<1> QED
  BY <1>2, <1>3 DEF TurnsUpTo

\* A new channel at the end has not had its turn.
LEMMA Appended ==
    ASSUME NEW q \in Seq(ChanRec), NEW n \in Nat, n <= Len(q) + 1, TurnsUpTo(q, n),
           NEW k \in Conns, NEW f \in Fds, NEW g \in Fds
    PROVE  /\ Append(q, Chan(k, f, g)) \in Seq(ChanRec)
           /\ Len(Append(q, Chan(k, f, g))) = Len(q) + 1
           /\ TurnsUpTo(Append(q, Chan(k, f, g)), n)
<1> DEFINE c == Chan(k, f, g)
<1>1. c \in ChanRec /\ ~ c.seen
  BY DEF Chan, ChanRec
<1> HIDE DEF c
<1>2. /\ Append(q, c) \in Seq(ChanRec) /\ Len(Append(q, c)) = Len(q) + 1
      /\ \A j \in 1 .. Len(q) : Append(q, c)[j] = q[j]
      /\ Append(q, c)[Len(q) + 1] = c
  BY <1>1, AppendProperties
<1>3. Len(q) \in Nat
  OBVIOUS
<1>4. ASSUME NEW j \in 1 .. Len(q) + 1
      PROVE  Append(q, c)[j].seen <=> j < n
  BY <1>1, <1>2, <1>3 DEF TurnsUpTo
<1> QED
  BY <1>2, <1>4 DEF TurnsUpTo, c

\* From the parts of a step to Rest'.
LEMMA RestFrom ==
    ASSUME LInv, NetOK', LoopOK', Position', chans' \in Seq(ChanRec), i' \in Nat,
           TurnsUpTo(chans', IF pc' = "serve" THEN i' + 1 ELSE i')
    PROVE  Rest'
  BY InTurnAsNext DEF Rest

\* The index stays between its bounds when no channel comes, goes or is seen.
LEMMA SameTurns ==
    ASSUME LInv, UNCHANGED <<chans, i, pc>>
    PROVE  Position' /\ InTurn'
  BY DEF LInv, Position, InTurn, InPass

Fates == {"no", "closed", "reset"}

LEMMA GoneType ==
    ASSUME NetOK, NEW k \in Conns, NEW s \in Sides, NEW v \in {"no", "closed", "reset"}
    PROVE  [gone EXCEPT ![k][s] = v] \in [Conns -> [Sides -> Fates]]
<1>1. gone \in [Conns -> [Sides -> Fates]]
  BY DEF NetOK, Fates
<1>2. v \in Fates
  BY DEF Fates
<1> QED
  BY <1>1, <1>2

LEMMA NetRest ==
    ASSUME LInv, NetNext
    PROVE  Rest'
<1>1. PICK k \in Conns :
         \/ Arrive(k) \/ Establish(k) \/ Tick(k)
         \/ \E s \in Sides : Speak(k, s) \/ Drain(k, s) \/ Leave(k, s)
  BY DEF NetNext
<1>2. UNCHANGED loopVars
  BY <1>1 DEF Arrive, Establish, Tick, Speak, Drain, Leave
<1>3. LoopOK' /\ Position' /\ InTurn'
  BY <1>2, SameTurns DEF LInv, TypeOK, LoopOK, loopVars
<1>4. NetOK
  BY DEF LInv, TypeOK
<1>5. Window \in 0 .. Window
  OBVIOUS
<1>6. NetOK'
  <2>1. CASE Arrive(k)
    BY <1>4, <2>1 DEF NetOK, Arrive
  <2>2. CASE Establish(k)
    <3>1. "target" \in Sides
      BY DEF Sides
    <3>2. gone' \in [Conns -> [Sides -> Fates]]
      <4>1. gone \in [Conns -> [Sides -> Fates]]
        BY <1>4 DEF NetOK, Fates
      <4>2. [gone EXCEPT ![k]["target"] = "reset"] \in [Conns -> [Sides -> Fates]]
        BY <1>4, <3>1, GoneType
      <4> QED
        BY <2>2, <4>1, <4>2 DEF Establish
    <3>3. up' \in [Conns -> BOOLEAN] /\ UNCHANGED <<backlog, room, late>>
      BY <1>4, <2>2 DEF NetOK, Establish
    <3> QED
      BY <1>4, <3>2, <3>3 DEF NetOK, Fates
  <2>3. CASE Tick(k)
    BY <1>4, <2>3 DEF NetOK, Tick
  <2>4. ASSUME NEW s \in Sides, Speak(k, s)
        PROVE  NetOK'
    BY <1>4, <2>4 DEF NetOK, Speak, netVars
  <2>5. ASSUME NEW s \in Sides, Drain(k, s)
        PROVE  NetOK'
    BY <1>4, <1>5, <2>5 DEF NetOK, Drain
  <2>6. ASSUME NEW s \in Sides, Leave(k, s)
        PROVE  NetOK'
    <3>1. gone' \in [Conns -> [Sides -> Fates]]
      BY <1>4, <2>6, GoneType, SMTT(30) DEF Leave
    <3> QED
      BY <1>4, <2>6, <3>1 DEF NetOK, Leave, Fates
  <2> QED
    BY <1>1, <2>1, <2>2, <2>3, <2>4, <2>5, <2>6
<1> QED
  BY <1>3, <1>6 DEF Rest

LEMMA EndType ==
    ASSUME LInv, NEW e \in Ends
    PROVE  chans[e[1]][e[2]] \in Fds
<1>1. e[1] \in 1 .. Len(chans) /\ e[2] \in Sides
  BY LoopTypes DEF Ends
<1>2. chans[e[1]] \in ChanRec
  BY <1>1, LoopTypes, ElementOfSeq
<1> QED
  BY <1>1, <1>2 DEF ChanRec, Sides

LEMMA AskedType ==
    ASSUME LInv
    PROVE  /\ Asked.read \subseteq Fds /\ Asked.write \subseteq Fds
           /\ Ready.read \subseteq Fds /\ Ready.write \subseteq Fds
<1>1. Asked.read \subseteq Fds /\ Asked.write \subseteq Fds
  BY EndType DEF Asked
<1> QED
  BY <1>1 DEF Ready

LEMMA SelectRest ==
    ASSUME LInv, SelectReady \/ SelectIdle \/ SelectInterrupted
    PROVE  Rest'
<1>1. PICK result \in {"ready", "idle", "interrupted"}, sr \in SUBSET Fds, sw \in SUBSET Fds :
         SelectReturns(result, sr, sw)
  BY AskedType DEF SelectReady, SelectIdle, SelectInterrupted
<1>2. errno' \in {"soft", "fatal"}
  BY DEF LInv, TypeOK, LoopOK, SelectReady, SelectIdle, SelectInterrupted
<1>3. chans \in Seq(ChanRec) /\ DOMAIN chans = 1 .. Len(chans) /\ Len(chans) \in Nat
  BY LoopTypes
<1>4. chans' = [j \in 1 .. Len(chans) |-> [chans[j] EXCEPT !.seen = FALSE]]
  BY <1>1, <1>3 DEF SelectReturns
<1>5. ASSUME NEW j \in 1 .. Len(chans)
      PROVE  [chans[j] EXCEPT !.seen = FALSE] \in ChanRec
  <2>1. chans[j] \in ChanRec
    BY <1>3, ElementOfSeq
  <2> QED
    BY <2>1 DEF ChanRec
<1>6. chans' \in Seq(ChanRec) /\ Len(chans') = Len(chans)
  BY <1>3, <1>4, <1>5, IsASeq
<1>7. TurnsUpTo(chans', 1)
  <2> SUFFICES ASSUME NEW j \in 1 .. Len(chans)
               PROVE  chans'[j].seen <=> j < 1
    BY <1>6 DEF TurnsUpTo
  <2>1. chans[j] \in ChanRec
    BY <1>3, ElementOfSeq
  <2>2. chans'[j] = [chans[j] EXCEPT !.seen = FALSE]
    BY <1>4
  <2>3. chans'[j].seen = FALSE
    BY <2>1, <2>2 DEF ChanRec
  <2>4. ~ (j < 1)
    BY <1>3
  <2> QED
    BY <2>3, <2>4
<1>8. pc' = "accept" /\ i' = 1
  BY <1>1 DEF SelectReturns
<1>9. NetOK'
  BY <1>1 DEF LInv, TypeOK, NetOK, SelectReturns, netVars
<1>10. LoopOK'
  <2>1. UNCHANGED <<tries, owner, step>> /\ rset' \subseteq Fds /\ wset' \subseteq Fds
        /\ rc' \in {"ready", "idle", "interrupted"}
    BY <1>1 DEF SelectReturns
  <2> QED
    BY <1>2, <1>6, <1>8, <2>1 DEF LInv, TypeOK, LoopOK, ChanRec
<1>11. Position'
  BY <1>8 DEF Position
<1> QED
  BY <1>6, <1>7, <1>8, <1>9, <1>10, <1>11, RestFrom

LEMMA AcceptRest ==
    ASSUME LInv, Accept
    PROVE  Rest'
<1>1. PICK k \in backlog : Refuse(k) \/ Admit(k)
  BY DEF Accept
<1>2. /\ pc = "accept" /\ pc' = "check" /\ i = 1 /\ i' = 1
      /\ UNCHANGED <<rset, wset, rc, step>> /\ errno' \in {errno, "fatal"}
  BY DEF Accept, LInv, Position
<1>3. k \in Conns /\ NetOK'
  BY <1>1 DEF LInv, TypeOK, NetOK, Refuse, Admit
<1>4. chans \in Seq(ChanRec) /\ TurnsUpTo(chans, 1) /\ Len(chans) \in Nat
  BY <1>2, LoopTypes
<1>5. CASE Refuse(k)
  <2>1. UNCHANGED <<tries, chans, owner>>
    BY <1>5 DEF Refuse
  <2>2. LoopOK'
    BY <1>2, <2>1 DEF LInv, TypeOK, LoopOK
  <2> QED
    BY <1>2, <1>3, <1>4, <2>1, <2>2, RestFrom DEF Position
<1>6. CASE Admit(k)
  <2> DEFINE src == Lowest(Free)
             dst == Lowest(Free \ {src})
  <2>1. src \in Free /\ dst \in Free /\ Free \subseteq Fds
    BY <1>6, LowestFree DEF Admit, Free
  <2>2. /\ owner' = [owner EXCEPT ![src] = <<k, "source">>, ![dst] = <<k, "target">>]
        /\ chans' = Append(chans, Chan(k, src, dst))
        /\ tries' = [tries EXCEPT ![k] = 1]
    BY <1>6 DEF Admit
  <2> HIDE DEF src, dst
  <2>3. chans' \in Seq(ChanRec) /\ TurnsUpTo(chans', 1)
    <3>1. 1 \in Nat /\ 1 <= Len(chans) + 1
      BY <1>4
    <3> QED
      BY <1>3, <1>4, <2>1, <2>2, <3>1, Appended
  <2>4. owner' \in [Fds -> {Listening, Nobody} \cup (Conns \X Sides)]
    <3>1. <<k, "source">> \in Conns \X Sides /\ <<k, "target">> \in Conns \X Sides
      BY <1>3 DEF Sides
    <3> QED
      BY <2>1, <2>2, <3>1 DEF LInv, TypeOK, LoopOK
  <2>5. tries' \in [Conns -> Nat]
    BY <2>2 DEF LInv, TypeOK, LoopOK
  <2>6. LoopOK'
    BY <1>2, <2>3, <2>4, <2>5 DEF LInv, TypeOK, LoopOK, ChanRec
  <2> QED
    BY <1>2, <1>3, <2>3, <2>6, RestFrom DEF Position
<1> QED
  BY <1>1, <1>5, <1>6

\* The connection of a channel that is deleted or fails over is reset.
LEMMA NetReset ==
    ASSUME LInv, NEW k \in Conns
    PROVE  /\ [up EXCEPT ![k] = FALSE] \in [Conns -> BOOLEAN]
           /\ [late EXCEPT ![k] = FALSE] \in [Conns -> BOOLEAN]
           /\ [gone EXCEPT ![k] = [s \in Sides |-> "no"]] \in [Conns -> [Sides -> {"no", "closed", "reset"}]]
           /\ [gone EXCEPT ![k]["target"] = "no"] \in [Conns -> [Sides -> {"no", "closed", "reset"}]]
           /\ [room EXCEPT ![k] = [s \in Sides |-> Window]] \in [Conns -> [Sides -> 0 .. Window]]
           /\ [room EXCEPT ![k]["target"] = Window] \in [Conns -> [Sides -> 0 .. Window]]
<1>1. NetOK /\ "target" \in Sides /\ Window \in 0 .. Window
  BY DEF LInv, TypeOK, Sides
<1>2. [s \in Sides |-> "no"] \in [Sides -> {"no", "closed", "reset"}]
  OBVIOUS
<1>3. [s \in Sides |-> Window] \in [Sides -> 0 .. Window]
  BY <1>1
<1>4. [gone EXCEPT ![k]["target"] = "no"] \in [Conns -> [Sides -> {"no", "closed", "reset"}]]
  BY <1>1, GoneType DEF Fates
<1>5. [room EXCEPT ![k]["target"] = Window] \in [Conns -> [Sides -> 0 .. Window]]
  BY <1>1 DEF NetOK
<1> QED
  BY <1>1, <1>2, <1>3, <1>4, <1>5 DEF NetOK

LEMMA DeleteRest ==
    ASSUME LInv, InPass, pc \in {"check", "serve"}, Delete, errno' \in {"soft", "fatal"}
    PROVE  Rest'
<1>1. Cur \in Conns /\ chans[i] \in ChanRec /\ i \in Nat /\ i >= 1
  BY CurType, LoopTypes
<1>2. chans' = RemoveAt(chans, i) /\ pc' = "check" /\ i' = i /\ step' = 1
  BY DEF Delete
<1>3. chans' \in Seq(ChanRec) /\ TurnsUpTo(chans', i)
  BY <1>2, TakenOut
<1>4. NetOK'
  BY <1>1, NetReset DEF LInv, TypeOK, NetOK, Delete
<1>5. owner' \in [Fds -> {Listening, Nobody} \cup (Conns \X Sides)]
  BY DEF LInv, TypeOK, LoopOK, Delete
<1>6. step' \in 1 .. Len(Turn) + 1
  BY <1>2 DEF Turn
<1>7. LoopOK'
  <2>1. i' \in Nat \ {0} /\ UNCHANGED <<tries, rset, wset, rc>>
    BY <1>1, <1>2 DEF Delete
  <2> QED
    BY <1>2, <1>3, <1>5, <1>6, <2>1 DEF LInv, TypeOK, LoopOK, ChanRec
<1> QED
  BY <1>1, <1>2, <1>3, <1>4, <1>7, RestFrom DEF Position

LEMMA FailoverRest ==
    ASSUME LInv, Failover
    PROVE  Rest'
<1> DEFINE dst == Lowest(Free)
           c   == chans[i]
           q   == RemoveAt(chans, i)
<1>1. /\ InPass /\ pc = "check" /\ UNCHANGED <<rset, wset, rc, pc, i, step>>
      /\ errno' \in {errno, "fatal"} /\ UNCHANGED backlog
  BY DEF Failover
<1>2. Cur \in Conns /\ c \in ChanRec /\ i \in 1 .. Len(chans) /\ i \in Nat
  BY <1>1, CurType, LoopTypes
<1>3. dst \in Fds
  BY LowestFree DEF Failover, Free
<1>4. /\ chans' = Append(q, Chan(Cur, c.source, dst))
      /\ owner' = [owner EXCEPT ![dst] = <<Cur, "target">>, ![c.target] = Nobody]
      /\ tries' = [tries EXCEPT ![Cur] = @ + 1]
  BY DEF Failover
<1>5. c.source \in Fds /\ c.target \in Fds
  BY <1>2 DEF ChanRec
<1>6. /\ q \in Seq(ChanRec) /\ TurnsUpTo(q, i)
      /\ i <= Len(q) + 1
  <2>1. q \in Seq(ChanRec) /\ TurnsUpTo(q, i) /\ Len(q) = Len(chans) - 1
    BY <1>1, TakenOut
  <2>2. Len(chans) \in Nat
    BY LoopTypes
  <2> QED
    BY <1>2, <2>1, <2>2
<1> HIDE DEF dst, c, q
<1>7. chans' \in Seq(ChanRec) /\ TurnsUpTo(chans', i)
  BY <1>2, <1>3, <1>4, <1>5, <1>6, Appended
<1>8. NetOK'
  BY <1>2, NetReset DEF LInv, TypeOK, NetOK, Failover
<1>9. owner' \in [Fds -> {Listening, Nobody} \cup (Conns \X Sides)]
  <2>1. <<Cur, "target">> \in Conns \X Sides
    BY <1>2 DEF Sides
  <2> QED
    BY <1>3, <1>4, <1>5, <2>1 DEF LInv, TypeOK, LoopOK
<1>10. LoopOK'
  <2>1. tries' \in [Conns -> Nat]
    BY <1>2, <1>4, SMTT(40) DEF LInv, TypeOK, LoopOK
  <2> QED
    BY <1>1, <1>7, <1>9, <2>1 DEF LInv, TypeOK, LoopOK, ChanRec
<1> QED
  BY <1>1, <1>2, <1>7, <1>8, <1>10, RestFrom DEF Position

LEMMA BoundsRest ==
    ASSUME LInv, AcceptNone \/ Serve \/ EndPass \/ EndTurn
    PROVE  Rest'
<1>1. UNCHANGED <<netVars, tries, owner>>
  BY DEF AcceptNone, Serve, EndPass, EndTurn
<1>2. NetOK'
  BY <1>1 DEF LInv, TypeOK, NetOK, netVars
<1>3. chans \in Seq(ChanRec) /\ Len(chans) \in Nat /\ i \in Nat /\ i >= 1
      /\ TurnsUpTo(chans, IF pc = "serve" THEN i + 1 ELSE i)
  BY LoopTypes
<1>4. i + 1 \in Nat \ {0}
  BY <1>3
<1>5. CASE AcceptNone
  <2>1. pc = "accept" /\ pc' = "check" /\ UNCHANGED <<chans, i, rset, wset, rc, step>>
        /\ errno' \in {"soft", "fatal"}
    BY <1>5 DEF AcceptNone, LInv, TypeOK, LoopOK
  <2>2. LoopOK'
    BY <1>1, <2>1 DEF LInv, TypeOK, LoopOK
  <2> QED
    BY <1>2, <1>3, <2>1, <2>2, RestFrom DEF Position
<1>6. CASE EndPass
  <2>1. pc = "check" /\ pc' = "select" /\ UNCHANGED <<chans, i, step>>
        /\ rset' = {} /\ wset' = {} /\ rc' = "idle" /\ errno' \in {errno, "soft"}
    BY <1>6 DEF EndPass
  <2>2. LoopOK'
    BY <1>1, <2>1 DEF LInv, TypeOK, LoopOK
  <2> QED
    BY <1>2, <1>3, <2>1, <2>2, RestFrom DEF Position
<1>7. CASE EndTurn
  <2>1. /\ pc = "serve" /\ pc' = "check" /\ i' = i + 1 /\ step' = 1
        /\ UNCHANGED <<chans, rset, wset, rc, errno>>
    BY <1>7 DEF EndTurn
  <2>2. step' \in 1 .. Len(Turn) + 1
    BY <2>1 DEF Turn
  <2>3. LoopOK'
    BY <1>1, <1>4, <2>1, <2>2 DEF LInv, TypeOK, LoopOK
  <2> QED
    BY <1>2, <1>3, <1>4, <2>1, <2>3, RestFrom DEF Position
<1>8. CASE Serve
  <2>1. /\ InPass /\ pc = "check" /\ chans' = [chans EXCEPT ![i].seen = TRUE]
        /\ UNCHANGED <<rset, wset, rc, errno, step>>
        /\ \/ pc' = "check" /\ i' = i + 1
           \/ pc' = "serve" /\ i' = i
    BY <1>8 DEF Serve
  <2>2. i \in 1 .. Len(chans) /\ chans[i] \in ChanRec /\ Len(chans) \in Nat
    BY <2>1, <1>3, CurType
  <2>3. [chans[i] EXCEPT !.seen = TRUE] \in ChanRec /\ [chans[i] EXCEPT !.seen = TRUE].seen
    BY <2>2 DEF ChanRec
  <2>4. chans' = [chans EXCEPT ![i] = [chans[i] EXCEPT !.seen = TRUE]]
    BY <2>1
  <2>5. chans' \in Seq(ChanRec) /\ Len(chans') = Len(chans)
    BY <1>3, <2>2, <2>3, <2>4, ExceptSeq
  <2>6. TurnsUpTo(chans', i + 1)
    <3> SUFFICES ASSUME NEW j \in 1 .. Len(chans)
                 PROVE  chans'[j].seen <=> j < i + 1
      BY <2>5 DEF TurnsUpTo
    <3>1. CASE j = i
      <4>1. chans'[j].seen
        BY <1>3, <2>2, <2>3, <2>4, <3>1
      <4>2. j < i + 1
        BY <1>3, <3>1
      <4> QED
        BY <4>1, <4>2
    <3>2. CASE j # i
      <4>1. chans'[j] = chans[j]
        BY <1>3, <2>4, <3>2
      <4>2. chans[j].seen <=> j < i
        BY <1>3, <2>1 DEF TurnsUpTo
      <4>3. j < i <=> j < i + 1
        BY <1>3, <2>2, <3>2
      <4> QED
        BY <4>1, <4>2, <4>3
    <3> QED
      BY <3>1, <3>2
  <2>7. LoopOK'
    <3>1. i' \in Nat \ {0} /\ pc' \in {"select", "accept", "check", "serve"}
      BY <1>3, <1>4, <2>1
    <3> QED
      BY <1>1, <2>1, <2>5, <3>1 DEF LInv, TypeOK, LoopOK, ChanRec
  <2>8. Position'
    BY <1>3, <2>1, <2>2, <2>5 DEF Position, InPass
  <2> QED
    BY <1>2, <1>3, <1>4, <2>1, <2>5, <2>6, <2>7, <2>8, RestFrom
<1> QED
  BY <1>5, <1>6, <1>7, <1>8

\* A part of the turn that is done, or that goes on.
LEMMA PartRest ==
    ASSUME LInv, room' \in [Conns -> [Sides -> 0 .. Window]], errno' \in {"soft", "fatal"},
           step' \in 1 .. Len(Turn) + 1,
           UNCHANGED <<backlog, up, gone, late, tries, chans, owner, rset, wset, rc, pc, i>>
    PROVE  Rest'
<1>1. Position' /\ InTurn'
  BY SameTurns
<1>2. NetOK'
  BY DEF LInv, TypeOK, NetOK
<1>3. LoopOK'
  BY DEF LInv, TypeOK, LoopOK
<1> QED
  BY <1>1, <1>2, <1>3 DEF Rest

LEMMA DoneStep ==
    ASSUME NEW s \in Sides, NEW op \in {"read", "write", "rest"}, Done(op, s),
           op = "rest" => s = "source"
    PROVE  /\ step' \in 1 .. Len(Turn) + 1
           /\ UNCHANGED <<backlog, up, gone, late, tries, chans, owner, rset, wset, rc, pc, i>>
<1>1. DOMAIN Turn = {1, 2, 3, 4, 5} /\ Len(Turn) = 5
  BY DEF Turn
<1>2. \E j \in DOMAIN Turn : Turn[j] = <<op, s>>
  BY <1>1 DEF Turn, Sides
<1>3. (CHOOSE j \in DOMAIN Turn : Turn[j] = <<op, s>>) \in {1, 2, 3, 4, 5}
  BY <1>1, <1>2
<1> DEFINE part == CHOOSE j \in DOMAIN Turn : Turn[j] = <<op, s>>
<1>4. step' = part + 1
  BY DEF Done
<1>5. part \in {1, 2, 3, 4, 5}
  BY <1>3
<1> HIDE DEF part
<1>6. part + 1 \in 1 .. Len(Turn) + 1
  BY <1>1, <1>5
<1> QED
  BY <1>4, <1>6 DEF Done

LEMMA ServeRest ==
    ASSUME LInv, NEW s \in Sides,
           \/ ReadSome(s) \/ ReadEof(s) \/ ReadError(s) \/ WriteSome(s) \/ WriteError(s)
           \/ ReadNothing \/ WriteNothing \/ WriteRest \/ RestLeft
    PROVE  Rest'
<1>1. pc = "serve" /\ InPass
  BY DEF LInv, Position, ReadSome, ReadEof, ReadError, WriteSome, WriteError, ReadNothing,
     WriteNothing, WriteRest, RestLeft, At
<1>2. /\ room \in [Conns -> [Sides -> 0 .. Window]] /\ errno \in {"soft", "fatal"}
      /\ step \in 1 .. Len(Turn) + 1 /\ Cur \in Conns
      /\ {"source", "target"} \subseteq Sides
  BY <1>1, CurType DEF LInv, TypeOK, NetOK, LoopOK, Sides
<1>3. CASE ReadSome(s)
  BY <1>2, <1>3, DoneStep, PartRest DEF ReadSome
<1>4. CASE ReadEof(s)
  <2>1. CASE errno = "fatal"
    BY <1>1, <1>2, <1>4, <2>1, DeleteRest DEF ReadEof
  <2>2. CASE errno # "fatal"
    BY <1>2, <1>4, <2>2, DoneStep, PartRest DEF ReadEof
  <2> QED
    BY <2>1, <2>2
<1>5. CASE ReadError(s) \/ WriteError(s)
  BY <1>1, <1>5, DeleteRest DEF ReadError, WriteError
<1>6. CASE ReadNothing \/ WriteNothing
  BY <1>2, <1>6, DoneStep, PartRest DEF ReadNothing, WriteNothing
<1>7. CASE WriteSome(s)
  <2>1. room' \in [Conns -> [Sides -> 0 .. Window]]
    BY <1>1, <1>7, AtType, SendRelay DEF WriteSome
  <2> QED
    BY <1>2, <1>7, <2>1, DoneStep, PartRest DEF WriteSome, Send
<1>8. CASE WriteRest
  <2>1. room' \in [Conns -> [Sides -> 0 .. Window]]
    <3>1. "source" \in Sides /\ At("rest", "source") /\ Send("source")
      BY <1>8 DEF WriteRest, Sides
    <3>2. buf[Cur][Other("source")] # <<>> /\ Other("source") \in Sides
      BY <1>1, <3>1, AtType
    <3> QED
      BY <1>1, <3>1, <3>2, SendRelay
  <2> QED
    BY <1>2, <1>8, <2>1, PartRest DEF WriteRest, Send
<1>9. CASE RestLeft
  BY <1>2, <1>9, DoneStep, PartRest DEF RestLeft
<1> QED
  BY <1>3, <1>4, <1>5, <1>6, <1>7, <1>8, <1>9

-----------------------------------------------------------------------------
LEMMA InitLInv == Init => LInv
<1> SUFFICES ASSUME Init PROVE LInv
  OBVIOUS
<1>1. IInv /\ RelayOK
  BY InitIInv DEF Init, IInv
<1>2. NetOK
  BY DEF Init, NetOK
<1>3. LoopOK /\ Len(chans) = 0 /\ DOMAIN chans = {}
  <2>1. chans \in Seq([conn : Conns, source : Fds, target : Fds, seen : BOOLEAN])
        /\ Len(chans) = 0 /\ DOMAIN chans = {}
    BY EmptySeq DEF Init
  <2>2. step \in 1 .. Len(Turn) + 1
    BY DEF Init, Turn
  <2> QED
    BY <2>1, <2>2 DEF Init, LoopOK
<1>4. Position /\ InTurn
  BY <1>3 DEF Init, Position, InTurn
<1> QED
  BY <1>1, <1>2, <1>3, <1>4 DEF LInv, TypeOK

LEMMA NextLInv == LInv /\ [Next]_vars => LInv'
<1> SUFFICES ASSUME LInv, [Next]_vars PROVE LInv'
  OBVIOUS
<1>1. CASE Next
  <2>1. IInv'
    BY <1>1, NextRelay, RelayNextIInv DEF LInv
  <2>2. Rest'
    <3>1. "source" \in Sides
      BY DEF Sides
    <3>2. CASE FailoverRefused
      BY <3>2, DeleteRest DEF FailoverRefused, LInv, TypeOK, LoopOK
    <3> QED
      BY <1>1, <3>1, <3>2, NetRest, SelectRest, AcceptRest, FailoverRest, BoundsRest, ServeRest
         DEF Next, MainNext, RestReset, RestInterrupted
  <2> QED
    BY <2>1, <2>2 DEF Rest, LInv, TypeOK, IInv
<1>2. CASE UNCHANGED vars
  <2>1. IInv'
    BY <1>2, RelayNextIInv DEF LInv, vars
  <2>2. Position' /\ InTurn'
    BY <1>2, SameTurns DEF vars, loopVars
  <2>3. NetOK' /\ LoopOK'
    BY <1>2 DEF LInv, TypeOK, NetOK, LoopOK, vars, netVars, loopVars
  <2> QED
    BY <2>1, <2>2, <2>3 DEF LInv, TypeOK, IInv
<1> QED
  BY <1>1, <1>2

\* Every variable keeps its type, no buffer overflows and nothing passes in a
\* channel before it counts as connected.
THEOREM EventLoopTypes == Spec => []TypeOK
<1>1. LInv => TypeOK
  BY DEF LInv
<1> QED
  BY <1>1, InitLInv, NextLInv, PTL DEF Spec

\* Every pass of the loop gives each channel its turn, in order, whichever
\* channels are deleted, fail over or are added while it runs.
THEOREM EventLoopInTurn == Spec => []InTurn
<1>1. LInv => InTurn
  BY DEF LInv
<1> QED
  BY <1>1, InitLInv, NextLInv, PTL DEF Spec

\* The loop handles the bytes of its channels only as Relay does.
THEOREM EventLoopRelays == Spec => RelaySpec
<1>1. Init => RelayInit
  BY DEF Init
<1>2. LInv /\ [Next]_vars => [RelayNext]_relayVars
  BY NextRelay DEF vars
<1> QED
  BY <1>1, <1>2, InitLInv, NextLInv, PTL DEF Spec, RelaySpec

\* Each direction of each connection is a stream in the whole event loop.
THEOREM EventLoopStreams == Spec => Streams
  BY EventLoopRelays, RelayImplementsStreams, PTL
-----------------------------------------------------------------------------
(* The descriptor table and the channels, as sets of triples. *)

\* The connection of a channel with its two descriptors.
Triple(c) == <<c.conn, c.source, c.target>>

Triples(q) == {Triple(q[j]) : j \in 1 .. Len(q)}

\* No two channels of q are of one connection.
Apart(q) == \A j, h \in 1 .. Len(q) : q[j].conn = q[h].conn => j = h

\* The descriptor table ow holds the descriptors of the channels T, and the open
\* connections, ph, are those of T.
Table(T, ow, ph) ==
    /\ ow[Listener] = Listening
    /\ \A t \in T : ow[t[2]] = <<t[1], "source">> /\ ow[t[3]] = <<t[1], "target">>
    /\ \A f \in Fds : ow[f] \in {Nobody, Listening} \/ \E t \in T : f \in {t[2], t[3]}
    /\ \A k \in Conns : ph[k] = "open" <=> \E t \in T : t[1] = k

Owners == {Listening, Nobody} \cup (Conns \X Sides)

LEMMA TriplesType ==
    ASSUME NEW q \in Seq(ChanRec)
    PROVE  /\ Triples(q) \subseteq Conns \X Fds \X Fds
           /\ \A j \in 1 .. Len(q) : q[j] \in ChanRec /\ Triple(q[j]) \in Triples(q)
<1>1. \A j \in 1 .. Len(q) : q[j] \in ChanRec
  BY ElementOfSeq
<1>2. \A c \in ChanRec : Triple(c) \in Conns \X Fds \X Fds
  BY DEF ChanRec, Triple
<1> QED
  BY <1>1, <1>2 DEF Triples

LEMMA RemovedTriples ==
    ASSUME NEW q \in Seq(ChanRec), NEW m \in 1 .. Len(q), Apart(q)
    PROVE  /\ Apart(RemoveAt(q, m))
           /\ Triples(RemoveAt(q, m)) = Triples(q) \ {Triple(q[m])}
<1> DEFINE p == RemoveAt(q, m)
<1>1. /\ p \in Seq(ChanRec) /\ Len(p) = Len(q) - 1 /\ Len(q) \in Nat
      /\ \A j \in 1 .. Len(q) - 1 : p[j] = IF j < m THEN q[j] ELSE q[j + 1]
  BY Removing
<1> HIDE DEF p
<1>2. ASSUME NEW j \in 1 .. Len(p)
      PROVE  \E h \in 1 .. Len(q) : p[j] = q[h] /\ h # m /\ h = (IF j < m THEN j ELSE j + 1)
  <2>1. CASE j < m
    BY <1>1, <2>1
  <2>2. CASE ~ (j < m)
    <3>1. j + 1 \in 1 .. Len(q) /\ j + 1 # m
      BY <1>1, <2>2
    <3> QED
      BY <1>1, <2>2, <3>1
  <2> QED
    BY <2>1, <2>2
<1>3. ASSUME NEW h \in 1 .. Len(q), h # m
      PROVE  \E j \in 1 .. Len(p) : p[j] = q[h]
  <2>1. CASE h < m
    <3>1. h \in 1 .. Len(p)
      BY <1>1, <2>1
    <3> QED
      BY <1>1, <2>1, <3>1
  <2>2. CASE ~ (h < m)
    <3>1. h - 1 \in 1 .. Len(p) /\ ~ (h - 1 < m) /\ (h - 1) + 1 = h
      BY <1>1, <1>3, <2>2
    <3> QED
      BY <1>1, <3>1
  <2> QED
    BY <2>1, <2>2
<1>4. Apart(p)
  <2> SUFFICES ASSUME NEW j \in 1 .. Len(p), NEW h \in 1 .. Len(p), p[j].conn = p[h].conn
               PROVE  j = h
    BY DEF Apart
  <2>1. PICK x \in 1 .. Len(q) : p[j] = q[x] /\ x = (IF j < m THEN j ELSE j + 1)
    BY <1>2
  <2>2. PICK y \in 1 .. Len(q) : p[h] = q[y] /\ y = (IF h < m THEN h ELSE h + 1)
    BY <1>2
  <2>3. x = y
    BY <2>1, <2>2 DEF Apart
  <2> QED
    BY <1>1, <2>1, <2>2, <2>3
<1>5. \A h \in 1 .. Len(q) : h # m => Triple(q[h]) # Triple(q[m])
  BY DEF Apart, Triple
<1>6. Triples(p) = Triples(q) \ {Triple(q[m])}
  <2>1. ASSUME NEW j \in 1 .. Len(p)
        PROVE  Triple(p[j]) \in Triples(q) \ {Triple(q[m])}
    <3>1. PICK h \in 1 .. Len(q) : p[j] = q[h] /\ h # m
      BY <1>2
    <3> QED
      BY <1>5, <3>1 DEF Triples
  <2>2. ASSUME NEW h \in 1 .. Len(q), h # m
        PROVE  Triple(q[h]) \in Triples(p)
    <3>1. PICK j \in 1 .. Len(p) : p[j] = q[h]
      BY <1>3, <2>2
    <3> QED
      BY <3>1 DEF Triples
  <2> QED
    BY <2>1, <2>2 DEF Triples
<1> QED
  BY <1>4, <1>6 DEF p

LEMMA AppendedTriples ==
    ASSUME NEW q \in Seq(ChanRec), Apart(q), NEW k \in Conns, NEW f \in Fds, NEW g \in Fds,
           \A t \in Triples(q) : t[1] # k
    PROVE  /\ Apart(Append(q, Chan(k, f, g)))
           /\ Triples(Append(q, Chan(k, f, g))) = Triples(q) \cup {<<k, f, g>>}
<1> DEFINE c == Chan(k, f, g)
           p == Append(q, c)
<1>1. c \in ChanRec /\ Triple(c) = <<k, f, g>> /\ c.conn = k
  BY DEF Chan, ChanRec, Triple
<1> HIDE DEF c
<1>2. /\ Len(p) = Len(q) + 1 /\ Len(q) \in Nat
      /\ \A j \in 1 .. Len(q) : p[j] = q[j]
      /\ p[Len(q) + 1] = c
  BY <1>1, AppendProperties
<1> HIDE DEF p
<1>3. \A j \in 1 .. Len(q) : q[j].conn # k
  <2>1. \A j \in 1 .. Len(q) : Triple(q[j]) \in Triples(q) /\ Triple(q[j])[1] = q[j].conn
    BY TriplesType DEF Triple
  <2> QED
    BY <2>1
<1>4. \A j \in 1 .. Len(p) : j \in 1 .. Len(q) \/ j = Len(q) + 1
  BY <1>2
<1>5. Apart(p)
  BY <1>1, <1>2, <1>3, <1>4 DEF Apart
<1>6. 1 .. Len(p) = (1 .. Len(q)) \cup {Len(q) + 1}
  BY <1>2
<1>7. Triples(p) = Triples(q) \cup {<<k, f, g>>}
  <2>1. \A j \in 1 .. Len(q) : Triple(p[j]) = Triple(q[j])
    BY <1>2
  <2>2. Triple(p[Len(q) + 1]) = <<k, f, g>>
    BY <1>1, <1>2
  <2> HIDE DEF Triple
  <2> QED
    BY <1>6, <2>1, <2>2 DEF Triples
<1> QED
  BY <1>5, <1>7 DEF p, c

\* The table when a channel is created, deleted or has a new target.
LEMMA TableCreated ==
    ASSUME NEW T \in SUBSET (Conns \X Fds \X Fds), NEW ow \in [Fds -> Owners],
           NEW ph \in [Conns -> Phases], Table(T, ow, ph), NEW k \in Conns,
           NEW f \in Fds, NEW g \in Fds, f # g, ow[f] = Nobody, ow[g] = Nobody
    PROVE  Table(T \cup {<<k, f, g>>},
                 [ow EXCEPT ![f] = <<k, "source">>, ![g] = <<k, "target">>],
                 [ph EXCEPT ![k] = "open"])
<1> DEFINE o == [ow EXCEPT ![f] = <<k, "source">>, ![g] = <<k, "target">>]
           h == [ph EXCEPT ![k] = "open"]
           U == T \cup {<<k, f, g>>}
<1>1. o[f] = <<k, "source">> /\ o[g] = <<k, "target">> /\ \A x \in Fds \ {f, g} : o[x] = ow[x]
  OBVIOUS
<1>2. h[k] = "open" /\ \A x \in Conns \ {k} : h[x] = ph[x]
  BY Zenon
<1> HIDE DEF o, h
<1>3. Nobody # Listening /\ \A x, y \in Conns : Nobody # <<x, "source">> /\ Nobody # <<x, "target">>
  BY DEF Nobody, Listening
<1>4. \A t \in T : t[1] \in Conns /\ t[2] \in Fds /\ t[3] \in Fds
  OBVIOUS
<1>5. \A t \in T : t[2] \notin {f, g} /\ t[3] \notin {f, g}
  <2> SUFFICES ASSUME NEW t \in T
               PROVE  t[2] \notin {f, g} /\ t[3] \notin {f, g}
    OBVIOUS
  <2>1. ow[t[2]] = <<t[1], "source">> /\ ow[t[3]] = <<t[1], "target">>
    BY DEF Table
  <2>2. ow[t[2]] # Nobody /\ ow[t[3]] # Nobody
    BY <1>3, <1>4, <2>1
  <2> QED
    BY <2>2
<1>6. o[Listener] = Listening
  BY <1>1, <1>3 DEF Table
<1> DEFINE n == <<k, f, g>>
<1>10. n[1] = k /\ n[2] = f /\ n[3] = g /\ n \in U /\ T \subseteq U /\ U \subseteq T \cup {n}
  OBVIOUS
<1> HIDE DEF n, U
<1>7. \A t \in U : o[t[2]] = <<t[1], "source">> /\ o[t[3]] = <<t[1], "target">>
  <2>1. \A t \in T : o[t[2]] = <<t[1], "source">> /\ o[t[3]] = <<t[1], "target">>
    BY <1>1, <1>4, <1>5 DEF Table
  <2> QED
    BY <1>1, <1>10, <2>1
<1>8. \A x \in Fds : o[x] \in {Nobody, Listening} \/ \E t \in U : x \in {t[2], t[3]}
  <2> SUFFICES ASSUME NEW x \in Fds
               PROVE  o[x] \in {Nobody, Listening} \/ \E t \in U : x \in {t[2], t[3]}
    OBVIOUS
  <2>1. CASE x \in {f, g}
    BY <1>10, <2>1
  <2>2. CASE x \notin {f, g}
    BY <1>1, <1>10, <2>2 DEF Table
  <2> QED
    BY <2>1, <2>2
<1>9. \A x \in Conns : h[x] = "open" <=> \E t \in U : t[1] = x
  <2> SUFFICES ASSUME NEW x \in Conns
               PROVE  h[x] = "open" <=> \E t \in U : t[1] = x
    OBVIOUS
  <2>1. CASE x = k
    BY <1>2, <1>10, <2>1
  <2>2. CASE x # k
    <3>1. ph[x] = "open" <=> \E t \in T : t[1] = x
      BY DEF Table
    <3> QED
      BY <1>2, <1>10, <2>2, <3>1
  <2> QED
    BY <2>1, <2>2
<1> QED
  BY <1>6, <1>7, <1>8, <1>9 DEF Table, o, h, U, n

LEMMA TableDeleted ==
    ASSUME NEW T \in SUBSET (Conns \X Fds \X Fds), NEW ow \in [Fds -> Owners],
           NEW ph \in [Conns -> Phases], Table(T, ow, ph), NEW k \in Conns,
           NEW f \in Fds, NEW g \in Fds, <<k, f, g>> \in T,
           \A t \in T : t[1] = k => t = <<k, f, g>>
    PROVE  Table(T \ {<<k, f, g>>}, [ow EXCEPT ![f] = Nobody, ![g] = Nobody],
                 [ph EXCEPT ![k] = "closed"])
<1> DEFINE o == [ow EXCEPT ![f] = Nobody, ![g] = Nobody]
           h == [ph EXCEPT ![k] = "closed"]
           U == T \ {<<k, f, g>>}
<1>1. o[f] = Nobody /\ o[g] = Nobody /\ \A x \in Fds \ {f, g} : o[x] = ow[x]
  OBVIOUS
<1>2. h[k] # "open" /\ \A x \in Conns \ {k} : h[x] = ph[x]
  BY Zenon
<1> HIDE DEF o, h
<1>3. \A x \in Conns : Listening # <<x, "source">> /\ Listening # <<x, "target">>
  BY DEF Listening
<1>4. ow[f] = <<k, "source">> /\ ow[g] = <<k, "target">>
  BY DEF Table
<1>5. \A t \in U : t \in T /\ t[1] # k /\ t[1] \in Conns /\ t[2] \in Fds /\ t[3] \in Fds
  OBVIOUS
<1>6. \A t \in U : t[2] \notin {f, g} /\ t[3] \notin {f, g}
  <2> SUFFICES ASSUME NEW t \in U
               PROVE  t[2] \notin {f, g} /\ t[3] \notin {f, g}
    OBVIOUS
  <2>1. ow[t[2]] = <<t[1], "source">> /\ ow[t[3]] = <<t[1], "target">>
    BY <1>5 DEF Table
  <2> QED
    BY <1>4, <1>5, <2>1
<1>7. o[Listener] = Listening
  BY <1>1, <1>3, <1>4 DEF Table
<1>8. \A t \in U : o[t[2]] = <<t[1], "source">> /\ o[t[3]] = <<t[1], "target">>
  BY <1>1, <1>5, <1>6 DEF Table
<1>9. \A x \in Fds : o[x] \in {Nobody, Listening} \/ \E t \in U : x \in {t[2], t[3]}
  <2> SUFFICES ASSUME NEW x \in Fds \ {f, g}
               PROVE  o[x] \in {Nobody, Listening} \/ \E t \in U : x \in {t[2], t[3]}
    BY <1>1
  <2>1. ow[x] \in {Nobody, Listening} \/ \E t \in T : x \in {t[2], t[3]}
    BY DEF Table
  <2>2. \A t \in T : x \in {t[2], t[3]} => t \in U
    OBVIOUS
  <2> QED
    BY <1>1, <2>1, <2>2
<1>10. \A x \in Conns : h[x] = "open" <=> \E t \in U : t[1] = x
  <2> SUFFICES ASSUME NEW x \in Conns
               PROVE  h[x] = "open" <=> \E t \in U : t[1] = x
    OBVIOUS
  <2>1. CASE x = k
    BY <1>2, <1>5, <2>1
  <2>2. CASE x # k
    <3>1. ph[x] = "open" <=> \E t \in T : t[1] = x
      BY DEF Table
    <3>2. \A t \in T : t[1] = x => t \in U
      BY <2>2
    <3> QED
      BY <1>2, <1>5, <2>2, <3>1, <3>2
  <2> QED
    BY <2>1, <2>2
<1> QED
  BY <1>7, <1>8, <1>9, <1>10 DEF Table, o, h

LEMMA TableRerouted ==
    ASSUME NEW T \in SUBSET (Conns \X Fds \X Fds), NEW ow \in [Fds -> Owners],
           NEW ph \in [Conns -> Phases], Table(T, ow, ph), NEW k \in Conns,
           NEW f \in Fds, NEW g \in Fds, <<k, f, g>> \in T,
           \A t \in T : t[1] = k => t = <<k, f, g>>,
           NEW d \in Fds, ow[d] = Nobody
    PROVE  Table((T \ {<<k, f, g>>}) \cup {<<k, f, d>>},
                 [ow EXCEPT ![d] = <<k, "target">>, ![g] = Nobody], ph)
<1> DEFINE o == [ow EXCEPT ![d] = <<k, "target">>, ![g] = Nobody]
           R == T \ {<<k, f, g>>}
           U == R \cup {<<k, f, d>>}
<1>1. Nobody # Listening /\ \A x \in Conns : /\ Nobody # <<x, "source">> /\ Nobody # <<x, "target">>
                                             /\ Listening # <<x, "source">> /\ Listening # <<x, "target">>
  BY DEF Nobody, Listening
<1>2. ow[f] = <<k, "source">> /\ ow[g] = <<k, "target">>
  BY DEF Table
<1>3. d # f /\ d # g /\ f # g
  <2>1. Nobody # <<k, "source">> /\ Nobody # <<k, "target">> /\ <<k, "source">> # <<k, "target">>
    BY <1>1
  <2> QED
    BY <1>2, <2>1
<1>4. /\ o[g] = Nobody /\ o[d] = <<k, "target">>
      /\ \A x \in Fds \ {d, g} : o[x] = ow[x]
  BY <1>3
<1> HIDE DEF o
<1>5. \A t \in R : t \in T /\ t[1] # k /\ t[1] \in Conns /\ t[2] \in Fds /\ t[3] \in Fds
  OBVIOUS
<1>6. \A t \in R : t[2] \notin {d, g} /\ t[3] \notin {d, g}
  <2> SUFFICES ASSUME NEW t \in R
               PROVE  t[2] \notin {d, g} /\ t[3] \notin {d, g}
    OBVIOUS
  <2>1. ow[t[2]] = <<t[1], "source">> /\ ow[t[3]] = <<t[1], "target">>
    BY <1>5 DEF Table
  <2>2. t[2] # d /\ t[3] # d
    BY <1>1, <1>5, <2>1
  <2> QED
    BY <1>2, <1>5, <2>1, <2>2
<1>7. o[Listener] = Listening
  BY <1>1, <1>2, <1>4 DEF Table
<1> DEFINE old == <<k, f, g>>
           new == <<k, f, d>>
<1>11. /\ old[1] = k /\ old[2] = f /\ old[3] = g /\ new[1] = k /\ new[2] = f /\ new[3] = d
       /\ new \in U /\ old \in T /\ \A t \in T : t = old \/ t \in U
       /\ \A t \in U : t = new \/ t \in R
       /\ R \subseteq T
  OBVIOUS
<1> HIDE DEF old, new, R, U
<1>8. \A t \in U : o[t[2]] = <<t[1], "source">> /\ o[t[3]] = <<t[1], "target">>
  <2>1. \A t \in R : o[t[2]] = <<t[1], "source">> /\ o[t[3]] = <<t[1], "target">>
    BY <1>4, <1>5, <1>6 DEF Table
  <2>2. o[new[2]] = <<new[1], "source">> /\ o[new[3]] = <<new[1], "target">>
    BY <1>2, <1>3, <1>4, <1>11
  <2> QED
    BY <1>11, <2>1, <2>2
<1>9. \A x \in Fds : o[x] \in {Nobody, Listening} \/ \E t \in U : x \in {t[2], t[3]}
  <2> SUFFICES ASSUME NEW x \in Fds, x # d, x # g
               PROVE  o[x] \in {Nobody, Listening} \/ \E t \in U : x \in {t[2], t[3]}
    BY <1>4, <1>11
  <2>1. ow[x] \in {Nobody, Listening} \/ \E t \in T : x \in {t[2], t[3]}
    BY DEF Table
  <2>2. \A t \in T : x \in {t[2], t[3]} => \E u \in U : x \in {u[2], u[3]}
    BY <1>11
  <2> QED
    BY <1>4, <2>1, <2>2
<1>10. \A x \in Conns : ph[x] = "open" <=> \E t \in U : t[1] = x
  <2> SUFFICES ASSUME NEW x \in Conns
               PROVE  (\E t \in T : t[1] = x) <=> \E t \in U : t[1] = x
    BY DEF Table
  <2>1. CASE x = k
    BY <1>11, <2>1
  <2>2. CASE x # k
    BY <1>11, <2>2
  <2> QED
    BY <2>1, <2>2
<1> QED
  BY <1>7, <1>8, <1>9, <1>10 DEF Table, o, U, R

-----------------------------------------------------------------------------
(* Every step keeps the descriptors, the channels and the connections in agreement. *)

\* The descriptors, the channels and the connections agree.
Exact ==
    /\ Apart(chans)
    /\ Table(Triples(chans), owner, phase)
    /\ \A k \in backlog : phase[k] = "new"

LEMMA ExactTypes ==
    ASSUME LInv
    PROVE  /\ chans \in Seq(ChanRec) /\ Triples(chans) \in SUBSET (Conns \X Fds \X Fds)
           /\ owner \in [Fds -> Owners] /\ phase \in [Conns -> Phases] /\ backlog \subseteq Conns
<1>1. chans \in Seq(ChanRec)
  BY LoopTypes
<1>2. owner \in [Fds -> Owners]
  BY DEF LInv, TypeOK, LoopOK, Owners
<1>3. phase \in [Conns -> Phases] /\ backlog \subseteq Conns
  BY DEF LInv, TypeOK, RelayOK, NetOK
<1> QED
  BY <1>1, <1>2, <1>3, TriplesType

\* The channel whose turn it is, in the table.
LEMMA CurTriple ==
    ASSUME LInv, Exact, InPass
    PROVE  /\ <<Cur, chans[i].source, chans[i].target>> \in Triples(chans)
           /\ Triple(chans[i]) = <<Cur, chans[i].source, chans[i].target>>
           /\ \A t \in Triples(chans) : t[1] = Cur => t = Triple(chans[i])
           /\ chans[i].source \in Fds /\ chans[i].target \in Fds
           /\ \A j \in 1 .. Len(chans) : chans[j].conn = Cur => j = i
<1>1. i \in 1 .. Len(chans) /\ chans[i] \in ChanRec
  BY CurType
<1>2. Triple(chans[i]) = <<Cur, chans[i].source, chans[i].target>>
  BY DEF Triple, Cur
<1>3. Triple(chans[i]) \in Triples(chans)
  BY <1>1 DEF Triples
<1>4. \A j \in 1 .. Len(chans) : chans[j].conn = Cur => j = i
  BY <1>1 DEF Exact, Apart, Cur
<1>5. ASSUME NEW t \in Triples(chans), t[1] = Cur
      PROVE  t = Triple(chans[i])
  <2>1. PICK j \in 1 .. Len(chans) : t = Triple(chans[j])
    BY DEF Triples
  <2>2. chans[j].conn = Cur
    BY <1>5, <2>1 DEF Triple
  <2> QED
    BY <1>4, <2>1, <2>2
<1>6. chans[i].source \in Fds /\ chans[i].target \in Fds
  BY <1>1 DEF ChanRec
<1> QED
  BY <1>2, <1>3, <1>4, <1>5, <1>6

LEMMA ExactSame ==
    ASSUME Exact, UNCHANGED <<chans, owner, phase>>, \A k \in backlog' : phase[k] = "new"
    PROVE  Exact'
  BY DEF Exact

LEMMA NetExact ==
    ASSUME LInv, Exact, NetNext
    PROVE  Exact'
<1>1. PICK k \in Conns :
         \/ Arrive(k) \/ Establish(k) \/ Tick(k)
         \/ \E s \in Sides : Speak(k, s) \/ Drain(k, s) \/ Leave(k, s)
  BY DEF NetNext
<1>2. UNCHANGED <<chans, owner, phase>>
  BY <1>1 DEF Arrive, Establish, Tick, Speak, Drain, Leave, Say, relayVars, loopVars
<1>3. \A x \in backlog' : phase[x] = "new"
  <2>1. CASE Arrive(k)
    BY <2>1 DEF Arrive, Exact
  <2>2. CASE UNCHANGED backlog
    BY <2>2 DEF Exact
  <2> QED
    BY <1>1, <2>1, <2>2 DEF Establish, Tick, Speak, Drain, Leave, netVars
<1> QED
  BY <1>2, <1>3, ExactSame

LEMMA SeenExact ==
    ASSUME LInv, Exact, UNCHANGED <<owner, phase, backlog>>, chans' \in Seq(ChanRec),
           Len(chans') = Len(chans),
           \A j \in 1 .. Len(chans) : /\ chans'[j].conn = chans[j].conn
                                      /\ chans'[j].source = chans[j].source
                                      /\ chans'[j].target = chans[j].target
    PROVE  Exact'
<1>1. Apart(chans')
  BY DEF Exact, Apart
<1>2. Triples(chans') = Triples(chans)
  BY DEF Triples, Triple
<1> QED
  BY <1>1, <1>2 DEF Exact

\* What select and Serve do to the channels.
LEMMA SeenReset ==
    ASSUME LInv, chans' = [j \in DOMAIN chans |-> [chans[j] EXCEPT !.seen = FALSE]]
    PROVE  /\ chans' \in Seq(ChanRec) /\ Len(chans') = Len(chans)
           /\ \A j \in 1 .. Len(chans) : /\ chans'[j].conn = chans[j].conn
                                         /\ chans'[j].source = chans[j].source
                                         /\ chans'[j].target = chans[j].target
<1>1. chans \in Seq(ChanRec) /\ Len(chans) \in Nat /\ DOMAIN chans = 1 .. Len(chans)
  BY LoopTypes
<1>2. \A j \in 1 .. Len(chans) : chans[j] \in ChanRec
  BY <1>1, ElementOfSeq
<1>3. \A c \in ChanRec : /\ [c EXCEPT !.seen = FALSE] \in ChanRec
                         /\ [c EXCEPT !.seen = FALSE].conn = c.conn
                         /\ [c EXCEPT !.seen = FALSE].source = c.source
                         /\ [c EXCEPT !.seen = FALSE].target = c.target
  BY DEF ChanRec
<1> DEFINE f == [j \in 1 .. Len(chans) |-> [chans[j] EXCEPT !.seen = FALSE]]
<1>4. chans' = f /\ f \in [1 .. Len(chans) -> ChanRec]
  BY <1>1, <1>2, <1>3
<1>5. f \in Seq(ChanRec) /\ Len(f) = Len(chans)
  BY <1>1, <1>4
<1> QED
  BY <1>2, <1>3, <1>4, <1>5

LEMMA ReplacedAt ==
    ASSUME NEW V, NEW q \in Seq(V), NEW m \in 1 .. Len(q), NEW c \in V
    PROVE  /\ [q EXCEPT ![m] = c] \in Seq(V) /\ Len([q EXCEPT ![m] = c]) = Len(q)
           /\ \A j \in 1 .. Len(q) : [q EXCEPT ![m] = c][j] = IF j = m THEN c ELSE q[j]
  BY ExceptSeq

LEMMA SeenSet ==
    ASSUME LInv, InPass, chans' = [chans EXCEPT ![i].seen = TRUE]
    PROVE  /\ chans' \in Seq(ChanRec) /\ Len(chans') = Len(chans)
           /\ \A j \in 1 .. Len(chans) : /\ chans'[j].conn = chans[j].conn
                                         /\ chans'[j].source = chans[j].source
                                         /\ chans'[j].target = chans[j].target
<1>1. chans \in Seq(ChanRec) /\ i \in 1 .. Len(chans) /\ chans[i] \in ChanRec
  BY LoopTypes, CurType
<1> DEFINE c == [chans[i] EXCEPT !.seen = TRUE]
<1>2. c \in ChanRec /\ c.conn = chans[i].conn /\ c.source = chans[i].source
      /\ c.target = chans[i].target
  BY <1>1 DEF ChanRec
<1>3. chans' = [chans EXCEPT ![i] = c]
  OBVIOUS
<1> HIDE DEF c
<1> DEFINE p == [chans EXCEPT ![i] = c]
<1>4. /\ p \in Seq(ChanRec) /\ Len(p) = Len(chans)
      /\ \A j \in 1 .. Len(chans) : p[j] = IF j = i THEN c ELSE chans[j]
  BY <1>1, <1>2, ReplacedAt
<1> HIDE DEF p
<1>5. chans' = p
  BY <1>3 DEF p
<1>6. chans' \in Seq(ChanRec) /\ Len(chans') = Len(chans)
  BY <1>4, <1>5, Zenon
<1>7. ASSUME NEW j \in 1 .. Len(chans)
      PROVE  /\ chans'[j].conn = chans[j].conn
             /\ chans'[j].source = chans[j].source
             /\ chans'[j].target = chans[j].target
  <2>1. chans'[j] = IF j = i THEN c ELSE chans[j]
    BY <1>4, <1>5, Zenon
  <2> QED
    BY <1>2, <2>1, Zenon
<1> QED
  BY <1>6, <1>7, Zenon

LEMMA DeleteExact ==
    ASSUME LInv, Exact, InPass, Delete
    PROVE  Exact'
<1> DEFINE c == chans[i]
           t == <<Cur, c.source, c.target>>
<1>1. /\ chans' = RemoveAt(chans, i) /\ UNCHANGED backlog
      /\ owner' = [owner EXCEPT ![c.source] = Nobody, ![c.target] = Nobody]
      /\ phase' = [phase EXCEPT ![Cur] = "closed"]
  BY DEF Delete, Drop
<1>2. /\ t \in Triples(chans) /\ t = Triple(c)
      /\ \A u \in Triples(chans) : u[1] = Cur => u = t
      /\ c.source \in Fds /\ c.target \in Fds /\ Cur \in Conns
  BY CurTriple, CurType
<1>3. i \in 1 .. Len(chans) /\ chans \in Seq(ChanRec) /\ Apart(chans)
      /\ Table(Triples(chans), owner, phase)
  BY CurType, LoopTypes DEF Exact
<1>4. Apart(chans') /\ Triples(chans') = Triples(chans) \ {t}
  BY <1>1, <1>2, <1>3, RemovedTriples
<1>5. Table(Triples(chans) \ {t}, owner', phase')
  BY <1>1, <1>2, <1>3, ExactTypes, TableDeleted
<1>6. \A k \in backlog : phase'[k] = "new"
  <2> SUFFICES ASSUME NEW k \in backlog
               PROVE  phase'[k] = "new"
    OBVIOUS
  <2>1. phase[k] = "new" /\ k \in Conns /\ phase \in [Conns -> Phases]
    BY ExactTypes DEF Exact
  <2>2. phase[Cur] = "open"
    BY <1>2, <1>3 DEF Table
  <2> QED
    BY <1>1, <2>1, <2>2
<1> QED
  BY <1>1, <1>4, <1>5, <1>6 DEF Exact

LEMMA FailoverExact ==
    ASSUME LInv, Exact, Failover
    PROVE  Exact'
<1> DEFINE c == chans[i]
           t == <<Cur, c.source, c.target>>
           dst == Lowest(Free)
           q == RemoveAt(chans, i)
<1>1. /\ InPass /\ Free # {} /\ UNCHANGED <<backlog, phase>>
      /\ owner' = [owner EXCEPT ![dst] = <<Cur, "target">>, ![c.target] = Nobody]
      /\ chans' = Append(q, Chan(Cur, c.source, dst))
  BY DEF Failover, Reroute
<1>2. /\ t \in Triples(chans) /\ t = Triple(c)
      /\ \A u \in Triples(chans) : u[1] = Cur => u = t
      /\ c.source \in Fds /\ c.target \in Fds /\ Cur \in Conns
  BY <1>1, CurTriple, CurType
<1>3. i \in 1 .. Len(chans) /\ chans \in Seq(ChanRec) /\ Apart(chans)
      /\ Table(Triples(chans), owner, phase)
  BY <1>1, CurType, LoopTypes DEF Exact
<1>4. dst \in Fds /\ owner[dst] = Nobody
  <2>1. Free \in SUBSET Fds
    BY DEF Free
  <2>2. dst \in Free
    BY <1>1, <2>1, LowestFree
  <2> QED
    BY <2>2 DEF Free
<1>5. q \in Seq(ChanRec) /\ Apart(q) /\ Triples(q) = Triples(chans) \ {t}
  BY <1>2, <1>3, RemovedTriples, Removing
<1> HIDE DEF q, dst, c
<1>6. Apart(chans') /\ Triples(chans') = (Triples(chans) \ {t}) \cup {<<Cur, c.source, dst>>}
  <2>1. \A u \in Triples(q) : u[1] # Cur
    BY <1>2, <1>5
  <2> DEFINE f == c.source
  <2>2. f \in Fds /\ Cur \in Conns
    BY <1>2
  <2> HIDE DEF f
  <2>3. /\ Apart(Append(q, Chan(Cur, f, dst)))
        /\ Triples(Append(q, Chan(Cur, f, dst))) = Triples(q) \cup {<<Cur, f, dst>>}
    BY <1>4, <1>5, <2>1, <2>2, AppendedTriples
  <2>4. chans' = Append(q, Chan(Cur, f, dst))
    BY <1>1 DEF f
  <2> HIDE DEF t
  <2> QED
    BY <1>5, <2>3, <2>4 DEF f
<1>7. Table((Triples(chans) \ {t}) \cup {<<Cur, c.source, dst>>}, owner', phase)
  BY <1>1, <1>2, <1>3, <1>4, ExactTypes, TableRerouted
<1>8. \A k \in backlog : phase[k] = "new"
  BY DEF Exact
<1> QED
  BY <1>1, <1>6, <1>7, <1>8 DEF Exact

LEMMA AcceptExact ==
    ASSUME LInv, Exact, Accept
    PROVE  Exact'
<1>1. PICK k \in backlog : Refuse(k) \/ Admit(k)
  BY DEF Accept
<1>2. /\ k \in Conns /\ phase[k] = "new" /\ phase \in [Conns -> Phases]
      /\ chans \in Seq(ChanRec) /\ Apart(chans) /\ Table(Triples(chans), owner, phase)
      /\ \A x \in backlog : phase[x] = "new" /\ x \in Conns
  BY <1>1, ExactTypes DEF Exact
<1>3. \A u \in Triples(chans) : u[1] # k
  BY <1>2 DEF Table
<1>4. backlog' = backlog \ {k}
  BY <1>1 DEF Refuse, Admit
<1>5. CASE Refuse(k)
  <2>1. phase' = [phase EXCEPT ![k] = "closed"] /\ UNCHANGED <<chans, owner>>
    BY <1>5 DEF Refuse, Drop
  <2>2. phase'[k] = "closed" /\ \A x \in Conns \ {k} : phase'[x] = phase[x]
    BY <1>2, <2>1
  <2>3. Table(Triples(chans), owner, phase')
    <3>1. \A x \in Conns : phase'[x] = "open" <=> phase[x] = "open"
      BY <1>2, <2>2
    <3> QED
      BY <1>2, <3>1 DEF Table
  <2> QED
    BY <1>2, <1>4, <2>1, <2>2, <2>3 DEF Exact
<1>6. CASE Admit(k)
  <2> DEFINE src == Lowest(Free)
             dst == Lowest(Free \ {src})
  <2>1. src \in Free /\ dst \in Free /\ src # dst /\ Free \subseteq Fds
    <3>1. Free \in SUBSET Fds /\ Free \ {src} \in SUBSET Fds
      BY DEF Free
    <3>2. src \in Free
      BY <1>6, <3>1, LowestFree DEF Admit
    <3>3. dst \in Free \ {src}
      BY <1>6, <3>1, LowestFree DEF Admit
    <3> QED
      BY <3>1, <3>2, <3>3
  <2>2. /\ owner' = [owner EXCEPT ![src] = <<k, "source">>, ![dst] = <<k, "target">>]
        /\ chans' = Append(chans, Chan(k, src, dst))
        /\ phase' = [phase EXCEPT ![k] = "open"]
    BY <1>6 DEF Admit, Create
  <2> HIDE DEF src, dst
  <2>3. owner[src] = Nobody /\ owner[dst] = Nobody /\ src \in Fds /\ dst \in Fds
    BY <2>1 DEF Free
  <2>4. Apart(chans') /\ Triples(chans') = Triples(chans) \cup {<<k, src, dst>>}
    BY <1>2, <1>3, <2>2, <2>3, AppendedTriples
  <2>5. Table(Triples(chans) \cup {<<k, src, dst>>}, owner', phase')
    BY <1>2, <2>1, <2>2, <2>3, ExactTypes, TableCreated
  <2>6. \A x \in backlog' : phase'[x] = "new"
    BY <1>2, <1>4, <2>2
  <2> QED
    BY <2>4, <2>5, <2>6 DEF Exact
<1> QED
  BY <1>1, <1>5, <1>6

LEMMA InitExact == Init => Exact
<1> SUFFICES ASSUME Init PROVE Exact
  OBVIOUS
<1>1. Len(chans) = 0 /\ Triples(chans) = {}
  BY EmptySeq DEF Init, Triples
<1>2. Apart(chans)
  BY <1>1 DEF Apart
<1>3. Table({}, owner, phase)
  BY DEF Init, RelayInit, Table
<1> QED
  BY <1>1, <1>2, <1>3 DEF Init, Exact

LEMMA NextExact ==
    ASSUME LInv, Exact, [Next]_vars
    PROVE  Exact'
<1>1. CASE NetNext
  BY <1>1, NetExact
<1>2. CASE SelectReady \/ SelectIdle \/ SelectInterrupted
  <2>1. chans' = [j \in DOMAIN chans |-> [chans[j] EXCEPT !.seen = FALSE]]
        /\ UNCHANGED <<owner, phase, backlog>>
    BY <1>2 DEF SelectReady, SelectIdle, SelectInterrupted, SelectReturns, relayVars, netVars
  <2> QED
    BY <2>1, SeenReset, SeenExact
<1>3. CASE Accept
  BY <1>3, AcceptExact
<1>4. CASE Failover
  BY <1>4, FailoverExact
<1>5. CASE FailoverRefused
  BY <1>5, DeleteExact DEF FailoverRefused
<1>6. CASE Serve
  <2>1. InPass /\ chans' = [chans EXCEPT ![i].seen = TRUE] /\ UNCHANGED <<owner, phase, backlog>>
    BY <1>6 DEF Serve, relayVars, netVars
  <2> QED
    BY <2>1, SeenSet, SeenExact
<1>7. CASE AcceptNone \/ EndPass \/ EndTurn \/ UNCHANGED vars
  <2>1. UNCHANGED <<chans, owner, phase, backlog>>
    BY <1>7 DEF AcceptNone, EndPass, EndTurn, vars, relayVars, netVars, loopVars
  <2> QED
    BY <2>1, ExactSame DEF Exact
<1>8. ASSUME NEW s \in Sides,
             \/ ReadSome(s) \/ ReadEof(s) \/ ReadError(s) \/ WriteSome(s) \/ WriteError(s)
             \/ ReadNothing \/ WriteNothing \/ WriteRest \/ RestLeft
      PROVE  Exact'
  <2>1. InPass
    BY <1>8, SMTT(30) DEF LInv, Position, ReadSome, ReadEof, ReadError, WriteSome, WriteError,
       ReadNothing, WriteNothing, WriteRest, RestLeft, At
  <2>2. Delete \/ UNCHANGED <<chans, owner, phase, backlog>>
    BY <1>8 DEF ReadSome, ReadEof, ReadError, WriteSome, WriteError, ReadNothing, WriteNothing,
       WriteRest, RestLeft, Send, Done, Read, Write, TouchOnly, relayVars
  <2> QED
    BY <2>1, <2>2, DeleteExact, ExactSame DEF Exact
<1>9. "source" \in Sides
  BY DEF Sides
<1> QED
  BY <1>1, <1>2, <1>3, <1>4, <1>5, <1>6, <1>7, <1>8, <1>9
  DEF Next, MainNext, RestReset, RestInterrupted

LEMMA ExactDescriptors ==
    ASSUME LInv, Exact
    PROVE  DescriptorsExact
<1>1. DOMAIN chans = 1 .. Len(chans) /\ chans \in Seq(ChanRec)
  BY LoopTypes
<1>2. \A j \in 1 .. Len(chans) : Triple(chans[j]) \in Triples(chans) /\ chans[j] \in ChanRec
  BY <1>1, TriplesType
<1>3. \A t \in Triples(chans) : \E j \in 1 .. Len(chans) : t = Triple(chans[j])
  BY DEF Triples
<1>4. ASSUME NEW j \in 1 .. Len(chans), NEW s \in Sides
      PROVE  owner[chans[j][s]] = <<chans[j].conn, s>> /\ chans[j][s] \in Fds
             /\ chans[j].conn \in Conns
  <2>1. Triple(chans[j])[1] = chans[j].conn /\ Triple(chans[j])[2] = chans[j].source
        /\ Triple(chans[j])[3] = chans[j].target
    BY DEF Triple
  <2>2. owner[chans[j].source] = <<chans[j].conn, "source">>
        /\ owner[chans[j].target] = <<chans[j].conn, "target">>
    <3> DEFINE t == Triple(chans[j])
    <3>1. owner[t[2]] = <<t[1], "source">> /\ owner[t[3]] = <<t[1], "target">>
      BY <1>2 DEF Exact, Table
    <3> HIDE DEF t
    <3>2. t[1] = chans[j].conn /\ t[2] = chans[j].source /\ t[3] = chans[j].target
      BY <2>1 DEF t
    <3> QED
      BY <3>1, <3>2
  <2> QED
    BY <1>2, <2>2 DEF Sides, ChanRec
<1>5. ASSUME NEW f \in Fds, owner[f] \notin {Nobody, Listening}
      PROVE  \E j \in 1 .. Len(chans), s \in Sides : f = chans[j][s]
  <2>1. PICK t \in Triples(chans) : f \in {t[2], t[3]}
    BY <1>5 DEF Exact, Table
  <2>2. PICK j \in 1 .. Len(chans) : t = Triple(chans[j])
    BY <1>3
  <2> QED
    BY <2>1, <2>2 DEF Triple, Sides
<1>6. \A k \in Conns, s \in Sides : <<k, s>> \notin {Nobody, Listening}
  BY DEF Nobody, Listening, Sides
<1>7. {<<f, owner[f]>> : f \in {g \in Fds : owner[g] \notin {Nobody, Listening}}} =
      {<<chans[e[1]][e[2]], <<chans[e[1]].conn, e[2]>>>> : e \in Ends}
  <2> DEFINE L == {<<f, owner[f]>> : f \in {g \in Fds : owner[g] \notin {Nobody, Listening}}}
             R == {<<chans[e[1]][e[2]], <<chans[e[1]].conn, e[2]>>>> : e \in Ends}
  <2>1. ASSUME NEW x \in L
        PROVE  x \in R
    <3>1. PICK f \in Fds : owner[f] \notin {Nobody, Listening} /\ x = <<f, owner[f]>>
      OBVIOUS
    <3>2. PICK j \in 1 .. Len(chans), s \in Sides : f = chans[j][s]
      BY <1>5, <3>1
    <3>3. <<j, s>> \in Ends
      BY <1>1 DEF Ends
    <3>4. x = <<chans[j][s], <<chans[j].conn, s>>>>
      BY <1>4, <3>1, <3>2
    <3> QED
      BY <3>3, <3>4, SMTT(30)
  <2>2. ASSUME NEW x \in R
        PROVE  x \in L
    <3>1. PICK e \in Ends : x = <<chans[e[1]][e[2]], <<chans[e[1]].conn, e[2]>>>>
      OBVIOUS
    <3>2. e[1] \in 1 .. Len(chans) /\ e[2] \in Sides
      BY <1>1 DEF Ends
    <3>3. /\ chans[e[1]][e[2]] \in Fds
          /\ owner[chans[e[1]][e[2]]] = <<chans[e[1]].conn, e[2]>>
          /\ <<chans[e[1]].conn, e[2]>> \notin {Nobody, Listening}
      BY <1>4, <1>6, <3>2
    <3> QED
      BY <3>1, <3>3
  <2> QED
    BY <2>1, <2>2, Zenon
<1>8. \A j, h \in DOMAIN chans : chans[j].conn = chans[h].conn => j = h
  BY <1>1 DEF Exact, Apart
<1>9. {k \in Conns : phase[k] = "open"} = {chans[j].conn : j \in DOMAIN chans}
  <2>1. ASSUME NEW k \in Conns, phase[k] = "open"
        PROVE  \E j \in DOMAIN chans : chans[j].conn = k
    <3>1. PICK t \in Triples(chans) : t[1] = k
      BY <2>1 DEF Exact, Table
    <3>2. PICK j \in 1 .. Len(chans) : t = Triple(chans[j])
      BY <1>3
    <3> QED
      BY <1>1, <3>1, <3>2 DEF Triple
  <2>2. ASSUME NEW j \in DOMAIN chans
        PROVE  chans[j].conn \in Conns /\ phase[chans[j].conn] = "open"
    <3>1. Triple(chans[j]) \in Triples(chans) /\ chans[j].conn \in Conns
      BY <1>1, <1>2 DEF ChanRec
    <3>2. Triple(chans[j])[1] = chans[j].conn
      BY DEF Triple
    <3> QED
      BY <3>1, <3>2 DEF Exact, Table
  <2> QED
    BY <2>1, <2>2
<1> QED
  BY <1>7, <1>8, <1>9 DEF DescriptorsExact

\* The open descriptors are exactly those of the channels: none is leaked, closed
\* twice, or closed while another channel has its number, and every open
\* connection has exactly one channel.
THEOREM EventLoopDescriptors == Spec => []DescriptorsExact
<1>1. LInv /\ Exact => DescriptorsExact
  BY ExactDescriptors
<1>2. LInv /\ Exact /\ [Next]_vars => (LInv /\ Exact)'
  BY NextLInv, NextExact
<1> QED
  BY <1>1, <1>2, InitLInv, InitExact, PTL DEF Spec

-----------------------------------------------------------------------------
(* What select has announced. *)

\* Connections whose source recv would answer.
Heard == {k \in Conns : Answers(k, "source")}

\* In q, from n on, the connections of the sources in R are in H.
Promise(q, n, R, H) ==
    \A j \in 1 .. Len(q) : j >= n /\ q[j].source \in R => q[j].conn \in H

\* The first channel whose source has not been read in this pass.
Unread == IF pc = "serve" /\ step # 1 THEN i + 1 ELSE i

\* What select has announced is still there when its turn comes.
Announced ==
    /\ pc = "serve" => rc # "idle"
    /\ pc = "accept" /\ rc = "ready" => Free \cap rset = {}
    /\ pc # "select" /\ rc = "ready" => Promise(chans, Unread, rset, Heard)

DInv == LInv /\ Exact /\ Announced

LEMMA UnreadType ==
    ASSUME LInv
    PROVE  Unread \in Nat /\ Unread >= i /\ Unread >= 1 /\ i \in Nat
           /\ chans \in Seq(ChanRec) /\ Len(chans) \in Nat
  BY LoopTypes DEF Unread

LEMMA PromiseKept ==
    ASSUME NEW q \in Seq(ChanRec), NEW n \in Nat, NEW m \in Nat, NEW R, NEW H, NEW G,
           Promise(q, n, R, H), m >= n,
           \A j \in 1 .. Len(q) : j >= m /\ q[j].conn \in H => q[j].conn \in G
    PROVE  Promise(q, m, R, G)
<1> SUFFICES ASSUME NEW j \in 1 .. Len(q), j >= m, q[j].source \in R
             PROVE  q[j].conn \in G
  BY DEF Promise
<1>1. j >= n
  OBVIOUS
<1> QED
  BY <1>1 DEF Promise

\* A step that leaves the channels alone or changes only who was seen.
LEMMA AnnouncedSame ==
    ASSUME LInv, Exact, Announced, pc \in {"accept", "check", "serve"},
           pc' \in {"check", "serve", "select"}, pc' = "serve" => rc # "idle",
           chans' \in Seq(ChanRec), Len(chans') = Len(chans),
           \A j \in 1 .. Len(chans) : /\ chans'[j].conn = chans[j].conn
                                      /\ chans'[j].source = chans[j].source,
           UNCHANGED <<rset, rc>>, Unread' \in Nat, Unread' >= Unread,
           \A j \in 1 .. Len(chans) :
              j >= Unread' /\ chans[j].conn \in Heard => chans[j].conn \in Heard'
    PROVE  Announced'
<1>1. pc' # "accept" /\ (pc' = "serve" => rc' # "idle")
  OBVIOUS
<1>2. ASSUME rc' = "ready"
      PROVE  Promise(chans', Unread', rset', Heard')
  <2>1. Promise(chans, Unread, rset, Heard)
    BY <1>2 DEF Announced
  <2>2. ASSUME NEW j \in 1 .. Len(chans'), j >= Unread', chans'[j].source \in rset'
        PROVE  chans'[j].conn \in Heard'
    <3>1. j \in 1 .. Len(chans) /\ j >= Unread /\ chans[j].source \in rset
      BY <2>2, UnreadType
    <3>2. chans[j].conn \in Heard
      BY <2>1, <3>1 DEF Promise
    <3> QED
      BY <2>2, <3>1, <3>2
  <2> QED
    BY <2>2 DEF Promise
<1> QED
  BY <1>1, <1>2 DEF Announced

\* The peers only add to what a source has to say.
LEMMA HeardMore ==
    ASSUME LInv, NetNext
    PROVE  Heard \subseteq Heard'
<1> SUFFICES ASSUME NEW x \in Conns, Answers(x, "source")
             PROVE  Answers(x, "source")'
  BY DEF Heard
<1>0. "source" \in Sides /\ "target" \in Sides
  BY DEF Sides
<1>1. PICK k \in Conns :
         \/ Arrive(k) \/ Establish(k) \/ Tick(k)
         \/ \E s \in Sides : Speak(k, s) \/ Drain(k, s) \/ Leave(k, s)
  BY DEF NetNext
<1>2. wire \in [Conns -> [Sides -> Seq(Bytes)]]
      /\ gone \in [Conns -> [Sides -> {"no", "closed", "reset"}]]
  BY DEF LInv, TypeOK, RelayOK, NetOK
<1>3. CASE UNCHANGED <<wire, gone>>
  BY <1>3 DEF Answers
<1>4. CASE Establish(k)
  <2>1. UNCHANGED wire /\ (UNCHANGED gone \/ gone' = [gone EXCEPT ![k]["target"] = "reset"])
    BY <1>4 DEF Establish, relayVars
  <2>2. [gone EXCEPT ![k]["target"] = "reset"][x]["source"] = gone[x]["source"]
    BY <1>0, <1>2
  <2>3. gone'[x]["source"] = gone[x]["source"]
    BY <2>1, <2>2
  <2> QED
    BY <2>1, <2>3 DEF Answers
<1>5. ASSUME NEW s \in Sides, Speak(k, s)
      PROVE  Answers(x, "source")'
  <2>1. UNCHANGED gone /\ wire' = [wire EXCEPT ![k][s] = Append(@, Len(said[k][s]) + 1)]
    BY <1>5 DEF Speak, Say, netVars
  <2>2. wire'[x]["source"] = wire[x]["source"]
        \/ wire'[x]["source"] = Append(wire[x]["source"], Len(said[k][s]) + 1)
    BY <1>0, <1>2, <2>1
  <2>3. wire[x]["source"] \in Seq(Bytes)
    BY <1>0, <1>2
  <2>4. wire'[x]["source"] = <<>> => wire[x]["source"] = <<>>
    BY <2>2, <2>3
  <2> QED
    BY <2>1, <2>4 DEF Answers
<1>6. ASSUME NEW s \in Sides, Leave(k, s)
      PROVE  Answers(x, "source")'
  <2>1. UNCHANGED wire /\ \E v \in {"closed", "reset"} : gone' = [gone EXCEPT ![k][s] = v]
    BY <1>6 DEF Leave, relayVars
  <2>2. gone'[x]["source"] \in {gone[x]["source"], "closed", "reset"}
    BY <1>0, <1>2, <2>1
  <2> QED
    BY <2>1, <2>2 DEF Answers
<1> QED
  BY <1>1, <1>3, <1>4, <1>5, <1>6 DEF Arrive, Tick, Drain, relayVars

LEMMA NetAnnounced ==
    ASSUME DInv, NetNext
    PROVE  Announced'
<1>1. UNCHANGED loopVars
  BY DEF NetNext, Arrive, Establish, Tick, Speak, Drain, Leave
<1>2. Heard \subseteq Heard'
  BY HeardMore DEF DInv
<1>3. Free' = Free /\ Unread' = Unread
  BY <1>1 DEF Free, Unread, loopVars
<1>4. UNCHANGED <<chans, rset, rc, pc>>
  BY <1>1 DEF loopVars
<1>5. ASSUME pc # "select", rc = "ready"
      PROVE  Promise(chans, Unread, rset, Heard')
  BY <1>2, <1>5 DEF DInv, Announced, Promise
<1> QED
  BY <1>3, <1>4, <1>5 DEF DInv, Announced

LEMMA SelectAnnounced ==
    ASSUME DInv, SelectReady \/ SelectIdle \/ SelectInterrupted
    PROVE  Announced'
<1>1. chans' = [j \in DOMAIN chans |-> [chans[j] EXCEPT !.seen = FALSE]]
      /\ pc' = "accept" /\ i' = 1 /\ UNCHANGED <<relayVars, netVars, owner>>
      /\ (rc' = "ready" => rset' = Ready.read)
  BY DEF SelectReady, SelectIdle, SelectInterrupted, SelectReturns
<1>2. /\ chans' \in Seq(ChanRec) /\ Len(chans') = Len(chans)
      /\ \A j \in 1 .. Len(chans) : /\ chans'[j].conn = chans[j].conn
                                    /\ chans'[j].source = chans[j].source
  BY <1>1, SeenReset DEF DInv
<1>3. \A j \in 1 .. Len(chans) : /\ Triple(chans[j]) \in Triples(chans)
                                 /\ chans[j] \in ChanRec
                                 /\ Triple(chans[j])[1] = chans[j].conn
                                 /\ Triple(chans[j])[2] = chans[j].source
                                 /\ Triple(chans[j])[3] = chans[j].target
  BY ExactTypes, TriplesType DEF DInv, Triple
<1>4. ASSUME NEW j \in 1 .. Len(chans)
      PROVE  /\ owner[chans[j].source] = <<chans[j].conn, "source">>
             /\ owner[chans[j].target] = <<chans[j].conn, "target">>
             /\ chans[j].conn \in Conns
  <2> DEFINE t == Triple(chans[j])
  <2>1. owner[t[2]] = <<t[1], "source">> /\ owner[t[3]] = <<t[1], "target">>
    BY <1>3 DEF DInv, Exact, Table
  <2>2. t[1] = chans[j].conn /\ t[2] = chans[j].source /\ t[3] = chans[j].target
    BY <1>3
  <2> HIDE DEF t
  <2>3. chans[j].conn \in Conns
    BY <1>3 DEF ChanRec
  <2> QED
    BY <2>1, <2>2, <2>3
<1>5. owner[Listener] = Listening /\ Listening # Nobody
      /\ \A k \in Conns, s \in Sides : <<k, s>> # Nobody /\ <<k, s>> # Listening
  BY DEF DInv, Exact, Table, Listening, Nobody, Sides
<1>6. "source" \in Sides /\ "target" \in Sides
  BY DEF Sides
<1>7. Ready.read = {f \in Asked.read : IF f = Listener THEN backlog # {}
                                       ELSE Answers(owner[f][1], owner[f][2])}
  BY DEF Ready
<1>8. ASSUME NEW f \in Asked.read
      PROVE  f = Listener \/ \E j \in 1 .. Len(chans) : f = chans[j].source \/ f = chans[j].target
  <2>1. f = Listener \/ \E e \in Ends : f = chans[e[1]][e[2]]
    BY DEF Asked
  <2>2. \A e \in Ends : e[1] \in 1 .. Len(chans) /\ e[2] \in {"source", "target"}
    BY UnreadType DEF Ends, Sides, DInv
  <2> QED
    BY <2>1, <2>2
<1>9. ASSUME rc' = "ready"
      PROVE  Free' \cap rset' = {}
  <2> SUFFICES ASSUME NEW f \in Free', f \in rset'
               PROVE  FALSE
    OBVIOUS
  <2>1. f \in Asked.read /\ owner[f] = Nobody
    BY <1>1, <1>7, <1>9 DEF Free
  <2>2. f # Listener
    BY <1>5, <2>1
  <2>3. PICK j \in 1 .. Len(chans) : f = chans[j].source \/ f = chans[j].target
    BY <1>8, <2>1, <2>2
  <2>4. /\ owner[f] = <<chans[j].conn, "source">> \/ owner[f] = <<chans[j].conn, "target">>
        /\ chans[j].conn \in Conns
    BY <1>4, <2>3
  <2> QED
    BY <1>5, <1>6, <2>1, <2>4
<1>10. ASSUME rc' = "ready"
       PROVE  Promise(chans', Unread', rset', Heard')
  <2> SUFFICES ASSUME NEW j \in 1 .. Len(chans'), chans'[j].source \in rset'
               PROVE  chans'[j].conn \in Heard'
    BY DEF Promise
  <2> DEFINE f == chans[j].source
  <2>1. j \in 1 .. Len(chans) /\ chans'[j].source = f /\ chans'[j].conn = chans[j].conn
    BY <1>2
  <2>2. f \in Ready.read
    BY <1>1, <1>10, <2>1
  <2>3. owner[f] = <<chans[j].conn, "source">> /\ chans[j].conn \in Conns
    BY <1>4, <2>1
  <2> HIDE DEF f
  <2>4. f # Listener
    BY <1>5, <1>6, <2>3
  <2>5. Answers(owner[f][1], owner[f][2])
    BY <1>7, <2>2, <2>4
  <2>6. Answers(chans[j].conn, "source")
    BY <2>3, <2>5
  <2>7. UNCHANGED <<wire, gone>>
    BY <1>1 DEF relayVars, netVars
  <2>8. chans[j].conn \in Heard'
    BY <2>3, <2>6, <2>7 DEF Heard, Answers
  <2> QED
    BY <2>1, <2>8
<1> QED
  BY <1>1, <1>9, <1>10 DEF Announced

\* A channel is taken out at the index of the loop: those behind it move up.
LEMMA RemovedPromise ==
    ASSUME NEW q \in Seq(ChanRec), NEW m \in 1 .. Len(q), NEW n \in Nat, n >= m,
           NEW R, NEW H, NEW G, Apart(q), n = m \/ n = m + 1, Promise(q, n, R, H),
           \A k \in H : k # q[m].conn => k \in G
    PROVE  Promise(RemoveAt(q, m), m, R, G)
<1>1. /\ Len(RemoveAt(q, m)) = Len(q) - 1 /\ Len(q) \in Nat
      /\ \A j \in 1 .. Len(q) - 1 : RemoveAt(q, m)[j] = IF j < m THEN q[j] ELSE q[j + 1]
  BY Removing
<1> SUFFICES ASSUME NEW j \in 1 .. Len(RemoveAt(q, m)), j >= m, RemoveAt(q, m)[j].source \in R
             PROVE  RemoveAt(q, m)[j].conn \in G
  BY DEF Promise
<1>2. j + 1 \in 1 .. Len(q) /\ j + 1 >= n /\ j + 1 # m /\ RemoveAt(q, m)[j] = q[j + 1]
  BY <1>1
<1>3. q[j + 1].conn \in H
  BY <1>2 DEF Promise
<1>4. q[j + 1].conn # q[m].conn
  BY <1>2 DEF Apart
<1> QED
  BY <1>2, <1>3, <1>4

LEMMA DeleteAnnounced ==
    ASSUME DInv, InPass, pc \in {"check", "serve"}, Delete
    PROVE  Announced'
<1>1. i \in 1 .. Len(chans) /\ chans \in Seq(ChanRec) /\ i \in Nat /\ Cur \in Conns
  BY CurType, LoopTypes DEF DInv
<1>2. /\ chans' = RemoveAt(chans, i) /\ pc' = "check" /\ UNCHANGED <<rset, rc, i, wire>>
      /\ gone' = [gone EXCEPT ![Cur] = [s \in Sides |-> "no"]]
  BY DEF Delete, Drop
<1>3. \A k \in Heard : k # chans[i].conn => k \in Heard'
  <2>1. gone \in [Conns -> [Sides -> {"no", "closed", "reset"}]]
    BY DEF DInv, LInv, TypeOK, NetOK
  <2>2. \A k \in Conns : k # Cur => gone'[k] = gone[k]
    BY <1>2, <2>1
  <2> QED
    BY <1>2, <2>2 DEF Heard, Answers, Cur
<1>4. ASSUME rc = "ready"
      PROVE  Promise(chans', i, rset, Heard')
  <2>1. Unread \in Nat /\ Unread >= i /\ (Unread = i \/ Unread = i + 1)
    BY UnreadType DEF Unread, DInv
  <2>2. Promise(chans, Unread, rset, Heard)
    BY <1>4 DEF DInv, Announced
  <2>3. Apart(chans)
    BY DEF DInv, Exact
  <2> QED
    BY <1>1, <1>2, <1>3, <2>1, <2>2, <2>3, RemovedPromise
<1>5. Unread' = i
  BY <1>2 DEF Unread
<1> QED
  BY <1>2, <1>4, <1>5 DEF Announced

LEMMA AppendedPromise ==
    ASSUME NEW q \in Seq(ChanRec), NEW n \in Nat, NEW R, NEW H, Promise(q, n, R, H),
           NEW k \in Conns, NEW f \in Fds, NEW g \in Fds, f \in R => k \in H
    PROVE  Promise(Append(q, Chan(k, f, g)), n, R, H)
<1> DEFINE c == Chan(k, f, g)
<1>1. c \in ChanRec /\ c.source = f /\ c.conn = k
  BY DEF Chan, ChanRec
<1> HIDE DEF c
<1>2. /\ Len(Append(q, c)) = Len(q) + 1 /\ Len(q) \in Nat
      /\ \A j \in 1 .. Len(q) : Append(q, c)[j] = q[j]
      /\ Append(q, c)[Len(q) + 1] = c
  BY <1>1, AppendProperties
<1>3. \A j \in 1 .. Len(Append(q, c)) : j \in 1 .. Len(q) \/ j = Len(q) + 1
  BY <1>2
<1> SUFFICES Promise(Append(q, c), n, R, H)
  BY DEF c
<1> SUFFICES ASSUME NEW j \in 1 .. Len(Append(q, c)), j >= n, Append(q, c)[j].source \in R
             PROVE  Append(q, c)[j].conn \in H
  BY DEF Promise
<1>4. CASE j \in 1 .. Len(q)
  BY <1>2, <1>4 DEF Promise
<1>5. CASE j = Len(q) + 1
  BY <1>1, <1>2, <1>5
<1> QED
  BY <1>3, <1>4, <1>5

\* The source of a channel that fails over keeps what it has to say.
LEMMA FailoverAnnounced ==
    ASSUME DInv, Failover
    PROVE  Announced'
<1> DEFINE dst == Lowest(Free)
           src == chans[i].source
           q == RemoveAt(chans, i)
<1>1. /\ InPass /\ pc = "check" /\ UNCHANGED <<rset, wset, rc, pc, i, step>>
      /\ chans' = Append(q, Chan(Cur, src, dst))
  BY DEF Failover
<1>2. i \in 1 .. Len(chans) /\ chans \in Seq(ChanRec) /\ i \in Nat /\ Cur \in Conns
      /\ chans[i] \in ChanRec
  BY <1>1, CurType, LoopTypes DEF DInv
<1>3. src \in Fds /\ dst \in Fds
  <2>1. Free \in SUBSET Fds
    BY DEF Free
  <2>2. dst \in Free
    BY <2>1, LowestFree DEF Failover
  <2> QED
    BY <1>2, <2>1, <2>2 DEF ChanRec
<1>4. Heard' = Heard
  <2>1. /\ wire' = [wire EXCEPT ![Cur]["target"] = <<>>]
        /\ gone' = [gone EXCEPT ![Cur]["target"] = "no"]
    BY DEF Failover, Reroute
  <2>2. wire \in [Conns -> [Sides -> Seq(Bytes)]]
        /\ gone \in [Conns -> [Sides -> {"no", "closed", "reset"}]]
    BY DEF DInv, LInv, TypeOK, RelayOK, NetOK
  <2>3. "source" \in Sides /\ "target" \in Sides
    BY DEF Sides
  <2>4. \A k \in Conns : wire'[k]["source"] = wire[k]["source"]
                         /\ gone'[k]["source"] = gone[k]["source"]
    BY <1>2, <2>1, <2>2, <2>3
  <2> QED
    BY <2>4 DEF Heard, Answers
<1>5. Unread = i /\ Unread' = i
  BY <1>1 DEF Unread
<1>6. ASSUME rc = "ready"
      PROVE  Promise(chans', i, rset, Heard)
  <2>1. Promise(chans, i, rset, Heard)
    BY <1>1, <1>5, <1>6 DEF DInv, Announced
  <2>2. Promise(q, i, rset, Heard)
    <3>1. Apart(chans)
      BY DEF DInv, Exact
    <3>2. i >= i
      BY <1>2
    <3> QED
      BY <1>2, <2>1, <3>1, <3>2, RemovedPromise
  <2>3. src \in rset => Cur \in Heard
    <3>1. i >= i
      BY <1>2
    <3> QED
      BY <1>2, <2>1, <3>1 DEF Promise, Cur
  <2>4. q \in Seq(ChanRec)
    BY <1>2, Removing
  <2> HIDE DEF q, src, dst
  <2>5. Promise(Append(q, Chan(Cur, src, dst)), i, rset, Heard)
    BY <1>2, <1>3, <2>2, <2>3, <2>4, AppendedPromise
  <2> QED
    BY <1>1, <2>5
<1> HIDE DEF q, src, dst
<1> QED
  BY <1>1, <1>4, <1>5, <1>6 DEF Announced, DInv

LEMMA AcceptAnnounced ==
    ASSUME DInv, Accept
    PROVE  Announced'
<1>1. PICK k \in backlog : Refuse(k) \/ Admit(k)
  BY DEF Accept
<1>2. /\ pc = "accept" /\ pc' = "check" /\ UNCHANGED <<rset, wset, rc, i, step>>
  BY DEF Accept
<1>3. k \in Conns /\ chans \in Seq(ChanRec) /\ i \in Nat
  BY <1>1, ExactTypes, LoopTypes DEF DInv
<1>4. Unread = i /\ Unread' = i
  BY <1>2 DEF Unread
<1>5. Heard' = Heard
  BY <1>1 DEF Refuse, Admit, Drop, Create, Heard, Answers
<1>6. rc = "ready" => Promise(chans, i, rset, Heard) /\ Free \cap rset = {}
  BY <1>2, <1>4 DEF DInv, Announced
<1>7. CASE Refuse(k)
  BY <1>2, <1>4, <1>5, <1>6, <1>7 DEF Refuse, Announced
<1>8. CASE Admit(k)
  <2> DEFINE src == Lowest(Free)
             dst == Lowest(Free \ {src})
  <2>1. src \in Free /\ dst \in Free
    <3>1. Free \in SUBSET Fds /\ Free \ {src} \in SUBSET Fds
      BY DEF Free
    <3>2. src \in Free
      BY <1>8, <3>1, LowestFree DEF Admit
    <3>3. dst \in Free \ {src}
      BY <1>8, <3>1, LowestFree DEF Admit
    <3> QED
      BY <3>2, <3>3
  <2>2. chans' = Append(chans, Chan(k, src, dst))
    BY <1>8 DEF Admit
  <2> HIDE DEF src, dst
  <2>3. src \in Fds /\ dst \in Fds
    BY <2>1 DEF Free
  <2>4. rc = "ready" => Promise(Append(chans, Chan(k, src, dst)), i, rset, Heard)
    BY <1>3, <1>6, <2>1, <2>3, AppendedPromise
  <2> QED
    BY <1>2, <1>4, <1>5, <2>2, <2>4 DEF Announced
<1> QED
  BY <1>1, <1>7, <1>8

\* A step of the turn of a channel: what it reads is no longer waited for.
LEMMA TurnAnnounced ==
    ASSUME DInv, NEW s \in Sides,
           \/ ReadSome(s) \/ ReadEof(s) \/ ReadError(s) \/ WriteSome(s) \/ WriteError(s)
           \/ ReadNothing \/ WriteNothing \/ WriteRest \/ RestLeft
    PROVE  Announced'
<1>1. pc = "serve" /\ InPass
  BY DEF DInv, LInv, Position, ReadSome, ReadEof, ReadError, WriteSome, WriteError,
     ReadNothing, WriteNothing, WriteRest, RestLeft, At
<1>2. CASE Delete
  BY <1>1, <1>2, DeleteAnnounced
<1>3. CASE ~ Delete
  <2>1. /\ UNCHANGED <<chans, rset, rc, pc, i, gone>>
        /\ \/ UNCHANGED <<step, wire>>
           \/ Done("write", s) /\ UNCHANGED wire
           \/ Done("write", "target") /\ UNCHANGED wire
           \/ Done("read", s) /\ \/ UNCHANGED wire
                                  \/ \E n : wire' = [wire EXCEPT ![Cur][s] = SubSeq(@, n + 1, Len(@))]
           \/ Done("read", "target") /\ UNCHANGED wire
           \/ Done("rest", "source") /\ UNCHANGED wire
    BY <1>3 DEF ReadSome, ReadEof, ReadError, WriteSome, WriteError, ReadNothing, WriteNothing,
       WriteRest, RestLeft, Send, Done, Read, Write, TouchOnly, relayVars
  <2>2. \A op \in {"read", "write", "rest"}, x \in Sides :
           Done(op, x) /\ (op = "rest" => x = "source") => step' # 1
    <3> SUFFICES ASSUME NEW op \in {"read", "write", "rest"}, NEW x \in Sides, Done(op, x),
                        op = "rest" => x = "source"
                 PROVE  step' # 1
      OBVIOUS
    <3> DEFINE part == CHOOSE j \in DOMAIN Turn : Turn[j] = <<op, x>>
    <3>1. step' = part + 1
      BY DEF Done
    <3>2. \E j \in DOMAIN Turn : Turn[j] = <<op, x>>
      BY DEF Turn, Sides
    <3>3. part \in DOMAIN Turn
      BY <3>2
    <3>4. DOMAIN Turn = {1, 2, 3, 4, 5}
      BY DEF Turn
    <3> HIDE DEF part
    <3> QED
      BY <3>1, <3>3, <3>4
  <2>3. /\ UNCHANGED <<chans, rset, rc, pc, i, gone>>
        /\ \/ UNCHANGED <<step, wire>>
           \/ /\ step' # 1
              /\ UNCHANGED wire \/ \E n : wire' = [wire EXCEPT ![Cur][s] = SubSeq(@, n + 1, Len(@))]
    <3>1. "target" \in Sides /\ "source" \in Sides
      BY DEF Sides
    <3> QED
      BY <2>1, <2>2, <3>1
  <2>4. Unread' >= Unread /\ Unread' \in Nat /\ (step' # 1 => Unread' = i + 1)
    BY <1>1, <2>3, UnreadType DEF Unread, DInv
  <2>5. chans \in Seq(ChanRec) /\ i \in 1 .. Len(chans) /\ Apart(chans) /\ Cur \in Conns
    BY <1>1, CurType, LoopTypes DEF DInv, Exact
  <2>6. ASSUME NEW j \in 1 .. Len(chans), j >= Unread', chans[j].conn \in Heard
        PROVE  chans[j].conn \in Heard'
    <3>1. CASE UNCHANGED wire
      BY <2>3, <2>6, <3>1 DEF Heard, Answers
    <3>2. CASE step' # 1 /\ \E n : wire' = [wire EXCEPT ![Cur][s] = SubSeq(@, n + 1, Len(@))]
      <4>1. j # i
        BY <2>4, <2>5, <2>6, <3>2
      <4>2. chans[j].conn # Cur
        BY <2>5, <4>1 DEF Apart, Cur
      <4>3. wire \in [Conns -> [Sides -> Seq(Bytes)]]
        BY DEF DInv, LInv, TypeOK, RelayOK
      <4>4. chans[j].conn \in Conns
        BY <2>6 DEF Heard
      <4>5. wire'[chans[j].conn] = wire[chans[j].conn]
        BY <3>2, <4>2, <4>3, <4>4
      <4> QED
        BY <2>3, <2>6, <4>5 DEF Heard, Answers
    <3> QED
      BY <2>3, <3>1, <3>2
  <2>7. pc' = "serve" => rc # "idle"
    BY <1>1 DEF DInv, Announced
  <2>8. /\ chans' \in Seq(ChanRec) /\ Len(chans') = Len(chans)
        /\ \A j \in 1 .. Len(chans) : /\ chans'[j].conn = chans[j].conn
                                      /\ chans'[j].source = chans[j].source
    BY <2>3, <2>5
  <2> QED
    BY <1>1, <2>3, <2>4, <2>6, <2>7, <2>8, AnnouncedSame, SMTT(30) DEF DInv
<1> QED
  BY <1>2, <1>3

LEMMA ServeAnnounced ==
    ASSUME DInv, Serve \/ EndTurn \/ AcceptNone \/ EndPass
    PROVE  Announced'
<1>1. Heard' = Heard
  BY DEF Serve, EndTurn, AcceptNone, EndPass, relayVars, netVars, Heard, Answers
<1>2. chans \in Seq(ChanRec) /\ i \in Nat /\ Unread \in Nat /\ Len(chans) \in Nat
  BY UnreadType DEF DInv
<1>3. CASE EndPass
  BY <1>3 DEF EndPass, Announced
<1>4. CASE Serve
  <2>1. /\ InPass /\ chans' = [chans EXCEPT ![i].seen = TRUE] /\ pc = "check"
        /\ UNCHANGED <<rset, rc, step>>
        /\ \/ pc' = "check" /\ i' = i + 1
           \/ pc' = "serve" /\ i' = i /\ rc # "idle"
    BY <1>4 DEF Serve
  <2>2. Unread' \in Nat /\ Unread' >= Unread
    BY <1>2, <2>1 DEF Unread
  <2>3. /\ chans' \in Seq(ChanRec) /\ Len(chans') = Len(chans)
        /\ \A j \in 1 .. Len(chans) : /\ chans'[j].conn = chans[j].conn
                                      /\ chans'[j].source = chans[j].source
    BY <2>1, SeenSet DEF DInv
  <2> QED
    BY <1>1, <2>1, <2>2, <2>3, AnnouncedSame DEF DInv
<1>5. CASE EndTurn \/ AcceptNone
  <2>1. /\ UNCHANGED <<chans, rset, rc>> /\ pc' = "check" /\ pc \in {"accept", "serve"}
        /\ \/ pc = "serve" /\ i' = i + 1
           \/ pc = "accept" /\ i' = i
    BY <1>5 DEF EndTurn, AcceptNone
  <2>2. Unread' \in Nat /\ Unread' >= Unread
    BY <1>2, <2>1 DEF Unread
  <2>3. /\ chans' \in Seq(ChanRec) /\ Len(chans') = Len(chans)
        /\ \A j \in 1 .. Len(chans) : /\ chans'[j].conn = chans[j].conn
                                      /\ chans'[j].source = chans[j].source
    BY <1>2, <2>1
  <2> QED
    BY <1>1, <2>1, <2>2, <2>3, AnnouncedSame DEF DInv
<1> QED
  BY <1>3, <1>4, <1>5

LEMMA NextAnnounced == DInv /\ [Next]_vars => Announced'
<1> SUFFICES ASSUME DInv, [Next]_vars PROVE Announced'
  OBVIOUS
<1>1. CASE UNCHANGED vars
  <2>1. Heard' = Heard /\ Unread' = Unread /\ Free' = Free
        /\ UNCHANGED <<chans, pc, rc, rset>>
    BY <1>1 DEF vars, relayVars, netVars, loopVars, Heard, Answers, Unread, Free
  <2> QED
    BY <2>1 DEF DInv, Announced
<1>2. CASE FailoverRefused
  BY <1>2, DeleteAnnounced DEF FailoverRefused
<1>3. "source" \in Sides
  BY DEF Sides
<1> QED
  BY <1>1, <1>2, <1>3, NetAnnounced, SelectAnnounced, AcceptAnnounced, FailoverAnnounced,
     ServeAnnounced, TurnAnnounced DEF Next, MainNext, RestReset, RestInterrupted

LEMMA AnnouncedWaits ==
    ASSUME DInv
    PROVE  WaitsOnlyInterrupted
<1> SUFFICES ASSUME At("read", "source"), ~ Answers(Cur, "source"), rc # "interrupted"
             PROVE  FALSE
  BY DEF WaitsOnlyInterrupted, WaitsInRecv
<1>1. pc = "serve" /\ InPass
  BY DEF At, DInv, LInv, Position
<1>2. rc = "ready"
  BY <1>1 DEF DInv, LInv, TypeOK, LoopOK, Announced
<1>3. PICK j \in step .. Len(Turn) : Turn[j] = <<"read", "source">> /\ Marked(j)
  BY DEF At
<1>4. step \in 1 .. 6 /\ Len(Turn) = 5
  BY DEF DInv, LInv, TypeOK, LoopOK, Turn
<1>5. j = 1
  <2>1. j \in {1, 2, 3, 4, 5}
    BY <1>4
  <2>2. \A h \in {2, 3, 4, 5} : Turn[h] # <<"read", "source">>
    BY DEF Turn
  <2> QED
    BY <1>3, <2>1, <2>2
<1>6. step = 1
  BY <1>3, <1>4, <1>5
<1>7. chans[i].source \in rset
  BY <1>3, <1>5 DEF Marked, Turn
<1>8. Unread = i
  BY <1>6 DEF Unread
<1>9. i \in 1 .. Len(chans) /\ i >= i
  BY <1>1, CurType DEF DInv
<1>10. Cur \in Heard
  BY <1>1, <1>2, <1>7, <1>8, <1>9 DEF DInv, Announced, Promise, Cur
<1> QED
  BY <1>10 DEF Heard

\* The main thread never enters a recv that would wait for a client in a pass
\* that follows a select which was not interrupted.
THEOREM EventLoopWaits == Spec => []WaitsOnlyInterrupted
<1>1. Init => Announced
  BY DEF Init, Announced
<1>2. Init => DInv
  BY <1>1, InitLInv, InitExact DEF DInv
<1>3. DInv /\ [Next]_vars => DInv'
  BY NextLInv, NextExact, NextAnnounced DEF DInv
<1>4. DInv => WaitsOnlyInterrupted
  BY AnnouncedWaits
<1> QED
  BY <1>2, <1>3, <1>4, PTL DEF Spec
=============================================================================
