---------------------------- MODULE RelayProofs -----------------------------
(***************************************************************************)
(* The bytes of every channel form streams: Relay implements Stream, for   *)
(* any number of connections, any bytes and any sizes of the buffers.      *)
(*                                                                         *)
(* The inductive invariant says where the bytes are: what a side has said  *)
(* is what it has lost, then what the other side got, then the buffer,     *)
(* then the wire.                                                          *)
(***************************************************************************)
EXTENDS Relay, SequenceTheorems, TLAPS

USE RelayAssumption

-----------------------------------------------------------------------------
(* Sequences. *)

\* What recv and send do to a sequence: the first n bytes leave it.
LEMMA Splitting ==
    ASSUME NEW q \in Seq(Bytes), NEW n \in 0 .. Len(q)
    PROVE  /\ SubSeq(q, 1, n) \in Seq(Bytes)
           /\ Len(SubSeq(q, 1, n)) = n
           /\ \A j \in 1 .. n : SubSeq(q, 1, n)[j] = q[j]
           /\ SubSeq(q, n + 1, Len(q)) \in Seq(Bytes)
           /\ Len(SubSeq(q, n + 1, Len(q))) = Len(q) - n
           /\ \A j \in 1 .. Len(q) - n : SubSeq(q, n + 1, Len(q))[j] = q[n + j]
<1>1. \A j \in 1 .. Len(q) : q[j] \in Bytes
  BY ElementOfSeq
<1>2. n \in Nat /\ Len(q) \in Nat
  OBVIOUS
<1>3. /\ SubSeq(q, 1, n) \in Seq(Bytes)
      /\ Len(SubSeq(q, 1, n)) = (IF 1 <= n THEN n - 1 + 1 ELSE 0)
      /\ \A j \in 1 .. n - 1 + 1 : SubSeq(q, 1, n)[j] = q[1 + j - 1]
  <2>1. \A j \in 1 .. n : q[j] \in Bytes
    BY <1>1, <1>2
  <2> QED
    BY <1>2, <2>1, SubSeqProperties
<1>4. /\ SubSeq(q, n + 1, Len(q)) \in Seq(Bytes)
      /\ Len(SubSeq(q, n + 1, Len(q))) = (IF n + 1 <= Len(q) THEN Len(q) - (n + 1) + 1 ELSE 0)
      /\ \A j \in 1 .. Len(q) - (n + 1) + 1 : SubSeq(q, n + 1, Len(q))[j] = q[(n + 1) + j - 1]
  <2>1. \A j \in n + 1 .. Len(q) : q[j] \in Bytes
    BY <1>1, <1>2
  <2>2. n + 1 \in Int /\ Len(q) \in Int
    BY <1>2
  <2> QED
    BY <2>1, <2>2, SubSeqProperties
<1> QED
  BY <1>2, <1>3, <1>4

\* Where the bytes of a stream are.
Placed(sd, g, b, w) ==
    LET l == Len(sd) - Len(w) - Len(b) - Len(g) IN
    /\ l >= 0
    /\ \A j \in 1 .. Len(g) : g[j] = sd[l + j]
    /\ \A j \in 1 .. Len(b) : b[j] = sd[l + Len(g) + j]
    /\ \A j \in 1 .. Len(w) : w[j] = sd[l + Len(g) + Len(b) + j]

LEMMA PlacedSay ==
    ASSUME NEW sd \in Seq(Bytes), NEW g \in Seq(Bytes), NEW b \in Seq(Bytes),
           NEW w \in Seq(Bytes), NEW x \in Bytes, Placed(sd, g, b, w)
    PROVE  Placed(Append(sd, x), g, b, Append(w, x))
<1> DEFINE l  == Len(sd) - Len(w) - Len(b) - Len(g)
           s2 == Append(sd, x)
           w2 == Append(w, x)
<1>1. /\ Len(s2) = Len(sd) + 1 /\ Len(w2) = Len(w) + 1
      /\ \A j \in 1 .. Len(sd) : s2[j] = sd[j]
      /\ \A j \in 1 .. Len(w) : w2[j] = w[j]
      /\ s2[Len(sd) + 1] = x /\ w2[Len(w) + 1] = x
  OBVIOUS
<1>2. /\ Len(sd) \in Nat /\ Len(g) \in Nat /\ Len(b) \in Nat /\ Len(w) \in Nat
      /\ Len(s2) - Len(w2) - Len(b) - Len(g) = l
  BY <1>1
<1>3. l >= 0
  BY DEF Placed
<1>4. \A j \in 1 .. Len(g) : g[j] = s2[l + j]
  BY <1>1, <1>2, <1>3 DEF Placed
<1>5. \A j \in 1 .. Len(b) : b[j] = s2[l + Len(g) + j]
  BY <1>1, <1>2, <1>3 DEF Placed
<1>6. \A j \in 1 .. Len(w2) : w2[j] = s2[l + Len(g) + Len(b) + j]
  <2> SUFFICES ASSUME NEW j \in 1 .. Len(w2)
               PROVE  w2[j] = s2[l + Len(g) + Len(b) + j]
    OBVIOUS
  <2>1. CASE j \in 1 .. Len(w)
    <3>1. l + Len(g) + Len(b) + j \in 1 .. Len(sd)
      BY <1>2, <1>3, <2>1
    <3>2. w[j] = sd[l + Len(g) + Len(b) + j]
      BY <2>1 DEF Placed
    <3> QED
      BY <1>1, <2>1, <3>1, <3>2
  <2>2. CASE j = Len(w) + 1
    <3>1. l + Len(g) + Len(b) + j = Len(sd) + 1
      BY <1>2, <2>2
    <3> QED
      BY <1>1, <2>2, <3>1
  <2>3. j \in 1 .. Len(w) \/ j = Len(w) + 1
    BY <1>1, <1>2
  <2> QED
    BY <2>1, <2>2, <2>3
<1> HIDE DEF l, s2, w2
<1> QED
  BY <1>2, <1>3, <1>4, <1>5, <1>6 DEF Placed, s2, w2

LEMMA PlacedRead ==
    ASSUME NEW sd \in Seq(Bytes), NEW g \in Seq(Bytes), NEW b \in Seq(Bytes),
           NEW w \in Seq(Bytes), NEW n \in 0 .. Len(w), Placed(sd, g, b, w)
    PROVE  /\ b \o SubSeq(w, 1, n) \in Seq(Bytes)
           /\ Len(b \o SubSeq(w, 1, n)) = Len(b) + n
           /\ SubSeq(w, n + 1, Len(w)) \in Seq(Bytes)
           /\ Len(SubSeq(w, n + 1, Len(w))) = Len(w) - n
           /\ Placed(sd, g, b \o SubSeq(w, 1, n), SubSeq(w, n + 1, Len(w)))
<1> DEFINE l  == Len(sd) - Len(w) - Len(b) - Len(g)
           f  == SubSeq(w, 1, n)
           w2 == SubSeq(w, n + 1, Len(w))
           b2 == b \o f
<1>1. /\ f \in Seq(Bytes) /\ Len(f) = n /\ \A j \in 1 .. n : f[j] = w[j]
      /\ w2 \in Seq(Bytes) /\ Len(w2) = Len(w) - n
      /\ \A j \in 1 .. Len(w) - n : w2[j] = w[n + j]
  BY Splitting
<1> HIDE DEF f, w2
<1>2. /\ b2 \in Seq(Bytes) /\ Len(b2) = Len(b) + n
      /\ \A j \in 1 .. Len(b) + n : b2[j] = IF j <= Len(b) THEN b[j] ELSE f[j - Len(b)]
  BY <1>1, ConcatProperties
<1> HIDE DEF b2
<1>3. /\ Len(sd) \in Nat /\ Len(g) \in Nat /\ Len(b) \in Nat /\ Len(w) \in Nat /\ n \in Nat
      /\ n <= Len(w)
      /\ Len(sd) - Len(w2) - Len(b2) - Len(g) = l
  BY <1>1, <1>2
<1>4. /\ l >= 0
      /\ \A j \in 1 .. Len(g) : g[j] = sd[l + j]
      /\ \A j \in 1 .. Len(b) : b[j] = sd[l + Len(g) + j]
      /\ \A j \in 1 .. Len(w) : w[j] = sd[l + Len(g) + Len(b) + j]
  BY DEF Placed
<1> HIDE DEF l
<1>5. \A j \in 1 .. Len(b2) : b2[j] = sd[l + Len(g) + j]
  <2> SUFFICES ASSUME NEW j \in 1 .. Len(b2)
               PROVE  b2[j] = sd[l + Len(g) + j]
    OBVIOUS
  <2>1. CASE j <= Len(b)
    <3>1. j \in 1 .. Len(b) /\ b2[j] = b[j]
      BY <1>2, <1>3, <2>1
    <3> QED
      BY <1>4, <3>1
  <2>2. CASE j > Len(b)
    <3>1. j - Len(b) \in 1 .. n /\ j - Len(b) \in 1 .. Len(w)
      BY <1>2, <1>3, <2>2
    <3>2. b2[j] = w[j - Len(b)]
      BY <1>1, <1>2, <1>3, <2>2, <3>1
    <3>3. w[j - Len(b)] = sd[l + Len(g) + Len(b) + (j - Len(b))]
      BY <1>4, <3>1
    <3>4. l + Len(g) + Len(b) + (j - Len(b)) = l + Len(g) + j
      BY <1>3, <3>1 DEF l
    <3> QED
      BY <3>2, <3>3, <3>4
  <2> QED
    BY <1>2, <1>3, <2>1, <2>2
<1>6. \A j \in 1 .. Len(w2) : w2[j] = sd[l + Len(g) + Len(b2) + j]
  <2> SUFFICES ASSUME NEW j \in 1 .. Len(w2)
               PROVE  w2[j] = sd[l + Len(g) + Len(b2) + j]
    OBVIOUS
  <2>1. n + j \in 1 .. Len(w) /\ w2[j] = w[n + j]
    BY <1>1, <1>3
  <2>2. w[n + j] = sd[l + Len(g) + Len(b) + (n + j)]
    BY <1>4, <2>1
  <2>3. l + Len(g) + Len(b) + (n + j) = l + Len(g) + Len(b2) + j
    BY <1>2, <1>3 DEF l
  <2> QED
    BY <2>1, <2>2, <2>3
<1>7. Placed(sd, g, b2, w2)
  BY <1>3, <1>4, <1>5, <1>6 DEF Placed
<1> QED
  BY <1>1, <1>2, <1>7 DEF b2, f, w2

LEMMA PlacedWrite ==
    ASSUME NEW sd \in Seq(Bytes), NEW g \in Seq(Bytes), NEW b \in Seq(Bytes),
           NEW w \in Seq(Bytes), NEW n \in 0 .. Len(b), Placed(sd, g, b, w)
    PROVE  /\ g \o SubSeq(b, 1, n) \in Seq(Bytes)
           /\ Len(g \o SubSeq(b, 1, n)) = Len(g) + n
           /\ SubSeq(b, n + 1, Len(b)) \in Seq(Bytes)
           /\ Len(SubSeq(b, n + 1, Len(b))) = Len(b) - n
           /\ Placed(sd, g \o SubSeq(b, 1, n), SubSeq(b, n + 1, Len(b)), w)
<1> DEFINE l  == Len(sd) - Len(w) - Len(b) - Len(g)
           f  == SubSeq(b, 1, n)
           b2 == SubSeq(b, n + 1, Len(b))
           g2 == g \o f
<1>1. /\ f \in Seq(Bytes) /\ Len(f) = n /\ \A j \in 1 .. n : f[j] = b[j]
      /\ b2 \in Seq(Bytes) /\ Len(b2) = Len(b) - n
      /\ \A j \in 1 .. Len(b) - n : b2[j] = b[n + j]
  BY Splitting
<1> HIDE DEF f, b2
<1>2. /\ g2 \in Seq(Bytes) /\ Len(g2) = Len(g) + n
      /\ \A j \in 1 .. Len(g) + n : g2[j] = IF j <= Len(g) THEN g[j] ELSE f[j - Len(g)]
  BY <1>1, ConcatProperties
<1> HIDE DEF g2
<1>3. /\ Len(sd) \in Nat /\ Len(g) \in Nat /\ Len(b) \in Nat /\ Len(w) \in Nat /\ n \in Nat
      /\ n <= Len(b)
      /\ Len(sd) - Len(w) - Len(b2) - Len(g2) = l
  BY <1>1, <1>2
<1>4. /\ l >= 0
      /\ \A j \in 1 .. Len(g) : g[j] = sd[l + j]
      /\ \A j \in 1 .. Len(b) : b[j] = sd[l + Len(g) + j]
      /\ \A j \in 1 .. Len(w) : w[j] = sd[l + Len(g) + Len(b) + j]
  BY DEF Placed
<1> HIDE DEF l
<1>5. \A j \in 1 .. Len(g2) : g2[j] = sd[l + j]
  <2> SUFFICES ASSUME NEW j \in 1 .. Len(g2)
               PROVE  g2[j] = sd[l + j]
    OBVIOUS
  <2>1. CASE j <= Len(g)
    <3>1. j \in 1 .. Len(g) /\ g2[j] = g[j]
      BY <1>2, <1>3, <2>1
    <3> QED
      BY <1>4, <3>1
  <2>2. CASE j > Len(g)
    <3>1. j - Len(g) \in 1 .. n /\ j - Len(g) \in 1 .. Len(b)
      BY <1>2, <1>3, <2>2
    <3>2. g2[j] = b[j - Len(g)]
      BY <1>1, <1>2, <1>3, <2>2, <3>1
    <3>3. b[j - Len(g)] = sd[l + Len(g) + (j - Len(g))]
      BY <1>4, <3>1
    <3>4. l + Len(g) + (j - Len(g)) = l + j
      BY <1>3, <3>1 DEF l
    <3> QED
      BY <3>2, <3>3, <3>4
  <2> QED
    BY <1>2, <1>3, <2>1, <2>2
<1>6. \A j \in 1 .. Len(b2) : b2[j] = sd[l + Len(g2) + j]
  <2> SUFFICES ASSUME NEW j \in 1 .. Len(b2)
               PROVE  b2[j] = sd[l + Len(g2) + j]
    OBVIOUS
  <2>1. n + j \in 1 .. Len(b) /\ b2[j] = b[n + j]
    BY <1>1, <1>3
  <2>2. b[n + j] = sd[l + Len(g) + (n + j)]
    BY <1>4, <2>1
  <2>3. l + Len(g) + (n + j) = l + Len(g2) + j
    BY <1>2, <1>3 DEF l
  <2> QED
    BY <2>1, <2>2, <2>3
<1>7. Len(g2) + Len(b2) = Len(g) + Len(b)
  BY <1>1, <1>2, <1>3
<1>8. \A j \in 1 .. Len(w) : w[j] = sd[l + Len(g2) + Len(b2) + j]
  <2> SUFFICES ASSUME NEW j \in 1 .. Len(w)
               PROVE  w[j] = sd[l + Len(g2) + Len(b2) + j]
    OBVIOUS
  <2>1. l + Len(g2) + Len(b2) + j = l + Len(g) + Len(b) + j
    BY <1>1, <1>2, <1>3, <1>7 DEF l
  <2> QED
    BY <1>4, <2>1
<1>9. Placed(sd, g2, b2, w)
  BY <1>3, <1>4, <1>5, <1>6, <1>8 DEF Placed
<1> QED
  BY <1>1, <1>2, <1>9 DEF g2, f, b2

\* The bytes that are written are those that come next in the stream.
LEMMA WrittenIsNext ==
    ASSUME NEW sd \in Seq(Bytes), NEW g \in Seq(Bytes), NEW b \in Seq(Bytes),
           NEW w \in Seq(Bytes), NEW n \in 0 .. Len(b), Placed(sd, g, b, w)
    PROVE  g \o SubSeq(b, 1, n) = SubSeq(sd, Len(sd) - Len(w) - Len(b) - Len(g) + 1,
                                          Len(sd) - Len(w) - Len(b) - Len(g) + Len(g) + n)
<1> DEFINE l  == Len(sd) - Len(w) - Len(b) - Len(g)
           b2 == SubSeq(b, n + 1, Len(b))
           g2 == g \o SubSeq(b, 1, n)
           h  == SubSeq(sd, l + 1, l + Len(g) + n)
<1>1. /\ g2 \in Seq(Bytes) /\ Len(g2) = Len(g) + n
      /\ Len(b2) = Len(b) - n
      /\ Placed(sd, g2, b2, w)
  BY PlacedWrite
<1> HIDE DEF g2, b2
<1>2. /\ Len(sd) \in Nat /\ Len(g) \in Nat /\ Len(b) \in Nat /\ Len(w) \in Nat /\ n \in Nat
      /\ n <= Len(b)
      /\ Len(sd) - Len(w) - Len(b2) - Len(g2) = l
  BY <1>1
<1>3. /\ l >= 0 /\ l \in Nat
      /\ \A j \in 1 .. Len(g2) : g2[j] = sd[l + j]
  <2>1. l >= 0
    BY DEF Placed
  <2>2. l \in Nat
    BY <1>2, <2>1
  <2>3. \A j \in 1 .. Len(g2) : g2[j] = sd[Len(sd) - Len(w) - Len(b2) - Len(g2) + j]
    BY <1>1 DEF Placed
  <2>4. Len(sd) - Len(w) - Len(b2) - Len(g2) = l
    BY <1>2
  <2> HIDE DEF l
  <2> QED
    BY <2>1, <2>2, <2>3, <2>4
<1>4. /\ h \in Seq(Bytes)
      /\ Len(h) = (IF l + 1 <= l + Len(g) + n THEN (l + Len(g) + n) - (l + 1) + 1 ELSE 0)
      /\ \A j \in 1 .. (l + Len(g) + n) - (l + 1) + 1 : h[j] = sd[(l + 1) + j - 1]
  <2>1. l + 1 \in Int /\ l + Len(g) + n \in Int
    BY <1>2, <1>3
  <2>2. l + Len(g) + n <= Len(sd)
    BY <1>2, <1>3
  <2>3. \A j \in l + 1 .. l + Len(g) + n : j \in 1 .. Len(sd)
    BY <1>2, <1>3, <2>2
  <2>4. \A j \in l + 1 .. l + Len(g) + n : sd[j] \in Bytes
    BY <2>3, ElementOfSeq
  <2> HIDE DEF l
  <2> QED
    BY <2>1, <2>4, SubSeqProperties
<1> HIDE DEF l, h
<1>5. Len(h) = Len(g2)
  BY <1>1, <1>2, <1>3, <1>4
<1>6. \A j \in 1 .. Len(g2) : g2[j] = h[j]
  <2> SUFFICES ASSUME NEW j \in 1 .. Len(g2)
               PROVE  g2[j] = h[j]
    OBVIOUS
  <2>1. l \in Nat /\ j \in 1 .. Len(g) + n
    BY <1>1, <1>3
  <2>2. (l + Len(g) + n) - (l + 1) + 1 = Len(g) + n
    BY <1>2, <2>1
  <2>3. (l + 1) + j - 1 = l + j
    BY <1>2, <2>1
  <2> QED
    BY <1>3, <1>4, <2>1, <2>2, <2>3
<1>7. g2 = h
  BY <1>1, <1>4, <1>5, <1>6, SeqEqual
<1> QED
  BY <1>7 DEF g2, h, l

-----------------------------------------------------------------------------
(* The inductive invariant. *)

Where(k, s) == Placed(said[k][s], got[k][s], buf[k][s], wire[k][s])

IInv ==
    /\ RelayOK
    /\ \A k \in Conns : ~connected[k] => buf[k]["target"] = <<>>
    /\ \A k \in Conns, s \in Sides : Where(k, s)

LEMMA SizeType ==
    ASSUME NEW c \in BOOLEAN, NEW d \in BOOLEAN
    PROVE  /\ Size(c) \in Nat \ {0}
           /\ Size(c) <= Size(c \/ d)
  BY DEF Size

LEMMA InitIInv == RelayInit => IInv
<1> SUFFICES ASSUME RelayInit PROVE IInv
  OBVIOUS
<1>1. \A v \in {said, wire, buf, got} : v = Empty
  BY DEF RelayInit
<1>2. Empty \in [Conns -> [Sides -> Seq(Bytes)]]
  BY EmptySeq DEF Empty
<1>3. \A k \in Conns, s \in Sides : Empty[k][s] = <<>>
  BY DEF Empty
<1>4. "target" \in Sides
  BY DEF Sides
<1>5. RelayOK
  <2>1. \A v \in {said, wire, buf, got} : v \in [Conns -> [Sides -> Seq(Bytes)]]
    BY <1>1, <1>2
  <2>2. phase \in [Conns -> Phases] /\ connected \in [Conns -> BOOLEAN]
    BY DEF RelayInit, Phases
  <2>3. \A k \in Conns, s \in Sides : Len(buf[k][s]) <= Size(connected[k])
    BY <1>1, <1>3, <2>2, SizeType
  <2>4. \A k \in Conns, s \in Sides : got[k][s] = <<>>
    BY <1>1, <1>3
  <2> QED
    BY <2>1, <2>2, <2>3, <2>4 DEF RelayOK
<1>6. \A k \in Conns, s \in Sides : Where(k, s)
  BY <1>1, <1>3 DEF Where, Placed
<1> QED
  BY <1>1, <1>3, <1>4, <1>5, <1>6 DEF IInv

LEMMA Types ==
    ASSUME IInv, NEW k \in Conns, NEW s \in Sides
    PROVE  /\ said[k][s] \in Seq(Bytes) /\ wire[k][s] \in Seq(Bytes)
           /\ buf[k][s] \in Seq(Bytes) /\ got[k][s] \in Seq(Bytes)
           /\ connected[k] \in BOOLEAN /\ phase[k] \in Phases
           /\ Where(k, s)
           /\ Len(buf[k][s]) <= Size(connected[k])
           /\ ~connected[k] => got[k][s] = <<>>
  BY DEF IInv, RelayOK

\* When the bytes of one stream change, those of the others do not.
LEMMA AtOne ==
    ASSUME NEW V, NEW f \in [Conns -> [Sides -> V]], NEW k \in Conns, NEW s \in Sides, NEW v \in V
    PROVE  LET g == [f EXCEPT ![k][s] = v] IN
           /\ g \in [Conns -> [Sides -> V]]
           /\ g[k][s] = v
           /\ \A h \in Conns, r \in Sides : <<h, r>> # <<k, s>> => g[h][r] = f[h][r]
  OBVIOUS

LEMMA SayInv ==
    ASSUME IInv, NEW k \in Conns, NEW s \in Sides, NEW b \in Bytes, Say(k, s, b)
    PROVE  IInv'
<1>1. /\ said' = [said EXCEPT ![k][s] = Append(said[k][s], b)]
      /\ wire' = [wire EXCEPT ![k][s] = Append(wire[k][s], b)]
      /\ UNCHANGED <<buf, got, phase, connected>>
  BY DEF Say
<1>2. /\ said \in [Conns -> [Sides -> Seq(Bytes)]]
      /\ wire \in [Conns -> [Sides -> Seq(Bytes)]]
      /\ Append(said[k][s], b) \in Seq(Bytes) /\ Append(wire[k][s], b) \in Seq(Bytes)
  BY Types DEF IInv, RelayOK
<1>3. /\ said' \in [Conns -> [Sides -> Seq(Bytes)]]
      /\ said'[k][s] = Append(said[k][s], b)
      /\ \A h \in Conns, r \in Sides : <<h, r>> # <<k, s>> => said'[h][r] = said[h][r]
  BY <1>1, <1>2, AtOne
<1>4. /\ wire' \in [Conns -> [Sides -> Seq(Bytes)]]
      /\ wire'[k][s] = Append(wire[k][s], b)
      /\ \A h \in Conns, r \in Sides : <<h, r>> # <<k, s>> => wire'[h][r] = wire[h][r]
  BY <1>1, <1>2, AtOne
<1>5. \A h \in Conns, r \in Sides : Where(h, r)'
  <2> SUFFICES ASSUME NEW h \in Conns, NEW r \in Sides
               PROVE  Where(h, r)'
    OBVIOUS
  <2>1. CASE <<h, r>> = <<k, s>>
    <3>1. Where(k, s) /\ said[k][s] \in Seq(Bytes) /\ wire[k][s] \in Seq(Bytes)
          /\ buf[k][s] \in Seq(Bytes) /\ got[k][s] \in Seq(Bytes)
      BY Types
    <3>2. Placed(Append(said[k][s], b), got[k][s], buf[k][s], Append(wire[k][s], b))
      BY <3>1, PlacedSay DEF Where
    <3>3. h = k /\ r = s
      BY <2>1
    <3> QED
      BY <1>1, <1>3, <1>4, <3>2, <3>3 DEF Where
  <2>2. CASE <<h, r>> # <<k, s>>
    <3>1. Where(h, r)
      BY Types
    <3> QED
      BY <1>1, <1>3, <1>4, <2>2, <3>1 DEF Where
  <2> QED
    BY <2>1, <2>2
<1>6. RelayOK'
  BY <1>1, <1>3, <1>4 DEF IInv, RelayOK
<1> QED
  BY <1>1, <1>5, <1>6 DEF IInv

LEMMA TouchType ==
    ASSUME IInv, NEW k \in Conns, NEW s \in Sides, Touch(k, s)
    PROVE  /\ connected' \in [Conns -> BOOLEAN]
           /\ \A h \in Conns : connected[h] => connected'[h]
           /\ \A h \in Conns : Size(connected[h]) <= Size(connected'[h])
           /\ s = "target" => connected'[k]
<1>1. /\ connected' \in [Conns -> BOOLEAN]
      /\ \A h \in Conns : connected[h] => connected'[h]
      /\ s = "target" => connected'[k]
  BY DEF Touch, IInv, RelayOK
<1>2. connected \in [Conns -> BOOLEAN]
  BY DEF IInv, RelayOK
<1> QED
  BY <1>1, <1>2 DEF Size

LEMMA ReadInv ==
    ASSUME IInv, NEW k \in Conns, NEW s \in Sides, NEW n \in 1 .. Len(wire[k][s]),
           Read(k, s, n)
    PROVE  IInv'
<1> DEFINE b2 == buf[k][s] \o SubSeq(wire[k][s], 1, n)
           w2 == SubSeq(wire[k][s], n + 1, Len(wire[k][s]))
<1>1. /\ buf' = [buf EXCEPT ![k][s] = b2]
      /\ wire' = [wire EXCEPT ![k][s] = w2]
      /\ UNCHANGED <<said, got, phase>>
      /\ Touch(k, s)
      /\ Len(buf[k][s]) + n <= Size(connected'[k])
  BY DEF Read
<1>2. Where(k, s) /\ said[k][s] \in Seq(Bytes) /\ wire[k][s] \in Seq(Bytes)
      /\ buf[k][s] \in Seq(Bytes) /\ got[k][s] \in Seq(Bytes)
  BY Types
<1>3. n \in 0 .. Len(wire[k][s])
  BY <1>2
<1>4. /\ b2 \in Seq(Bytes) /\ Len(b2) = Len(buf[k][s]) + n
      /\ w2 \in Seq(Bytes)
      /\ Placed(said[k][s], got[k][s], b2, w2)
  BY <1>2, <1>3, PlacedRead DEF Where
<1> HIDE DEF b2, w2
<1>5. /\ buf \in [Conns -> [Sides -> Seq(Bytes)]]
      /\ wire \in [Conns -> [Sides -> Seq(Bytes)]]
  BY DEF IInv, RelayOK
<1>6. /\ buf' \in [Conns -> [Sides -> Seq(Bytes)]]
      /\ buf'[k][s] = b2
      /\ \A h \in Conns, r \in Sides : <<h, r>> # <<k, s>> => buf'[h][r] = buf[h][r]
  BY <1>1, <1>4, <1>5, AtOne
<1>7. /\ wire' \in [Conns -> [Sides -> Seq(Bytes)]]
      /\ wire'[k][s] = w2
      /\ \A h \in Conns, r \in Sides : <<h, r>> # <<k, s>> => wire'[h][r] = wire[h][r]
  BY <1>1, <1>4, <1>5, AtOne
<1>8. /\ connected' \in [Conns -> BOOLEAN]
      /\ \A h \in Conns : connected[h] => connected'[h]
      /\ \A h \in Conns : Size(connected[h]) <= Size(connected'[h])
      /\ s = "target" => connected'[k]
  BY <1>1, TouchType
<1>9. \A h \in Conns, r \in Sides :
          /\ Where(h, r)'
          /\ Len(buf'[h][r]) <= Size(connected'[h])
          /\ ~connected'[h] => got'[h][r] = <<>>
          /\ ~connected'[h] => buf'[h]["target"] = <<>>
  <2> SUFFICES ASSUME NEW h \in Conns, NEW r \in Sides
               PROVE  /\ Where(h, r)'
                      /\ Len(buf'[h][r]) <= Size(connected'[h])
                      /\ ~connected'[h] => got'[h][r] = <<>>
                      /\ ~connected'[h] => buf'[h]["target"] = <<>>
    OBVIOUS
  <2>1. Where(h, r) /\ Len(buf[h][r]) <= Size(connected[h])
        /\ (~connected[h] => got[h][r] = <<>>) /\ buf[h][r] \in Seq(Bytes)
        /\ connected[h] \in BOOLEAN
    BY Types
  <2>2. ~connected[h] => buf[h]["target"] = <<>>
    BY DEF IInv
  <2>3. ~connected'[h] => got'[h][r] = <<>>
    BY <1>1, <1>8, <2>1
  <2>4. ~connected'[h] => buf'[h]["target"] = <<>>
    <3>1. "target" \in Sides
      BY DEF Sides
    <3> QED
      BY <1>6, <1>8, <2>2, <3>1
  <2>5. CASE <<h, r>> = <<k, s>>
    <3>1. h = k /\ r = s
      BY <2>5
    <3>2. Where(h, r)'
      BY <1>1, <1>4, <1>6, <1>7, <3>1 DEF Where
    <3>3. Len(buf'[h][r]) <= Size(connected'[h])
      BY <1>1, <1>4, <1>6, <3>1
    <3> QED
      BY <2>3, <2>4, <3>2, <3>3
  <2>6. CASE <<h, r>> # <<k, s>>
    <3>1. Where(h, r)'
      BY <1>1, <1>6, <1>7, <2>1, <2>6 DEF Where
    <3>2. Size(connected[h]) \in Nat /\ Size(connected'[h]) \in Nat /\ Len(buf[h][r]) \in Nat
      BY <1>8, <2>1, SizeType
    <3>3. Len(buf'[h][r]) <= Size(connected'[h])
      BY <1>6, <1>8, <2>1, <2>6, <3>2
    <3> QED
      BY <2>3, <2>4, <3>1, <3>3
  <2> QED
    BY <2>5, <2>6
<1>10. RelayOK'
  BY <1>1, <1>6, <1>7, <1>8, <1>9 DEF IInv, RelayOK
<1>11. \A h \in Conns : ~connected'[h] => buf'[h]["target"] = <<>>
  <2>1. \E r \in Sides : TRUE
    BY DEF Sides
  <2> QED
    BY <1>9, <2>1
<1> QED
  BY <1>9, <1>10, <1>11 DEF IInv

LEMMA WriteInv ==
    ASSUME IInv, NEW k \in Conns, NEW s \in Sides, NEW n \in 1 .. Len(buf[k][s]),
           Write(k, s, n)
    PROVE  IInv'
<1> DEFINE g2 == got[k][s] \o SubSeq(buf[k][s], 1, n)
           b2 == SubSeq(buf[k][s], n + 1, Len(buf[k][s]))
<1>1. /\ got' = [got EXCEPT ![k][s] = g2]
      /\ buf' = [buf EXCEPT ![k][s] = b2]
      /\ UNCHANGED <<said, wire, phase>>
      /\ Touch(k, Other(s)) /\ Other(s) \in Sides
      /\ s = "source" => Other(s) = "target"
  BY DEF Write, Other, Sides
<1>2. Where(k, s) /\ said[k][s] \in Seq(Bytes) /\ wire[k][s] \in Seq(Bytes)
      /\ buf[k][s] \in Seq(Bytes) /\ got[k][s] \in Seq(Bytes)
      /\ Len(buf[k][s]) <= Size(connected[k])
  BY Types
<1>3. n \in 0 .. Len(buf[k][s])
  BY <1>2
<1>4. /\ g2 \in Seq(Bytes)
      /\ b2 \in Seq(Bytes) /\ Len(b2) = Len(buf[k][s]) - n
      /\ Placed(said[k][s], g2, b2, wire[k][s])
  BY <1>2, <1>3, PlacedWrite DEF Where
<1> HIDE DEF g2, b2
<1>5. /\ buf \in [Conns -> [Sides -> Seq(Bytes)]]
      /\ got \in [Conns -> [Sides -> Seq(Bytes)]]
  BY DEF IInv, RelayOK
<1>6. /\ buf' \in [Conns -> [Sides -> Seq(Bytes)]]
      /\ buf'[k][s] = b2
      /\ \A h \in Conns, r \in Sides : <<h, r>> # <<k, s>> => buf'[h][r] = buf[h][r]
  BY <1>1, <1>4, <1>5, AtOne
<1>7. /\ got' \in [Conns -> [Sides -> Seq(Bytes)]]
      /\ got'[k][s] = g2
      /\ \A h \in Conns, r \in Sides : <<h, r>> # <<k, s>> => got'[h][r] = got[h][r]
  BY <1>1, <1>4, <1>5, AtOne
<1>8. /\ connected' \in [Conns -> BOOLEAN]
      /\ \A h \in Conns : connected[h] => connected'[h]
      /\ \A h \in Conns : Size(connected[h]) <= Size(connected'[h])
      /\ s = "source" => connected'[k]
  BY <1>1, TouchType
\* An unconnected channel has read nothing from its target.
<1>9. connected'[k]
  <2>1. CASE s = "source"
    BY <1>8, <2>1
  <2>2. CASE s = "target"
    <3>1. buf[k]["target"] # <<>>
      BY <1>2, <2>2, EmptySeq
    <3> QED
      BY <1>8, <3>1 DEF IInv
  <2> QED
    BY <2>1, <2>2 DEF Sides
<1>10. \A h \in Conns, r \in Sides :
          /\ Where(h, r)'
          /\ Len(buf'[h][r]) <= Size(connected'[h])
          /\ ~connected'[h] => got'[h][r] = <<>>
          /\ ~connected'[h] => buf'[h]["target"] = <<>>
  <2> SUFFICES ASSUME NEW h \in Conns, NEW r \in Sides
               PROVE  /\ Where(h, r)'
                      /\ Len(buf'[h][r]) <= Size(connected'[h])
                      /\ ~connected'[h] => got'[h][r] = <<>>
                      /\ ~connected'[h] => buf'[h]["target"] = <<>>
    OBVIOUS
  <2>1. Where(h, r) /\ Len(buf[h][r]) <= Size(connected[h])
        /\ (~connected[h] => got[h][r] = <<>>) /\ buf[h][r] \in Seq(Bytes)
        /\ connected[h] \in BOOLEAN
    BY Types
  <2>2. ~connected[h] => buf[h]["target"] = <<>>
    BY DEF IInv
  <2>3. Size(connected[h]) \in Nat /\ Size(connected'[h]) \in Nat /\ Len(buf[h][r]) \in Nat
        /\ Size(connected[h]) <= Size(connected'[h])
    BY <1>8, <2>1, SizeType
  <2>4. ~connected'[h] => got'[h][r] = <<>>
    BY <1>7, <1>8, <1>9, <2>1
  <2>5. ~connected'[h] => buf'[h]["target"] = <<>>
    <3>1. "target" \in Sides
      BY DEF Sides
    <3> QED
      BY <1>6, <1>8, <1>9, <2>2, <3>1
  <2>6. CASE <<h, r>> = <<k, s>>
    <3>1. h = k /\ r = s
      BY <2>6
    <3>2. Where(h, r)'
      BY <1>1, <1>4, <1>6, <1>7, <3>1 DEF Where
    <3>3. Len(buf'[h][r]) <= Size(connected'[h])
      BY <1>3, <1>4, <1>6, <2>1, <2>3, <3>1
    <3> QED
      BY <2>4, <2>5, <3>2, <3>3
  <2>7. CASE <<h, r>> # <<k, s>>
    <3>1. Where(h, r)'
      BY <1>1, <1>6, <1>7, <2>1, <2>7 DEF Where
    <3>2. Len(buf'[h][r]) <= Size(connected'[h])
      BY <1>6, <2>1, <2>3, <2>7
    <3> QED
      BY <2>4, <2>5, <3>1, <3>2
  <2> QED
    BY <2>6, <2>7
<1>11. RelayOK'
  BY <1>1, <1>6, <1>7, <1>8, <1>10 DEF IInv, RelayOK
<1>12. \A h \in Conns : ~connected'[h] => buf'[h]["target"] = <<>>
  <2>1. \E r \in Sides : TRUE
    BY DEF Sides
  <2> QED
    BY <1>10, <2>1
<1> QED
  BY <1>10, <1>11, <1>12 DEF IInv

LEMMA TouchOnlyInv ==
    ASSUME IInv, NEW k \in Conns, NEW s \in Sides, TouchOnly(k, s)
    PROVE  IInv'
<1>1. UNCHANGED <<said, wire, buf, got, phase>> /\ Touch(k, s)
  BY DEF TouchOnly
<1>2. /\ connected' \in [Conns -> BOOLEAN]
      /\ \A h \in Conns : connected[h] => connected'[h]
      /\ \A h \in Conns : Size(connected[h]) <= Size(connected'[h])
  BY <1>1, TouchType
<1>3. \A h \in Conns, r \in Sides : Len(buf'[h][r]) <= Size(connected'[h])
  <2> SUFFICES ASSUME NEW h \in Conns, NEW r \in Sides
               PROVE  Len(buf'[h][r]) <= Size(connected'[h])
    OBVIOUS
  <2>1. Len(buf[h][r]) <= Size(connected[h]) /\ buf[h][r] \in Seq(Bytes)
        /\ connected[h] \in BOOLEAN
    BY Types
  <2>2. Size(connected[h]) \in Nat /\ Size(connected'[h]) \in Nat /\ Len(buf[h][r]) \in Nat
    BY <1>2, <2>1, SizeType
  <2> QED
    BY <1>1, <1>2, <2>1, <2>2
<1>4. RelayOK'
  BY <1>1, <1>2, <1>3 DEF IInv, RelayOK
<1>5. \A h \in Conns, r \in Sides : Where(h, r)'
  BY <1>1 DEF IInv, Where
<1> QED
  BY <1>1, <1>2, <1>4, <1>5 DEF IInv

LEMMA PhaseInv ==
    ASSUME IInv, NEW k \in Conns, Create(k) \/ Drop(k)
    PROVE  IInv'
<1>1. UNCHANGED <<said, wire, buf, got, connected>>
  BY DEF Create, Drop
<1>2. phase' \in [Conns -> Phases]
  BY DEF IInv, RelayOK, Create, Drop, Phases
<1>3. RelayOK'
  BY <1>1, <1>2 DEF IInv, RelayOK
<1>4. \A h \in Conns, r \in Sides : Where(h, r)'
  BY <1>1 DEF IInv, Where
<1> QED
  BY <1>1, <1>3, <1>4 DEF IInv

\* What a failover leaves of the two streams of k.
LEMMA RerouteEffect ==
    ASSUME IInv, NEW k \in Conns, Reroute(k)
    PROVE  /\ UNCHANGED <<said, got, phase, connected>>
           /\ buf' \in [Conns -> [Sides -> Seq(Bytes)]]
           /\ wire' \in [Conns -> [Sides -> Seq(Bytes)]]
           /\ \A s \in Sides : buf'[k][s] = <<>> /\ got[k][s] = <<>>
           /\ wire'[k]["source"] = wire[k]["source"]
           /\ wire'[k]["target"] = <<>>
           /\ \A h \in Conns, r \in Sides :
                 h # k => buf'[h][r] = buf[h][r] /\ wire'[h][r] = wire[h][r]
<1>1. /\ buf' = [buf EXCEPT ![k] = [s \in Sides |-> <<>>]]
      /\ wire' = [wire EXCEPT ![k]["target"] = <<>>]
      /\ UNCHANGED <<said, got, phase, connected>>
      /\ ~connected[k]
  BY DEF Reroute
<1>2. /\ buf \in [Conns -> [Sides -> Seq(Bytes)]]
      /\ wire \in [Conns -> [Sides -> Seq(Bytes)]]
      /\ <<>> \in Seq(Bytes)
      /\ "source" \in Sides /\ "target" \in Sides /\ "source" # "target"
  BY EmptySeq DEF IInv, RelayOK, Sides
<1>3. /\ wire' \in [Conns -> [Sides -> Seq(Bytes)]]
      /\ wire'[k]["target"] = <<>>
      /\ \A h \in Conns, r \in Sides : <<h, r>> # <<k, "target">> => wire'[h][r] = wire[h][r]
  BY <1>1, <1>2, AtOne
<1>4. /\ buf' \in [Conns -> [Sides -> Seq(Bytes)]]
      /\ \A s \in Sides : buf'[k][s] = <<>>
      /\ \A h \in Conns, r \in Sides : h # k => buf'[h][r] = buf[h][r]
  BY <1>1, <1>2
<1>5. \A s \in Sides : got[k][s] = <<>>
  BY <1>1, Types
<1> QED
  BY <1>1, <1>2, <1>3, <1>4, <1>5

LEMMA RerouteInv ==
    ASSUME IInv, NEW k \in Conns, Reroute(k)
    PROVE  IInv'
<1>1. /\ UNCHANGED <<said, got, phase, connected>>
      /\ buf' \in [Conns -> [Sides -> Seq(Bytes)]]
      /\ wire' \in [Conns -> [Sides -> Seq(Bytes)]]
      /\ \A s \in Sides : buf'[k][s] = <<>> /\ got[k][s] = <<>>
      /\ wire'[k]["source"] = wire[k]["source"]
      /\ wire'[k]["target"] = <<>>
      /\ \A h \in Conns, r \in Sides :
            h # k => buf'[h][r] = buf[h][r] /\ wire'[h][r] = wire[h][r]
  BY RerouteEffect
<1>2. \A h \in Conns, r \in Sides : Where(h, r)'
  <2> SUFFICES ASSUME NEW h \in Conns, NEW r \in Sides
               PROVE  Where(h, r)'
    OBVIOUS
  <2>1. Where(h, r) /\ said[h][r] \in Seq(Bytes) /\ wire[h][r] \in Seq(Bytes)
        /\ buf[h][r] \in Seq(Bytes) /\ got[h][r] \in Seq(Bytes)
    BY Types
  <2>2. CASE h # k
    BY <1>1, <2>1, <2>2 DEF Where
  <2>3. CASE h = k /\ r = "target"
    <3>1. /\ said'[h][r] = said[h][r] /\ got'[h][r] = <<>>
          /\ buf'[h][r] = <<>> /\ wire'[h][r] = <<>>
      BY <1>1, <2>3
    <3>2. Placed(said[h][r], <<>>, <<>>, <<>>)
      BY <2>1 DEF Placed
    <3> QED
      BY <3>1, <3>2 DEF Where
  <2>4. CASE h = k /\ r = "source"
    <3>1. /\ said'[h][r] = said[h][r] /\ got'[h][r] = <<>> /\ got[h][r] = <<>>
          /\ buf'[h][r] = <<>> /\ wire'[h][r] = wire[h][r]
      BY <1>1, <2>4
    <3>2. Placed(said[h][r], <<>>, buf[h][r], wire[h][r])
      BY <2>1, <3>1 DEF Where
    <3>3. Placed(said[h][r], <<>>, <<>>, wire[h][r])
      <4> DEFINE sd == said[h][r]
                 b  == buf[h][r]
                 w  == wire[h][r]
      <4>1. /\ Len(sd) \in Nat /\ Len(b) \in Nat /\ Len(w) \in Nat
            /\ Len(sd) - Len(w) - Len(b) >= 0
            /\ \A j \in 1 .. Len(w) : w[j] = sd[Len(sd) - Len(w) + j]
        <5>1. Len(sd) \in Nat /\ Len(b) \in Nat /\ Len(w) \in Nat
          BY <2>1
        <5>2. /\ Len(sd) - Len(w) - Len(b) - 0 >= 0
              /\ \A j \in 1 .. Len(w) : w[j] = sd[Len(sd) - Len(w) - Len(b) - 0 + 0 + Len(b) + j]
          BY <3>2, EmptySeq DEF Placed
        <5>3. \A j \in 1 .. Len(w) : Len(sd) - Len(w) - Len(b) - 0 + 0 + Len(b) + j
                                     = Len(sd) - Len(w) + j
          BY <5>1
        <5> HIDE DEF sd, b, w
        <5> QED
          BY <5>1, <5>2, <5>3
      <4>2. \A j \in 1 .. Len(w) : Len(sd) - Len(w) - 0 - 0 + 0 + 0 + j = Len(sd) - Len(w) + j
        BY <4>1
      <4> HIDE DEF sd, b, w
      <4>3. Placed(sd, <<>>, <<>>, w)
        BY <4>1, <4>2, EmptySeq DEF Placed
      <4> QED
        BY <4>3 DEF sd, w
    <3> QED
      BY <3>1, <3>3 DEF Where
  <2> QED
    BY <2>2, <2>3, <2>4 DEF Sides
<1>3. \A h \in Conns, r \in Sides : Len(buf'[h][r]) <= Size(connected'[h])
  <2> SUFFICES ASSUME NEW h \in Conns, NEW r \in Sides
               PROVE  Len(buf'[h][r]) <= Size(connected'[h])
    OBVIOUS
  <2>1. connected[h] \in BOOLEAN /\ Len(buf[h][r]) <= Size(connected[h])
    BY Types
  <2>2. Size(connected[h]) \in Nat \ {0} /\ connected'[h] = connected[h]
    BY <1>1, <2>1, SizeType
  <2>3. CASE h = k
    BY <1>1, <2>2, <2>3, EmptySeq
  <2>4. CASE h # k
    BY <1>1, <2>1, <2>2, <2>4
  <2> QED
    BY <2>3, <2>4
<1>4. RelayOK'
  BY <1>1, <1>3 DEF IInv, RelayOK
<1>5. \A h \in Conns : ~connected'[h] => buf'[h]["target"] = <<>>
  <2>1. "target" \in Sides
    BY DEF Sides
  <2> QED
    BY <1>1, <2>1 DEF IInv
<1> QED
  BY <1>2, <1>4, <1>5 DEF IInv

LEMMA RelayNextIInv == IInv /\ [RelayNext]_relayVars => IInv'
<1> SUFFICES ASSUME IInv, [RelayNext]_relayVars
             PROVE  IInv'
  OBVIOUS
<1>1. CASE RelayNext
  <2> PICK k \in Conns :
         \/ Create(k) \/ Reroute(k) \/ Drop(k)
         \/ \E s \in Sides :
               \/ \E b \in Bytes : Say(k, s, b)
               \/ TouchOnly(k, s)
               \/ \E n \in 1 .. Len(wire[k][s]) : Read(k, s, n)
               \/ \E n \in 1 .. Len(buf[k][s]) : Write(k, s, n)
    BY <1>1 DEF RelayNext
  <2> QED
    BY SayInv, ReadInv, WriteInv, TouchOnlyInv, PhaseInv, RerouteInv
<1>2. CASE UNCHANGED relayVars
  BY <1>2 DEF IInv, RelayOK, Where, relayVars
<1> QED
  BY <1>1, <1>2

\* Every byte that a side has said is lost, got by the other side, in the buffer
\* or on the wire, in this order; buffers keep within their size, and nothing
\* passes before the channel counts as connected.
THEOREM RelayInvariance == RelaySpec => []IInv
<1>1. RelayInit => IInv
  BY InitIInv
<1>2. IInv /\ [RelayNext]_relayVars => IInv'
  BY RelayNextIInv
<1> QED
  BY <1>1, <1>2, PTL DEF RelaySpec

THEOREM RelayCorrect == RelaySpec => []RelayOK
<1>1. IInv => RelayOK
  BY DEF IInv
<1> QED
  BY <1>1, RelayInvariance, PTL

-----------------------------------------------------------------------------
(* Relay implements Stream, for every side of every connection. *)

Stutters(k, s) == UNCHANGED <<said[k][s], got[k][s], Lost(k, s)>>

StreamStep(k, s) == [S(k, s)!Next]_(S(k, s)!vars)

LEMMA StutterSteps ==
    ASSUME NEW k, NEW s, Stutters(k, s)
    PROVE  StreamStep(k, s)
  BY DEF Stutters, StreamStep, S!vars

\* A stream of which nothing has changed.
LEMMA Untouched ==
    ASSUME NEW k, NEW s, said'[k][s] = said[k][s], got'[k][s] = got[k][s],
           wire'[k][s] = wire[k][s], buf'[k][s] = buf[k][s]
    PROVE  StreamStep(k, s)
  BY StutterSteps DEF Stutters, Lost

LEMMA Arithmetic ==
    ASSUME NEW a \in Nat, NEW b \in Nat, NEW c \in Nat, NEW d \in Nat, NEW n \in Nat
    PROVE  /\ (a + 1) - (b + 1) - c - d = a - b - c - d
           /\ a - (b - n) - (c + n) - d = a - b - c - d
           /\ a - b - (c - n) - (d + n) = a - b - c - d
           /\ a - b - c - d >= 0 => /\ a - b - c - d \in Nat
                                   /\ (a - b - c - d) + d + c <= a
  OBVIOUS

LEMMA Lengths ==
    ASSUME IInv, NEW k \in Conns, NEW s \in Sides
    PROVE  /\ Len(said[k][s]) \in Nat /\ Len(wire[k][s]) \in Nat
           /\ Len(buf[k][s]) \in Nat /\ Len(got[k][s]) \in Nat
           /\ Lost(k, s) \in Nat
           /\ Lost(k, s) + Len(got[k][s]) + Len(buf[k][s]) <= Len(said[k][s])
<1>1. /\ Len(said[k][s]) \in Nat /\ Len(wire[k][s]) \in Nat
      /\ Len(buf[k][s]) \in Nat /\ Len(got[k][s]) \in Nat
  BY Types, LenProperties
<1>2. Len(said[k][s]) - Len(wire[k][s]) - Len(buf[k][s]) - Len(got[k][s]) >= 0
  BY Types DEF Where, Placed
<1> QED
  BY <1>1, <1>2, Arithmetic DEF Lost

LEMMA SayStep ==
    ASSUME IInv, NEW k \in Conns, NEW s \in Sides, NEW b \in Bytes, Say(k, s, b),
           NEW h \in Conns, NEW r \in Sides
    PROVE  StreamStep(h, r)
<1>1. /\ said \in [Conns -> [Sides -> Seq(Bytes)]]
      /\ wire \in [Conns -> [Sides -> Seq(Bytes)]]
      /\ said' = [said EXCEPT ![k][s] = Append(said[k][s], b)]
      /\ wire' = [wire EXCEPT ![k][s] = Append(wire[k][s], b)]
      /\ UNCHANGED <<buf, got>>
  BY DEF Say, IInv, RelayOK
<1>2. CASE <<h, r>> # <<k, s>>
  <2>1. said'[h][r] = said[h][r] /\ wire'[h][r] = wire[h][r]
    BY <1>1, <1>2
  <2> QED
    BY <1>1, <2>1, Untouched
<1>3. CASE h = k /\ r = s
  <2>1. said'[h][r] = Append(said[h][r], b) /\ wire'[h][r] = Append(wire[h][r], b)
    BY <1>1, <1>3
  <2>2. /\ said[h][r] \in Seq(Bytes) /\ wire[h][r] \in Seq(Bytes)
        /\ buf[h][r] \in Seq(Bytes) /\ got[h][r] \in Seq(Bytes)
    BY Types
  <2>3. Len(said'[h][r]) = Len(said[h][r]) + 1 /\ Len(wire'[h][r]) = Len(wire[h][r]) + 1
    BY <2>1, <2>2
  <2>4. Lost(h, r)' = Lost(h, r)
    <3>1. Lost(h, r)' = (Len(said[h][r]) + 1) - (Len(wire[h][r]) + 1)
                        - Len(buf[h][r]) - Len(got[h][r])
      BY <1>1, <2>3 DEF Lost
    <3>2. Lost(h, r)' = Len(said[h][r]) - Len(wire[h][r]) - Len(buf[h][r]) - Len(got[h][r])
      BY <3>1, Lengths, Arithmetic
    <3> QED
      BY <3>2 DEF Lost
  <2>5. S(h, r)!Put
    BY <1>1, <2>1, <2>4 DEF S!Put
  <2> QED
    BY <2>5 DEF StreamStep, S!Next
<1> QED
  BY <1>2, <1>3

LEMMA ReadStep ==
    ASSUME IInv, NEW k \in Conns, NEW s \in Sides, NEW n \in 1 .. Len(wire[k][s]),
           Read(k, s, n), NEW h \in Conns, NEW r \in Sides
    PROVE  StreamStep(h, r)
<1>1. /\ buf \in [Conns -> [Sides -> Seq(Bytes)]]
      /\ wire \in [Conns -> [Sides -> Seq(Bytes)]]
      /\ buf' = [buf EXCEPT ![k][s] = buf[k][s] \o SubSeq(wire[k][s], 1, n)]
      /\ wire' = [wire EXCEPT ![k][s] = SubSeq(wire[k][s], n + 1, Len(wire[k][s]))]
      /\ UNCHANGED <<said, got>>
  BY DEF Read, IInv, RelayOK
<1>2. CASE <<h, r>> # <<k, s>>
  <2>1. buf'[h][r] = buf[h][r] /\ wire'[h][r] = wire[h][r]
    BY <1>1, <1>2
  <2> QED
    BY <1>1, <2>1, Untouched
<1>3. CASE h = k /\ r = s
  <2>1. /\ buf'[h][r] = buf[h][r] \o SubSeq(wire[h][r], 1, n)
        /\ wire'[h][r] = SubSeq(wire[h][r], n + 1, Len(wire[h][r]))
    BY <1>1, <1>3
  <2>2. /\ said[h][r] \in Seq(Bytes) /\ wire[h][r] \in Seq(Bytes)
        /\ buf[h][r] \in Seq(Bytes) /\ got[h][r] \in Seq(Bytes)
        /\ Where(h, r)
    BY Types
  <2>3. n \in 0 .. Len(wire[h][r])
    BY <1>3, <2>2
  <2>4. Len(buf'[h][r]) = Len(buf[h][r]) + n /\ Len(wire'[h][r]) = Len(wire[h][r]) - n
    BY <2>1, <2>2, <2>3, PlacedRead DEF Where
  <2>5. Lost(h, r)' = Lost(h, r)
    <3>1. Lost(h, r)' = Len(said[h][r]) - (Len(wire[h][r]) - n)
                        - (Len(buf[h][r]) + n) - Len(got[h][r])
      BY <1>1, <2>4 DEF Lost
    <3>2. Lost(h, r)' = Len(said[h][r]) - Len(wire[h][r]) - Len(buf[h][r]) - Len(got[h][r])
      BY <2>3, <3>1, Lengths, Arithmetic
    <3> QED
      BY <3>2 DEF Lost
  <2> QED
    BY <1>1, <2>5, StutterSteps DEF Stutters
<1> QED
  BY <1>2, <1>3

LEMMA WriteStep ==
    ASSUME IInv, NEW k \in Conns, NEW s \in Sides, NEW n \in 1 .. Len(buf[k][s]),
           Write(k, s, n), NEW h \in Conns, NEW r \in Sides
    PROVE  StreamStep(h, r)
<1>1. /\ buf \in [Conns -> [Sides -> Seq(Bytes)]]
      /\ got \in [Conns -> [Sides -> Seq(Bytes)]]
      /\ got' = [got EXCEPT ![k][s] = got[k][s] \o SubSeq(buf[k][s], 1, n)]
      /\ buf' = [buf EXCEPT ![k][s] = SubSeq(buf[k][s], n + 1, Len(buf[k][s]))]
      /\ UNCHANGED <<said, wire>>
  BY DEF Write, IInv, RelayOK
<1>2. CASE <<h, r>> # <<k, s>>
  <2>1. buf'[h][r] = buf[h][r] /\ got'[h][r] = got[h][r]
    BY <1>1, <1>2
  <2> QED
    BY <1>1, <2>1, Untouched
<1>3. CASE h = k /\ r = s
  <2>1. /\ got'[h][r] = got[h][r] \o SubSeq(buf[h][r], 1, n)
        /\ buf'[h][r] = SubSeq(buf[h][r], n + 1, Len(buf[h][r]))
    BY <1>1, <1>3
  <2>2. /\ said[h][r] \in Seq(Bytes) /\ wire[h][r] \in Seq(Bytes)
        /\ buf[h][r] \in Seq(Bytes) /\ got[h][r] \in Seq(Bytes)
        /\ Placed(said[h][r], got[h][r], buf[h][r], wire[h][r])
    BY Types DEF Where
  <2>3. n \in 0 .. Len(buf[h][r])
    BY <1>3, <2>2
  <2>4. /\ Len(got[h][r] \o SubSeq(buf[h][r], 1, n)) = Len(got[h][r]) + n
        /\ Len(SubSeq(buf[h][r], n + 1, Len(buf[h][r]))) = Len(buf[h][r]) - n
    BY <2>2, <2>3, PlacedWrite
  <2>5. Lost(h, r)' = Lost(h, r)
    <3>1. Lost(h, r)' = Len(said[h][r]) - Len(wire[h][r])
                        - (Len(buf[h][r]) - n) - (Len(got[h][r]) + n)
      BY <1>1, <2>1, <2>4 DEF Lost
    <3>2. Lost(h, r)' = Len(said[h][r]) - Len(wire[h][r]) - Len(buf[h][r]) - Len(got[h][r])
      BY <2>3, <3>1, Lengths, Arithmetic
    <3> QED
      BY <3>2 DEF Lost
  <2>6. got'[h][r] = SubSeq(said[h][r], Lost(h, r) + 1, Lost(h, r) + Len(got[h][r]) + n)
    <3>1. got[h][r] \o SubSeq(buf[h][r], 1, n)
          = SubSeq(said[h][r],
                   Len(said[h][r]) - Len(wire[h][r]) - Len(buf[h][r]) - Len(got[h][r]) + 1,
                   Len(said[h][r]) - Len(wire[h][r]) - Len(buf[h][r]) - Len(got[h][r])
                     + Len(got[h][r]) + n)
      <4> DEFINE sd == said[h][r]
                 g  == got[h][r]
                 b  == buf[h][r]
                 w  == wire[h][r]
      <4>1. /\ sd \in Seq(Bytes) /\ g \in Seq(Bytes) /\ b \in Seq(Bytes) /\ w \in Seq(Bytes)
            /\ n \in 0 .. Len(b) /\ Placed(sd, g, b, w)
        BY <2>2, <2>3
      <4> HIDE DEF sd, g, b, w
      <4>2. g \o SubSeq(b, 1, n) = SubSeq(sd, Len(sd) - Len(w) - Len(b) - Len(g) + 1,
                                           Len(sd) - Len(w) - Len(b) - Len(g) + Len(g) + n)
        BY <4>1, WrittenIsNext
      <4> QED
        BY <4>2 DEF sd, g, b, w
    <3> QED
      BY <2>1, <3>1 DEF Lost
  <2>7. Lost(h, r) + Len(got[h][r]) + n \in Lost(h, r) + Len(got[h][r]) + 1 .. Len(said[h][r])
    <3> DEFINE l == Lost(h, r)
               a == Len(said[h][r])
               c == Len(buf[h][r])
               d == Len(got[h][r])
    <3>1. /\ n \in Nat /\ n >= 1 /\ n <= c
          /\ l \in Nat /\ a \in Nat /\ c \in Nat /\ d \in Nat /\ l + d + c <= a
      BY <1>3, Lengths
    <3> HIDE DEF l, a, c, d
    <3>2. l + d + n \in l + d + 1 .. a
      BY <3>1
    <3> QED
      BY <3>2 DEF l, a, d
  <2>8. S(h, r)!Deliver
    BY <1>1, <2>5, <2>6, <2>7 DEF S!Deliver
  <2> QED
    BY <2>8 DEF StreamStep, S!Next
<1> QED
  BY <1>2, <1>3

LEMMA RerouteStep ==
    ASSUME IInv, NEW k \in Conns, Reroute(k), NEW h \in Conns, NEW r \in Sides
    PROVE  StreamStep(h, r)
<1>1. /\ UNCHANGED <<said, got>>
      /\ \A s \in Sides : buf'[k][s] = <<>> /\ got[k][s] = <<>>
      /\ wire'[k]["source"] = wire[k]["source"]
      /\ wire'[k]["target"] = <<>>
      /\ \A g \in Conns, s \in Sides :
            g # k => buf'[g][s] = buf[g][s] /\ wire'[g][s] = wire[g][s]
  BY RerouteEffect
<1>2. CASE h # k
  BY <1>1, <1>2, Untouched
<1>3. CASE h = k
  <2>1. /\ said[h][r] \in Seq(Bytes) /\ wire[h][r] \in Seq(Bytes)
        /\ buf[h][r] \in Seq(Bytes) /\ got[h][r] \in Seq(Bytes)
        /\ Placed(said[h][r], got[h][r], buf[h][r], wire[h][r])
    BY Types DEF Where
  <2>2. /\ Len(said[h][r]) \in Nat /\ Len(wire[h][r]) \in Nat
        /\ Len(buf[h][r]) \in Nat /\ Len(got[h][r]) \in Nat
        /\ Lost(h, r) \in Nat
    BY Lengths
  <2>3. /\ got[h][r] = <<>> /\ Len(got[h][r]) = 0 /\ Len(buf'[h][r]) = 0
        /\ wire'[h][r] = wire[h][r] \/ Len(wire'[h][r]) = 0
    BY <1>1, <1>3, EmptySeq DEF Sides
  <2>4. Lost(h, r)' \in Lost(h, r) .. Len(said[h][r])
    <3>1. /\ Lost(h, r) = Len(said[h][r]) - Len(wire[h][r]) - Len(buf[h][r]) - Len(got[h][r])
          /\ Lost(h, r)' = Len(said[h][r]) - Len(wire'[h][r]) - Len(buf'[h][r]) - Len(got[h][r])
      BY <1>1 DEF Lost
    <3> DEFINE a == Len(said[h][r])
               b == Len(wire[h][r])
               c == Len(buf[h][r])
    <3>2. /\ a \in Nat /\ b \in Nat /\ c \in Nat
          /\ Lost(h, r) = a - b - c - 0 /\ Lost(h, r) \in Nat
          /\ Lost(h, r)' = a - b - 0 - 0 \/ Lost(h, r)' = a - 0 - 0 - 0
      BY <2>2, <2>3, <3>1
    <3> HIDE DEF a, b, c
    <3>3. Lost(h, r)' \in Lost(h, r) .. a
      BY <3>2
    <3> QED
      BY <3>3 DEF a
  <2>5. CASE Lost(h, r)' = Lost(h, r)
    BY <1>1, <2>5, StutterSteps DEF Stutters
  <2>6. CASE Lost(h, r)' # Lost(h, r)
    <3>1. Lost(h, r)' \in Lost(h, r) + 1 .. Len(said[h][r])
      BY <2>2, <2>4, <2>6
    <3>2. S(h, r)!Skip
      BY <1>1, <2>3, <3>1 DEF S!Skip
    <3> QED
      BY <3>2 DEF StreamStep, S!Next
  <2> QED
    BY <2>5, <2>6
<1> QED
  BY <1>2, <1>3

LEMMA RelayNextSteps ==
    ASSUME IInv, [RelayNext]_relayVars, NEW h \in Conns, NEW r \in Sides
    PROVE  StreamStep(h, r)
<1>1. CASE RelayNext
  <2> PICK k \in Conns :
         \/ Create(k) \/ Reroute(k) \/ Drop(k)
         \/ \E s \in Sides :
               \/ \E b \in Bytes : Say(k, s, b)
               \/ TouchOnly(k, s)
               \/ \E n \in 1 .. Len(wire[k][s]) : Read(k, s, n)
               \/ \E n \in 1 .. Len(buf[k][s]) : Write(k, s, n)
    BY <1>1 DEF RelayNext
  <2>1. CASE Create(k) \/ Drop(k)
    BY <2>1, Untouched DEF Create, Drop
  <2>2. CASE \E s \in Sides : TouchOnly(k, s)
    BY <2>2, Untouched DEF TouchOnly
  <2> QED
    BY <2>1, <2>2, SayStep, ReadStep, WriteStep, RerouteStep
<1>2. CASE UNCHANGED relayVars
  BY <1>2, Untouched DEF relayVars
<1> QED
  BY <1>1, <1>2

LEMMA InitStream ==
    ASSUME RelayInit, NEW k \in Conns, NEW s \in Sides
    PROVE  S(k, s)!Init
<1>1. said[k][s] = <<>> /\ wire[k][s] = <<>> /\ buf[k][s] = <<>> /\ got[k][s] = <<>>
  BY DEF RelayInit, Empty
<1>2. /\ Len(said[k][s]) = 0 /\ Len(wire[k][s]) = 0
      /\ Len(buf[k][s]) = 0 /\ Len(got[k][s]) = 0
  BY <1>1, EmptySeq
<1>3. Lost(k, s) = 0 - 0 - 0 - 0
  BY <1>2 DEF Lost
<1> QED
  BY <1>1, <1>3 DEF S!Init

\* However reads and writes are split and whatever fails over or is closed, each
\* side gets what the other one said in order, once and without gaps, except for a
\* beginning that was lost before it got anything.
THEOREM RelayImplementsStreams == RelaySpec => Streams
<1> DEFINE Step == \A k \in Conns, s \in Sides : StreamStep(k, s)
<1>1. RelayInit => \A k \in Conns, s \in Sides : S(k, s)!Init
  BY InitStream
<1>2. IInv /\ [RelayNext]_relayVars => [Step]_relayVars
  BY RelayNextSteps
<1>3. Step <=> \A k \in Conns, s \in Sides : [S(k, s)!Next]_(S(k, s)!vars)
  BY DEF StreamStep
<1> QED
  BY <1>1, <1>2, <1>3, RelayInvariance, PTL DEF RelaySpec, Streams, StreamStep
=============================================================================
