---------------------------- MODULE SetupProofs -----------------------------
(***************************************************************************)
(* What holds of Setup for every file, every width of a word of an address *)
(* and all sizes of buffers: sections are read as they are written, the    *)
(* objects of the proxy are those the file means, ranges are matched by    *)
(* their first bits, and buffers fit and settle.                           *)
(***************************************************************************)
EXTENDS Setup, TLAPS, SequenceTheorems, FiniteSetTheorems, FunctionTheorems,
        WellFoundedInduction

-----------------------------------------------------------------------------
(* Folds over sequences, step by step. *)

\* A set of numbers that has a member has a least one.
LEMMA LeastMember ==
    ASSUME NEW B \in SUBSET Nat, B # {}
    PROVE  \E n \in B : \A m \in Nat : m < n => m \notin B
<1>1. PICK n \in B : \A m \in B : ~ (<<m, n>> \in OpToRel(<, Nat))
  BY NatLessThanWellFounded, WFMin
<1> QED
  BY <1>1 DEF OpToRel

\* The greatest of some numbers is what Max chooses.
LEMMA MaxIs ==
    ASSUME NEW S \in SUBSET Int, NEW m \in S, \A x \in S : x <= m
    PROVE  Max(S) = m
<1>1. \A y \in S : (\A x \in S : y >= x) => y = m
  <2> SUFFICES ASSUME NEW y \in S, \A x \in S : y >= x
               PROVE  y = m
    OBVIOUS
  <2>1. y >= m /\ y <= m /\ y \in Int /\ m \in Int
    OBVIOUS
  <2> QED
    BY <2>1
<1>2. \A x \in S : m >= x
  <2> SUFFICES ASSUME NEW x \in S
               PROVE  m >= x
    OBVIOUS
  <2>1. x <= m /\ x \in Int /\ m \in Int
    OBVIOUS
  <2> QED
    BY <2>1
<1> QED
  BY <1>1, <1>2, Zenon DEF Max

\* An interval of numbers without the last one.
LEMMA Segment ==
    ASSUME NEW n \in Nat, n # 0
    PROVE  n - 1 \in Nat /\ n \in 1 .. n /\ (1 .. n) \ {n} = 1 .. n - 1 /\ Max(1 .. n) = n
<1>1. n - 1 \in Nat /\ n \in 1 .. n /\ (1 .. n) \ {n} = 1 .. n - 1
  OBVIOUS
<1>2. \A x \in 1 .. n : x <= n
  OBVIOUS
<1>3. 1 .. n \in SUBSET Int
  OBVIOUS
<1> QED
  BY <1>1, <1>2, <1>3, MaxIs

Start == [sects |-> <<>>, cur |-> <<>>]

\* The recursive function of a fold over lines.
ReadFun(g, class, q, n) ==
    g = [s \in SUBSET (1 .. n) |->
            IF s = {} THEN Start ELSE ReadLine(class, g[s \ {Max(s)}], q[Max(s)])]

\* The fold that reads lines is defined for files of every length.
LEMMA ReadExists ==
    ASSUME NEW class, NEW q
    PROVE  \A n \in Nat : \E g : ReadFun(g, class, q, n)
<1> DEFINE B == {n \in Nat : ~ \E g : ReadFun(g, class, q, n)}
<1> SUFFICES ASSUME B # {} PROVE FALSE
  OBVIOUS
<1>1. PICK n \in B : \A m \in Nat : m < n => m \notin B
  <2>1. B \in SUBSET Nat
    OBVIOUS
  <2> HIDE DEF B
  <2> QED
    BY <2>1, LeastMember
<1>2. CASE n = 0
  <2> DEFINE g == [s \in SUBSET (1 .. 0) |-> Start]
  <2>1. \A s \in SUBSET (1 .. 0) : s = {}
    OBVIOUS
  <2>2. ReadFun(g, class, q, 0)
    BY <2>1 DEF ReadFun
  <2> QED
    BY <1>2, <2>2
<1>3. CASE n # 0
  <2>1. /\ n \in Nat /\ n - 1 \in Nat /\ n - 1 < n /\ n \in 1 .. n
        /\ (1 .. n) \ {n} = 1 .. n - 1
    BY <1>3
  <2>2. PICK g : ReadFun(g, class, q, n - 1)
    BY <1>1, <2>1
  <2> DEFINE D == SUBSET (1 .. n)
             C == SUBSET (1 .. n - 1)
             h == [s \in D |-> IF s \in C THEN g[s]
                               ELSE ReadLine(class, g[s \ {n}], q[n])]
  <2>3. ASSUME NEW s \in D
        PROVE  h[s] = IF s = {} THEN Start ELSE ReadLine(class, h[s \ {Max(s)}], q[Max(s)])
    <3>1. CASE s \in C
      <4>1. h[s] = g[s] /\ s \ {Max(s)} \in C /\ s \ {Max(s)} \in D
        BY <2>1, <3>1
      <4>2. h[s \ {Max(s)}] = g[s \ {Max(s)}]
        BY <4>1
      <4>3. g[s] = IF s = {} THEN Start ELSE ReadLine(class, g[s \ {Max(s)}], q[Max(s)])
        BY <2>2, <3>1, Zenon DEF ReadFun
      <4> HIDE DEF h
      <4> QED
        BY <4>1, <4>2, <4>3, Zenon
    <3>2. CASE s \notin C
      <4>1. n \in s /\ s \in SUBSET Int /\ s # {}
        BY <2>1, <3>2
      <4>2. Max(s) = n
        <5>1. \A x \in s : x <= n
          BY <2>1
        <5> QED
          BY <4>1, <5>1, MaxIs
      <4>3. s \ {n} \in C /\ s \ {n} \in D
        BY <2>1
      <4>4. h[s \ {n}] = g[s \ {n}]
        BY <4>3
      <4>5. h[s] = ReadLine(class, g[s \ {n}], q[n])
        BY <3>2
      <4> HIDE DEF h
      <4> QED
        BY <4>1, <4>2, <4>4, <4>5, Zenon
    <3> QED
      BY <3>1, <3>2
  <2>4. h = [s \in D |-> h[s]]
    BY Zenon
  <2> HIDE DEF h
  <2>5. ReadFun(h, class, q, n)
    BY <2>3, <2>4, Zenon DEF ReadFun
  <2> QED
    BY <2>5
<1> QED
  BY <1>2, <1>3

\* The state of the reader after each line.
LEMMA LoadSteps ==
    ASSUME NEW f, NEW class, Len(Lines(f)) \in Nat, DOMAIN Lines(f) = 1 .. Len(Lines(f))
    PROVE  \E st : /\ st[0] = Start
                   /\ \A n \in 1 .. Len(Lines(f)) :
                         st[n] = ReadLine(class, st[n - 1], Lines(f)[n])
                   /\ LoadFromFile(f, class) = Flush(st[Len(Lines(f))])
<1> DEFINE q == Lines(f)
           N == Len(Lines(f))
           F == CHOOSE g : ReadFun(g, class, q, N)
           st == [n \in 0 .. N |-> F[1 .. n]]
<1>1. ReadFun(F, class, q, N)
  <2>1. \E g : ReadFun(g, class, q, N)
    BY ReadExists
  <2> QED
    BY <2>1, Zenon
<1>2. LoadFromFile(f, class) = Flush(F[1 .. N])
  <2>1. LoadFromFile(f, class) =
          Flush((CHOOSE g : g = [s \in SUBSET DOMAIN q |->
                   IF s = {} THEN [sects |-> <<>>, cur |-> <<>>]
                   ELSE ReadLine(class, g[s \ {Max(s)}], q[Max(s)])])[DOMAIN q])
    BY Zenon DEF LoadFromFile, FoldLeft, MapThenFoldSet
  <2>2. DOMAIN q = 1 .. N
    OBVIOUS
  <2> HIDE DEF q, N
  <2> QED
    BY <2>1, <2>2, Zenon DEF ReadFun, Start
<1> HIDE DEF F
<1>3. st[0] = Start
  <2>1. F[{}] = Start
    BY <1>1, Zenon DEF ReadFun
  <2>2. 1 .. 0 = {}
    OBVIOUS
  <2> QED
    BY <2>1, <2>2
<1>4. ASSUME NEW n \in 1 .. N
      PROVE  st[n] = ReadLine(class, st[n - 1], q[n])
  <2>1. n \in Nat /\ n # 0 /\ n \in 0 .. N /\ n - 1 \in 0 .. N /\ 1 .. n \in SUBSET (1 .. N)
    OBVIOUS
  <2>2. n \in 1 .. n /\ (1 .. n) \ {n} = 1 .. n - 1 /\ Max(1 .. n) = n
    BY <2>1, Segment
  <2>3. 1 .. n # {}
    BY <2>2
  <2>4. F[1 .. n] = ReadLine(class, F[(1 .. n) \ {Max(1 .. n)}], q[Max(1 .. n)])
    BY <1>1, <2>1, <2>3, Zenon DEF ReadFun
  <2> QED
    BY <2>1, <2>2, <2>4
<1>5. st[N] = F[1 .. N]
  OBVIOUS
<1> HIDE DEF st
<1> QED
  BY <1>2, <1>3, <1>4, <1>5

\* The recursive function of a choice among the elements of a sequence.
AmongFun(g, q, S, n) ==
    g = [s \in SUBSET (1 .. n) |->
            IF s = {} THEN <<>>
            ELSE IF q[Max(s)] \in S THEN Append(g[s \ {Max(s)}], q[Max(s)]) ELSE g[s \ {Max(s)}]]
\* The fold that selects elements is defined for sequences of every length.
LEMMA AmongExists ==
    ASSUME NEW q, NEW S
    PROVE  \A n \in Nat : \E g : AmongFun(g, q, S, n)
<1> DEFINE B == {n \in Nat : ~ \E g : AmongFun(g, q, S, n)}
<1> SUFFICES ASSUME B # {} PROVE FALSE
  OBVIOUS
<1>1. PICK n \in B : \A m \in Nat : m < n => m \notin B
  <2>1. B \in SUBSET Nat
    OBVIOUS
  <2> HIDE DEF B
  <2> QED
    BY <2>1, LeastMember
<1>2. CASE n = 0
  <2> DEFINE g == [s \in SUBSET (1 .. 0) |-> <<>>]
  <2>1. \A s \in SUBSET (1 .. 0) : s = {}
    OBVIOUS
  <2>2. AmongFun(g, q, S, 0)
    BY <2>1 DEF AmongFun
  <2> QED
    BY <1>2, <2>2
<1>3. CASE n # 0
  <2>1. /\ n \in Nat /\ n - 1 \in Nat /\ n - 1 < n /\ n \in 1 .. n
        /\ (1 .. n) \ {n} = 1 .. n - 1
    BY <1>3
  <2>2. PICK g : AmongFun(g, q, S, n - 1)
    BY <1>1, <2>1
  <2> DEFINE D == SUBSET (1 .. n)
             C == SUBSET (1 .. n - 1)
             h == [s \in D |-> IF s \in C THEN g[s]
                               ELSE IF q[n] \in S THEN Append(g[s \ {n}], q[n]) ELSE g[s \ {n}]]
  <2>3. ASSUME NEW s \in D
        PROVE  h[s] = IF s = {} THEN <<>>
                      ELSE IF q[Max(s)] \in S THEN Append(h[s \ {Max(s)}], q[Max(s)])
                                               ELSE h[s \ {Max(s)}]
    <3>1. CASE s \in C
      <4>1. h[s] = g[s] /\ s \ {Max(s)} \in C /\ s \ {Max(s)} \in D
        BY <2>1, <3>1
      <4>2. h[s \ {Max(s)}] = g[s \ {Max(s)}]
        BY <4>1
      <4>3. g[s] = IF s = {} THEN <<>>
                     ELSE IF q[Max(s)] \in S THEN Append(g[s \ {Max(s)}], q[Max(s)])
                                              ELSE g[s \ {Max(s)}]
        BY <2>2, <3>1, Zenon DEF AmongFun
      <4> HIDE DEF h
      <4> QED
        BY <4>1, <4>2, <4>3, Zenon
    <3>2. CASE s \notin C
      <4>1. n \in s /\ s \in SUBSET Int /\ s # {}
        BY <2>1, <3>2
      <4>2. Max(s) = n
        <5>1. \A x \in s : x <= n
          BY <2>1
        <5> QED
          BY <4>1, <5>1, MaxIs
      <4>3. s \ {n} \in C /\ s \ {n} \in D
        BY <2>1
      <4>4. h[s \ {n}] = g[s \ {n}]
        BY <4>3
      <4>5. h[s] = IF q[n] \in S THEN Append(g[s \ {n}], q[n]) ELSE g[s \ {n}]
        BY <3>2
      <4> HIDE DEF h
      <4> QED
        BY <4>1, <4>2, <4>4, <4>5, Zenon
    <3> QED
      BY <3>1, <3>2
  <2>4. h = [s \in D |-> h[s]]
    BY Zenon
  <2> HIDE DEF h
  <2>5. AmongFun(h, q, S, n)
    BY <2>3, <2>4, Zenon DEF AmongFun
  <2> QED
    BY <2>5
<1> QED
  BY <1>2, <1>3

\* What was chosen after each element.
LEMMA AmongSteps ==
    ASSUME NEW q, NEW S, Len(q) \in Nat, DOMAIN q = 1 .. Len(q)
    PROVE  \E p : /\ p[0] = <<>>
                  /\ \A n \in 1 .. Len(q) :
                        p[n] = IF q[n] \in S THEN Append(p[n - 1], q[n]) ELSE p[n - 1]
                  /\ Among(q, S) = p[Len(q)]
<1> DEFINE N == Len(q)
           F == CHOOSE g : AmongFun(g, q, S, N)
           p == [n \in 0 .. N |-> F[1 .. n]]
<1>1. AmongFun(F, q, S, N)
  <2>1. \E g : AmongFun(g, q, S, N)
    BY AmongExists
  <2> QED
    BY <2>1, Zenon
<1>2. Among(q, S) = F[1 .. N]
  <2>1. Among(q, S) =
          (CHOOSE g : g = [s \in SUBSET DOMAIN q |->
              IF s = {} THEN <<>>
              ELSE IF q[Max(s)] \in S THEN Append(g[s \ {Max(s)}], q[Max(s)])
                                      ELSE g[s \ {Max(s)}]])[DOMAIN q]
    BY Zenon DEF Among, FoldLeft, MapThenFoldSet
  <2>2. DOMAIN q = 1 .. N
    OBVIOUS
  <2> HIDE DEF N
  <2> QED
    BY <2>1, <2>2, Zenon DEF AmongFun
<1> HIDE DEF F
<1>3. p[0] = <<>>
  <2>1. F[{}] = <<>>
    BY <1>1, Zenon DEF AmongFun
  <2>2. 1 .. 0 = {}
    OBVIOUS
  <2> QED
    BY <2>1, <2>2
<1>4. ASSUME NEW n \in 1 .. N
      PROVE  p[n] = IF q[n] \in S THEN Append(p[n - 1], q[n]) ELSE p[n - 1]
  <2>1. n \in Nat /\ n # 0 /\ n \in 0 .. N /\ n - 1 \in 0 .. N /\ 1 .. n \in SUBSET (1 .. N)
    OBVIOUS
  <2>2. n \in 1 .. n /\ (1 .. n) \ {n} = 1 .. n - 1 /\ Max(1 .. n) = n
    BY <2>1, Segment
  <2>3. 1 .. n # {}
    BY <2>2
  <2> DEFINE s == 1 .. n
  <2>4. F[s] = IF q[Max(s)] \in S THEN Append(F[s \ {Max(s)}], q[Max(s)]) ELSE F[s \ {Max(s)}]
    BY <1>1, <2>1, <2>3, Zenon DEF AmongFun
  <2>5. p[n] = F[1 .. n] /\ p[n - 1] = F[1 .. n - 1]
    BY <2>1
  <2> HIDE DEF p
  <2> QED
    BY <2>2, <2>4, <2>5, Zenon
<1>5. p[N] = F[1 .. N]
  OBVIOUS
<1> HIDE DEF p
<1> QED
  BY <1>2, <1>3, <1>4, <1>5

\* Among takes exactly the elements in S.
LEMMA AmongElements ==
    ASSUME NEW V, NEW q \in Seq(V), NEW S
    PROVE  Among(q, S) \in Seq(V) /\ ToSet(Among(q, S)) = ToSet(q) \cap S
<1>1. Len(q) \in Nat /\ DOMAIN q = 1 .. Len(q) /\ \A n \in 1 .. Len(q) : q[n] \in V
  BY ElementOfSeq
<1>2. PICK p : /\ p[0] = <<>>
               /\ \A n \in 1 .. Len(q) :
                     p[n] = IF q[n] \in S THEN Append(p[n - 1], q[n]) ELSE p[n - 1]
               /\ Among(q, S) = p[Len(q)]
  BY <1>1, AmongSteps
<1> DEFINE Good(n) == p[n] \in Seq(V) /\ ToSet(p[n]) = {q[j] : j \in 1 .. n} \cap S
           B == {n \in 0 .. Len(q) : ~ Good(n)}
<1>3. B = {}
  <2> SUFFICES ASSUME B # {} PROVE FALSE
    OBVIOUS
  <2>1. PICK n \in B : \A m \in Nat : m < n => m \notin B
    <3>1. B \in SUBSET Nat
      OBVIOUS
    <3> HIDE DEF B
    <3> QED
      BY <3>1, LeastMember
  <2>2. CASE n = 0
    <3>1. p[0] \in Seq(V) /\ DOMAIN p[0] = {}
      BY <1>2, EmptySeq
    <3>2. ToSet(p[0]) = {} /\ {q[j] : j \in 1 .. 0} = {}
      BY <3>1 DEF ToSet
    <3> QED
      BY <2>1, <2>2, <3>1, <3>2
  <2>3. CASE n # 0
    <3>1. n \in 1 .. Len(q) /\ n - 1 \in 0 .. Len(q) /\ n - 1 < n /\ n - 1 \in Nat
      BY <1>1, <2>3
    <3>2. Good(n - 1)
      BY <2>1, <3>1
    <3>3. p[n] = IF q[n] \in S THEN Append(p[n - 1], q[n]) ELSE p[n - 1]
      BY <1>2, <3>1
    <3>4. {q[j] : j \in 1 .. n} = {q[j] : j \in 1 .. n - 1} \cup {q[n]}
      <4>1. 1 .. n = (1 .. n - 1) \cup {n}
        BY <3>1
      <4> QED
        BY <4>1
    <3>5. q[n] \in V
      BY <1>1, <3>1
    <3> DEFINE r == p[n - 1]
    <3>6. r \in Seq(V) /\ ToSet(r) = {q[j] : j \in 1 .. n - 1} \cap S
      BY <3>2
    <3> HIDE DEF r
    <3>7. Append(r, q[n]) \in Seq(V) /\ ToSet(Append(r, q[n])) = ToSet(r) \cup {q[n]}
      <4>1. /\ Append(r, q[n]) \in Seq(V) /\ Len(Append(r, q[n])) = Len(r) + 1
            /\ \A j \in 1 .. Len(r) : Append(r, q[n])[j] = r[j]
            /\ Append(r, q[n])[Len(r) + 1] = q[n]
        BY <3>5, <3>6, AppendProperties
      <4>2. Len(r) \in Nat /\ DOMAIN r = 1 .. Len(r)
            /\ DOMAIN Append(r, q[n]) = (1 .. Len(r)) \cup {Len(r) + 1}
        BY <3>6, <4>1
      <4> QED
        BY <4>1, <4>2 DEF ToSet
    <3>8. Good(n)
      <4>1. CASE q[n] \in S
        <5>1. p[n] = Append(r, q[n])
          BY <3>3, <4>1 DEF r
        <5> QED
          BY <3>4, <3>6, <3>7, <4>1, <5>1
      <4>2. CASE q[n] \notin S
        <5>1. p[n] = r
          BY <3>3, <4>2 DEF r
        <5> QED
          BY <3>4, <3>6, <4>2, <5>1
      <4> QED
        BY <4>1, <4>2
    <3> QED
      BY <2>1, <3>8
  <2> QED
    BY <2>2, <2>3
<1>4. Good(Len(q))
  <2>1. Len(q) \in 0 .. Len(q)
    BY <1>1
  <2> HIDE DEF Good
  <2> QED
    BY <2>1, <1>3
<1>5. ToSet(q) = {q[j] : j \in 1 .. Len(q)}
  BY <1>1 DEF ToSet
<1> QED
  BY <1>2, <1>4, <1>5

-----------------------------------------------------------------------------
(* Division. *)

\* Division with a remainder.
LEMMA Quotient ==
    ASSUME NEW x \in Nat, NEW m \in Nat, m # 0
    PROVE  /\ x \div m \in Nat
           /\ (x \div m) * m <= x
           /\ x < (x \div m) * m + m
OBVIOUS

\* The quotient is the only number with its bounds.
LEMMA QuotientIs ==
    ASSUME NEW x \in Nat, NEW m \in Nat, m # 0, NEW k \in Nat, k * m <= x, x < k * m + m
    PROVE  x \div m = k
<1> DEFINE q == x \div m
<1>1. q \in Nat /\ q * m <= x /\ x < q * m + m
  BY Quotient
<1> HIDE DEF q
<1>2. CASE q < k
  <2>1. k - q - 1 \in Nat /\ (k - q - 1) * m \in Nat
    BY <1>1, <1>2
  <2>2. (k - q - 1) * m = k * m - q * m - m
    BY <1>1
  <2>3. q * m \in Int /\ k * m \in Int
    BY <1>1
  <2> QED
    BY <1>1, <2>1, <2>2, <2>3
<1>3. CASE q > k
  <2>1. q - k - 1 \in Nat /\ (q - k - 1) * m \in Nat
    BY <1>1, <1>3
  <2>2. (q - k - 1) * m = q * m - k * m - m
    BY <1>1
  <2>3. q * m \in Int /\ k * m \in Int
    BY <1>1
  <2> QED
    BY <1>1, <2>1, <2>2, <2>3
<1> QED
  BY <1>1, <1>2, <1>3 DEF q

\* Halving undoes doubling.
LEMMA Halves ==
    ASSUME NEW x \in Nat
    PROVE  Half(x) \in Nat /\ 2 * Half(x) <= x /\ Half(2 * x) = x
BY DEF Half

-----------------------------------------------------------------------------
(* Sizes of buffers. *)

\* Aligning never enlarges a size.
LEMMA AlignedType ==
    ASSUME NEW m \in Nat \ {0}, NEW h \in Nat, NEW limit \in Nat
    PROVE  CalcBufferSize(m, h, limit) \in Nat /\ CalcBufferSize(m, h, limit) <= h
<1> DEFINE v == Lesser(h, limit)
           a == (v \div m) * m
<1>1. v \in Nat /\ v <= h
  BY DEF Lesser
<1>2. v \div m \in Nat /\ a \in Nat /\ a <= v
  BY <1>1, Quotient
<1>3. Lesser(h, 6 * m) \in Nat /\ Lesser(h, 6 * m) <= h
  BY DEF Lesser
<1>4. \/ CalcBufferSize(m, h, limit) = h
      \/ CalcBufferSize(m, h, limit) = Lesser(h, 6 * m)
      \/ CalcBufferSize(m, h, limit) = a
  BY Zenon DEF CalcBufferSize
<1> HIDE DEF a, v
<1> QED
  BY <1>1, <1>2, <1>3, <1>4

\* What is too odd to be aligned.
Odd(m, h) == m < STANDARD_MSS \div 3 \/ h < STANDARD_BSS \div 3 \/ h \div m < 4

\* Aligning, case by case.
LEMMA AlignedIs ==
    ASSUME NEW m \in Nat \ {0}, NEW h \in Nat, NEW limit \in Nat
    PROVE  LET c == CalcBufferSize(m, h, limit)
               a == (Lesser(h, limit) \div m) * m
           IN /\ Odd(m, h) => c = h
              /\ ~ Odd(m, h) /\ a < 6 * m => c = Lesser(h, 6 * m)
              /\ ~ Odd(m, h) /\ ~ a < 6 * m => c = a
BY Zenon DEF CalcBufferSize, Odd

\* A size that was aligned is left alone.
LEMMA AlignedTwice ==
    ASSUME NEW m \in Nat \ {0}, NEW h \in Nat, NEW limit \in Nat
    PROVE  LET c == CalcBufferSize(m, h, limit) IN CalcBufferSize(m, c, limit) = c
<1> DEFINE c == CalcBufferSize(m, h, limit)
           v == Lesser(h, limit)
           k == v \div m
           a == k * m
<1>0. m \in Nat /\ m # 0 /\ 6 * m \in Nat /\ v \in Nat /\ v <= h /\ v <= limit
  BY DEF Lesser
<1>1. k \in Nat /\ a \in Nat /\ a <= v /\ v < a + m
  <2> HIDE DEF v
  <2>1. k \in Nat /\ k * m <= v /\ v < k * m + m
    BY <1>0, Quotient
  <2> HIDE DEF k
  <2> QED
    BY <1>0, <2>1
<1>2. CASE c = h
  BY <1>2
<1>3. CASE Odd(m, c)
  <2>1. c \in Nat
    BY AlignedType
  <2> QED
    BY <1>3, <2>1, AlignedIs
<1>4. CASE c # h /\ ~ Odd(m, c) /\ a < 6 * m
  <2>1. c = 6 * m
    <3>1. c = Lesser(h, 6 * m)
      BY <1>4, AlignedIs
    <3> QED
      BY <1>4, <3>1 DEF Lesser
  <2>2. CalcBufferSize(m, 6 * m, limit) = 6 * m
    <3> DEFINE w == Lesser(6 * m, limit)
               b == (w \div m) * m
    <3>1. w \in Nat /\ w <= 6 * m
      BY <1>0 DEF Lesser
    <3>2. b \in Nat /\ b <= w
      BY <1>0, <3>1, Quotient
    <3>3. Lesser(6 * m, 6 * m) = 6 * m
      BY DEF Lesser
    <3>4. /\ ~ Odd(m, 6 * m) /\ b < 6 * m => CalcBufferSize(m, 6 * m, limit) = Lesser(6 * m, 6 * m)
          /\ ~ Odd(m, 6 * m) /\ ~ b < 6 * m => CalcBufferSize(m, 6 * m, limit) = b
      BY <1>0, AlignedIs
    <3> HIDE DEF w, b
    <3> QED
      BY <1>0, <1>4, <2>1, <3>1, <3>2, <3>3, <3>4
  <2> QED
    BY <2>1, <2>2
<1>5. CASE c # h /\ ~ Odd(m, c) /\ ~ a < 6 * m
  <2>1. c = a
    BY <1>5, AlignedIs
  <2>2. Lesser(a, limit) = a
    BY <1>0, <1>1 DEF Lesser
  <2>3. a \div m = k
    <3> HIDE DEF k
    <3>1. k * m <= a /\ a < k * m + m
      BY <1>0, <1>1
    <3> QED
      BY <1>0, <1>1, <3>1, QuotientIs
  <2>4. ~ Odd(m, a) /\ ~ (Lesser(a, limit) \div m) * m < 6 * m
           => CalcBufferSize(m, a, limit) = (Lesser(a, limit) \div m) * m
    BY <1>1, AlignedIs
  <2>5. ~ Odd(m, a)
    BY <1>5, <2>1
  <2>6. (Lesser(a, limit) \div m) * m = a
    BY <2>2, <2>3
  <2>7. CalcBufferSize(m, a, limit) = a
    BY <1>5, <2>4, <2>5, <2>6, Zenon
  <2> QED
    BY <2>1, <2>7, Zenon
<1> QED
  BY <1>2, <1>3, <1>4, <1>5

\* More of a size is no odder.
LEMMA OddMore ==
    ASSUME NEW m \in Nat \ {0}, NEW h \in Nat, NEW top \in Nat, top < h, ~ Odd(m, top)
    PROVE  ~ Odd(m, h)
<1> DEFINE q == h \div m
           r == top \div m
<1>1. /\ m \in Nat /\ m # 0
      /\ q \in Nat /\ q * m <= h /\ h < q * m + m
      /\ r \in Nat /\ r * m <= top /\ top < r * m + m
  BY Quotient
<1>2. q >= r
  <2> HIDE DEF q, r
  <2>1. CASE q < r
    <3>1. r - q - 1 \in Nat /\ (r - q - 1) * m \in Nat
      BY <1>1, <2>1
    <3>2. (r - q - 1) * m = r * m - q * m - m
      BY <1>1
    <3>3. q * m \in Int /\ r * m \in Int
      BY <1>1
    <3> QED
      BY <1>1, <3>1, <3>2, <3>3
  <2> QED
    BY <1>1, <2>1
<1>3. STANDARD_BSS \div 3 \in Nat
  BY DEF STANDARD_BSS, STANDARD_MSS
<1>4. ~ m < STANDARD_MSS \div 3 /\ ~ top < STANDARD_BSS \div 3 /\ ~ r < 4
  BY Zenon DEF Odd
<1>5. ~ h < STANDARD_BSS \div 3 /\ ~ q < 4
  <2> HIDE DEF q, r
  <2> QED
    BY <1>1, <1>2, <1>3, <1>4
<1> QED
  BY <1>4, <1>5, Zenon DEF Odd

\* A size the system cut loses less than a segment.
LEMMA AlignedCut ==
    ASSUME NEW m \in Nat \ {0}, NEW h \in Nat, NEW limit \in Nat, NEW top \in Nat,
           CalcBufferSize(m, h, limit) > top
    PROVE  CalcBufferSize(m, top, limit) > top - m
<1> DEFINE c == CalcBufferSize(m, h, limit)
           v == Lesser(h, limit)
           a == (v \div m) * m
           w == Lesser(top, limit)
           b == (w \div m) * m
           d == CalcBufferSize(m, top, limit)
<1>0. m \in Nat /\ m # 0 /\ 6 * m \in Nat /\ v \in Nat /\ v <= h /\ v <= limit
  BY DEF Lesser
<1>1. w \in Nat /\ w <= top
  BY DEF Lesser
<1>2. a \in Nat /\ a <= v /\ v < a + m /\ b \in Nat /\ b <= w /\ w < b + m
  <2> HIDE DEF v, w
  <2>1. /\ v \div m \in Nat /\ (v \div m) * m <= v /\ v < (v \div m) * m + m
        /\ w \div m \in Nat /\ (w \div m) * m <= w /\ w < (w \div m) * m + m
    BY <1>0, <1>1, Quotient
  <2> DEFINE i == v \div m
             j == w \div m
  <2>2. /\ i \in Nat /\ i * m <= v /\ v < i * m + m
        /\ j \in Nat /\ j * m <= w /\ w < j * m + m
        /\ a = i * m /\ b = j * m
    BY <2>1
  <2> HIDE DEF i, j
  <2>3. i * m \in Nat /\ j * m \in Nat
    BY <1>0, <2>2
  <2> QED
    BY <2>2, <2>3
<1>3. c \in Nat /\ c <= h /\ top < h
  BY AlignedType
<1>4. CASE Odd(m, top)
  <2>1. d = top
    BY <1>4, AlignedIs
  <2> HIDE DEF d
  <2>2. d > top - m
    BY <1>0, <2>1
  <2> QED
    BY <2>2 DEF d
<1>5. CASE ~ Odd(m, top) /\ b < 6 * m
  <2>1. d = Lesser(top, 6 * m)
    BY <1>5, AlignedIs
  <2>2. ~ Odd(m, h)
    BY <1>3, <1>5, OddMore
  <2>3. CASE top <= 6 * m
    BY <1>0, <2>1, <2>3 DEF Lesser
  <2>4. CASE top > 6 * m
    <3>1. d = 6 * m
      BY <1>0, <2>1, <2>4 DEF Lesser
    <3>2. ~ a < 6 * m
      <4>1. a < 6 * m => c = Lesser(h, 6 * m)
        BY <2>2, AlignedIs
      <4>2. Lesser(h, 6 * m) <= 6 * m
        BY <1>0 DEF Lesser
      <4> HIDE DEF c, a
      <4>3. c > top
        BY DEF c
      <4> QED
        BY <1>0, <1>2, <1>3, <2>4, <4>1, <4>2, <4>3
    <3>3. c = a
      BY <2>2, <3>2, AlignedIs
    <3>4. w = top
      <4>1. top < limit
        <5> HIDE DEF c, a, v
        <5>1. c > top
          BY DEF c
        <5> QED
          BY <1>0, <1>2, <3>3, <5>1
      <4> QED
        BY <4>1 DEF Lesser
    <3> HIDE DEF b, w, d
    <3>5. d > top - m
      BY <1>0, <1>1, <1>2, <1>5, <3>1, <3>4
    <3> QED
      BY <3>5 DEF d
  <2> QED
    BY <1>0, <2>3, <2>4
<1>6. CASE ~ Odd(m, top) /\ ~ b < 6 * m
  <2>1. d = b
    BY <1>6, AlignedIs
  <2>2. CASE limit < top
    <3>1. ~ Odd(m, h)
      BY <1>3, <1>6, OddMore
    <3>2. v = limit /\ w = limit
      BY <1>3, <2>2 DEF Lesser
    <3>3. a = b
      BY <3>2
    <3>4. c = a
      BY <1>6, <3>1, <3>3, AlignedIs
    <3> HIDE DEF c, a, v
    <3>5. c > top
      BY DEF c
    <3> QED
      BY <1>0, <1>2, <2>2, <3>4, <3>5
  <2>3. CASE ~ limit < top
    <3>1. w = top
      BY <2>3 DEF Lesser
    <3> HIDE DEF b, w, d
    <3>2. d > top - m
      BY <1>0, <1>1, <1>2, <2>1, <3>1
    <3> QED
      BY <3>2 DEF d
  <2> QED
    BY <2>2, <2>3
<1> QED
  BY <1>4, <1>5, <1>6


\* The size a socket has once it was adjusted, of some size before.
Settled(y, m, align, limit) ==
    \E x \in Nat : y = Store(IF align THEN CalcBufferSize(m, Half(x), limit) ELSE limit)

\* What the system makes of a size.
LEMMA StoreType ==
    ASSUME NEW v \in Nat
    PROVE  Store(v) \in Nat
<1>1. SysMin \in Nat /\ SysMax \in Nat
  BY BuffersAssumption
<1> QED
  BY <1>1 DEF Store, Greater, Lesser

\* Adjusting gives a size that settled.
LEMMA AdjustedIsSettled ==
    ASSUME NEW x \in Nat, NEW m \in Nat \ {0}, NEW limit \in Nat, NEW align
    PROVE  LET y == Store(IF align THEN CalcBufferSize(m, Half(x), limit) ELSE limit)
           IN y \in Nat /\ Settled(y, m, align, limit)
<1>1. Half(x) \in Nat
  BY Halves
<1>2. CalcBufferSize(m, Half(x), limit) \in Nat
  BY <1>1, AlignedType
<1>3. (IF align THEN CalcBufferSize(m, Half(x), limit) ELSE limit) \in Nat
  BY <1>2
<1> QED
  BY <1>3, StoreType DEF Settled

\* Adjusting what was adjusted.
LEMMA SettledTwice ==
    ASSUME NEW m \in Nat \ {0}, NEW limit \in Nat, NEW align, NEW y, Settled(y, m, align, limit)
    PROVE  LET z == Store(IF align THEN CalcBufferSize(m, Half(y), limit) ELSE limit)
           IN z = y \/ (y = 2 * SysMax /\ z <= y /\ z > y - 2 * m)
<1> DEFINE z == Store(IF align THEN CalcBufferSize(m, Half(y), limit) ELSE limit)
<1>1. PICK x \in Nat : y = Store(IF align THEN CalcBufferSize(m, Half(x), limit) ELSE limit)
  BY Zenon DEF Settled
<1>2. CASE ~ align
  BY <1>1, <1>2, Zenon
<1>3. CASE align
  <2> DEFINE h == Half(x)
             c == CalcBufferSize(m, h, limit)
             e == CalcBufferSize(m, Half(y), limit)
  <2>1. h \in Nat /\ SysMin \in Nat /\ SysMax \in Nat
    BY Halves, BuffersAssumption
  <2>2. c \in Nat
    BY <2>1, AlignedType
  <2>3. y = Store(c) /\ z = Store(e)
    BY <1>1, <1>3, Zenon
  <2>4. y \in Nat
    BY <2>2, <2>3, StoreType
  <2>5. CASE 2 * Lesser(c, SysMax) <= SysMin
    <3>1. y = SysMin
      BY <2>1, <2>2, <2>3, <2>5 DEF Store, Greater, Lesser
    <3>2. Half(y) \in Nat /\ 2 * Half(y) <= y
      BY <2>4, Halves
    <3>3. e \in Nat /\ e <= Half(y)
      BY <3>2, AlignedType
    <3> HIDE DEF e, z
    <3>4. Store(e) = SysMin
      BY <2>1, <3>1, <3>2, <3>3 DEF Store, Greater, Lesser
    <3>5. z = y
      BY <2>3, <3>1, <3>4
    <3> QED
      BY <3>5 DEF z
  <2>6. CASE ~ 2 * Lesser(c, SysMax) <= SysMin /\ c <= SysMax
    <3>1. y = 2 * c
      BY <2>1, <2>2, <2>3, <2>6 DEF Store, Greater, Lesser
    <3>2. Half(y) = c
      BY <2>2, <3>1, Halves
    <3>3. e = c
      BY <2>1, <3>2, AlignedTwice
    <3> QED
      BY <2>3, <3>3
  <2>7. CASE ~ 2 * Lesser(c, SysMax) <= SysMin /\ c > SysMax
    <3>1. y = 2 * SysMax
      BY <2>1, <2>2, <2>3, <2>7 DEF Store, Greater, Lesser
    <3>2. Half(y) = SysMax
      BY <2>1, <3>1, Halves
    <3>3. e \in Nat /\ e <= SysMax
      BY <2>1, <3>2, AlignedType
    <3>4. e > SysMax - m
      <4>1. CalcBufferSize(m, SysMax, limit) > SysMax - m
        BY <2>1, <2>7, AlignedCut
      <4> QED
        BY <3>2, <4>1, Zenon
    <3>5. 2 * SysMax > SysMin
      BY <2>1, <2>2, <2>7 DEF Lesser
    <3> HIDE DEF e, z
    <3>6. z = y \/ (z <= y /\ z > y - 2 * m)
      BY <2>1, <2>3, <3>1, <3>3, <3>4, <3>5 DEF Store, Greater, Lesser
    <3> QED
      BY <3>1, <3>6 DEF z
  <2>8. c <= SysMax \/ c > SysMax
    BY <2>1, <2>2
  <2> QED
    BY <2>5, <2>6, <2>7, <2>8, Zenon
<1> QED
  BY <1>2, <1>3

-----------------------------------------------------------------------------
(* The buffers of the channel. *)

\* The limit that a configuration may have, when the source is adjusted.
BufInv(mode, limit) ==
    /\ system \in [Ends -> [Directions -> Nat]]
    /\ mss \in [Ends -> Nat \ {0}]
    /\ set \in [Ends -> BOOLEAN]
    /\ size \in [Ends -> Nat]
    /\ channel \in {"none", "open", "connected"}
    /\ \A s \in Ends : size[s] >= STANDARD_BSS
    /\ channel # "connected" => \A s \in Ends : size[s] = STANDARD_BSS
    /\ channel = "none" => \A s \in Ends : ~ set[s]
    /\ set["source"] =>
          /\ mode > 0
          /\ \A d \in Directions : Settled(system["source"][d], mss["source"], mode = 1, limit)

\* Sizes in Initial are sizes.
LEMMA GivenSizes ==
    ASSUME NEW f \in [Directions -> Initial]
    PROVE  f \in [Directions -> Nat]
<1>1. Initial \subseteq Nat
  BY BuffersAssumption
<1> QED
  BY <1>1

\* Adjusted sizes are sizes, and settled unless the system decides.
LEMMA AdjustType ==
    ASSUME NEW f \in [Directions -> Nat], NEW m \in Nat \ {0}, NEW limit \in Nat, NEW mode \in Nat
    PROVE  /\ Adjust(f, m, mode, limit) \in [Directions -> Nat]
           /\ mode > 0 => \A d \in Directions : Settled(Adjust(f, m, mode, limit)[d], m, mode = 1, limit)
<1>1. CASE mode > 0
  <2> DEFINE g == Adjust(f, m, mode, limit)
  <2>1. g = [d \in Directions |->
               Store(IF mode = 1 THEN CalcBufferSize(m, Half(f[d]), limit) ELSE limit)]
    BY <1>1, Zenon DEF Adjust, Adjusted
  <2>2. ASSUME NEW d \in Directions
        PROVE  g[d] \in Nat /\ Settled(g[d], m, mode = 1, limit)
    <3> DEFINE x == f[d]
    <3>1. x \in Nat
      OBVIOUS
    <3> DEFINE y == Store(IF mode = 1 THEN CalcBufferSize(m, Half(x), limit) ELSE limit)
    <3>2. y \in Nat /\ Settled(y, m, mode = 1, limit)
      <4> HIDE DEF x
      <4> QED
        BY <3>1, AdjustedIsSettled
    <3>3. g[d] = y
      BY <2>1, Zenon
    <3> QED
      BY <3>2, <3>3, Zenon
  <2>3. g \in [Directions -> Nat]
    <3> HIDE DEF g
    <3>1. g = [d \in Directions |-> g[d]]
      BY <2>1, Zenon
    <3> QED
      BY <2>2, <3>1
  <2> QED
    BY <2>2, <2>3, Zenon
<1>2. CASE ~ mode > 0
  BY <1>2 DEF Adjust
<1> QED
  BY <1>1, <1>2

\* A new connection keeps the invariant of buffers.
LEMMA AcceptKeeps ==
    ASSUME NEW mode \in Nat, NEW limit \in Nat, BufInv(mode, limit), AcceptBuffers(mode, limit)
    PROVE  BufInv(mode, limit)'
<1>1. PICK f \in [Directions -> Initial], m \in Segments :
          /\ system' = [system EXCEPT !["source"] = Adjust(f, m, mode, limit), !["target"] = f]
          /\ mss' = [s \in Ends |-> m]
  BY Zenon DEF AcceptBuffers
<1>2. m \in Nat \ {0}
  BY BuffersAssumption
<1>3. f \in [Directions -> Nat]
  BY GivenSizes
<1> DEFINE g == Adjust(f, m, mode, limit)
<1>4. /\ g \in [Directions -> Nat]
      /\ mode > 0 => \A d \in Directions : Settled(g[d], m, mode = 1, limit)
  BY <1>2, <1>3, AdjustType
<1> HIDE DEF g
<1>5. system' \in [Ends -> [Directions -> Nat]] /\ system'["source"] = g
  <2>1. system \in [Ends -> [Directions -> Nat]]
    BY DEF BufInv
  <2>2. system' = [system EXCEPT !["source"] = g, !["target"] = f]
    BY <1>1 DEF g
  <2> QED
    BY <1>3, <1>4, <2>1, <2>2 DEF Ends
<1>6. mss' \in [Ends -> Nat \ {0}] /\ mss'["source"] = m
  BY <1>1, <1>2 DEF Ends
<1>7. set' \in [Ends -> BOOLEAN] /\ set'["source"] = (mode > 0)
  BY DEF AcceptBuffers, BufInv, Ends
<1>8. size' = size /\ channel = "none" /\ channel' = "open"
  BY DEF AcceptBuffers
<1>9. size' \in [Ends -> Nat] /\ (\A s \in Ends : size'[s] >= STANDARD_BSS)
      /\ \A s \in Ends : size'[s] = STANDARD_BSS
  BY <1>8 DEF BufInv
<1>10. set'["source"] => mode > 0 /\ \A d \in Directions :
                             Settled(system'["source"][d], mss'["source"], mode = 1, limit)
  <2> SUFFICES ASSUME set'["source"]
               PROVE  mode > 0 /\ \A d \in Directions :
                             Settled(system'["source"][d], mss'["source"], mode = 1, limit)
    OBVIOUS
  <2>1. mode > 0
    BY <1>7
  <2> QED
    BY <1>4, <1>5, <1>6, <2>1
<1> QED
  BY <1>5, <1>6, <1>7, <1>8, <1>9, <1>10 DEF BufInv, Settled

\* A failover keeps the invariant, and the sizes of the source but for a cut.
LEMMA FailoverKeeps ==
    ASSUME NEW mode \in Nat, NEW limit \in Nat, BufInv(mode, limit), FailoverBuffers(mode, limit)
    PROVE  /\ BufInv(mode, limit)'
           /\ set["source"] => \A d \in Directions :
                 \/ system'["source"][d] = system["source"][d]
                 \/ /\ system["source"][d] = 2 * SysMax
                    /\ system'["source"][d] <= system["source"][d]
                    /\ system'["source"][d] > system["source"][d] - 2 * mss["source"]
<1> DEFINE old == system["source"]
           m == mss["source"]
           g == Adjust(old, m, mode, limit)
<1>1. PICK v \in Initial, k \in Segments :
          /\ system' = [system EXCEPT !["source"] = g, !["target"] = [d \in Directions |-> v]]
          /\ mss' = [mss EXCEPT !["target"] = k]
  BY Zenon DEF FailoverBuffers
<1>2. k \in Nat \ {0} /\ v \in Nat
  BY BuffersAssumption
<1>3. m \in Nat \ {0} /\ old \in [Directions -> Nat]
  BY DEF BufInv, Ends
<1>4. /\ g \in [Directions -> Nat]
      /\ mode > 0 => \A d \in Directions : Settled(g[d], m, mode = 1, limit)
  <2> HIDE DEF old, m
  <2> QED
    BY <1>3, AdjustType
<1>5. system' \in [Ends -> [Directions -> Nat]] /\ system'["source"] = g
  <2>1. system \in [Ends -> [Directions -> Nat]]
    BY DEF BufInv
  <2> HIDE DEF g
  <2> QED
    BY <1>1, <1>2, <1>4, <2>1 DEF Ends
<1>6. mss' \in [Ends -> Nat \ {0}] /\ mss'["source"] = m
  BY <1>1, <1>2 DEF Ends, BufInv
<1>7. set' \in [Ends -> BOOLEAN] /\ set'["source"] = (mode > 0)
  BY DEF FailoverBuffers, BufInv, Ends
<1>8. size' = size /\ channel = "open" /\ channel' = "open"
  BY DEF FailoverBuffers
<1>9. /\ size' \in [Ends -> Nat] /\ (\A s \in Ends : size'[s] >= STANDARD_BSS)
      /\ \A s \in Ends : size'[s] = STANDARD_BSS
  BY <1>8 DEF BufInv
<1>10. set'["source"] => mode > 0 /\ \A d \in Directions :
                             Settled(system'["source"][d], mss'["source"], mode = 1, limit)
  <2> SUFFICES ASSUME set'["source"]
               PROVE  mode > 0 /\ \A d \in Directions :
                             Settled(system'["source"][d], mss'["source"], mode = 1, limit)
    OBVIOUS
  <2>1. mode > 0
    BY <1>7
  <2> HIDE DEF g, m
  <2> QED
    BY <1>4, <1>5, <1>6, <2>1
<1>11. BufInv(mode, limit)'
  BY <1>5, <1>6, <1>7, <1>8, <1>9, <1>10 DEF BufInv, Settled
<1>12. ASSUME set["source"], NEW d \in Directions
       PROVE  \/ g[d] = old[d]
              \/ old[d] = 2 * SysMax /\ g[d] <= old[d] /\ g[d] > old[d] - 2 * m
  <2> DEFINE y == old[d]
             z == Store(IF mode = 1 THEN CalcBufferSize(m, Half(y), limit) ELSE limit)
  <2>1. mode > 0 /\ Settled(y, m, mode = 1, limit)
    BY <1>12, Zenon DEF BufInv
  <2>2. g[d] = z
    BY <2>1, Zenon DEF Adjust, Adjusted
  <2>3. z = y \/ (y = 2 * SysMax /\ z <= y /\ z > y - 2 * m)
    <3> DEFINE al == mode = 1
    <3>1. m \in Nat \ {0} /\ Settled(y, m, al, limit)
      BY <1>3, <2>1, Zenon
    <3> HIDE DEF y, m, al
    <3>2. LET u == Store(IF al THEN CalcBufferSize(m, Half(y), limit) ELSE limit)
          IN u = y \/ (y = 2 * SysMax /\ u <= y /\ u > y - 2 * m)
      BY <3>1, SettledTwice
    <3> QED
      BY <3>2, Zenon DEF al
  <2> QED
    BY <2>2, <2>3, Zenon
<1> QED
  BY <1>5, <1>11, <1>12, Zenon

\* The size that a buffer needs is enough for both sockets.
LEMMA RequiredIs ==
    ASSUME NEW sys \in [Ends -> [Directions -> Nat]], NEW s \in Ends,
           NEW mode \in Nat, NEW limit \in Nat
    PROVE  /\ Required(sys, s, mode, limit) \in Nat
           /\ mode = 1 => /\ Required(sys, s, mode, limit) >= Half(sys[s]["recv"])
                          /\ Required(sys, s, mode, limit) >= Half(sys[Opposite(s)]["send"])
           /\ mode = 2 => Required(sys, s, mode, limit) = limit
<1> DEFINE x == Half(sys[s]["recv"])
           y == Half(sys[Opposite(s)]["send"])
<1>1. x \in Nat /\ y \in Nat
  <2>1. Opposite(s) \in Ends
    BY DEF Opposite, Ends
  <2>2. "recv" \in Directions /\ "send" \in Directions
    BY DEF Directions
  <2>3. sys[s]["recv"] \in Nat /\ sys[Opposite(s)]["send"] \in Nat
    BY <2>1, <2>2
  <2> QED
    BY <2>3, Halves
<1>2. CASE mode = 1
  <2>1. Required(sys, s, mode, limit) = IF Greater(x, y) = 0 THEN limit ELSE Greater(x, y)
    BY <1>2 DEF Required
  <2> HIDE DEF x, y
  <2>2. /\ Required(sys, s, mode, limit) \in Nat
        /\ Required(sys, s, mode, limit) >= x /\ Required(sys, s, mode, limit) >= y
    BY <1>1, <2>1 DEF Greater
  <2> QED
    BY <1>2, <2>2 DEF x, y
<1>3. CASE mode = 2
  BY <1>3 DEF Required
<1>4. CASE mode # 1 /\ mode # 2
  <2>1. Required(sys, s, mode, limit) = SIZE_MAX
    BY <1>4, Zenon DEF Required
  <2> QED
    BY <1>4, <2>1 DEF SIZE_MAX
<1> QED
  BY <1>2, <1>3, <1>4

\* At the connection the buffers grow to what both sockets need.
LEMMA ConnectedKeeps ==
    ASSUME NEW mode \in Nat, NEW buf \in Nat, NEW limit \in Nat, limit >= STANDARD_BSS,
           BufInv(mode, limit), ConnectedBuffers(mode, buf, limit)
    PROVE  /\ BufInv(mode, limit)'
           /\ \A s \in Ends :
                /\ size'[s] >= size[s]
                /\ buf = 1 => /\ size'[s] >= Half(system'[s]["recv"])
                              /\ size'[s] >= Half(system'[Opposite(s)]["send"])
                /\ buf = 2 => size'[s] = limit
<1> DEFINE g == Adjust(system["target"], mss["target"], mode, limit)
<1>1. system' = [system EXCEPT !["target"] = g]
  BY DEF ConnectedBuffers
<1>2. size' = [s \in Ends |-> Greater(size[s], Required(system', s, buf, limit))]
  BY Zenon DEF ConnectedBuffers
<1>3. g \in [Directions -> Nat]
  <2>1. system["target"] \in [Directions -> Nat] /\ mss["target"] \in Nat \ {0}
    BY DEF BufInv, Ends
  <2> QED
    BY <2>1, AdjustType
<1>4. system' \in [Ends -> [Directions -> Nat]] /\ system'["source"] = system["source"]
  <2>1. system \in [Ends -> [Directions -> Nat]]
    BY DEF BufInv
  <2> HIDE DEF g
  <2> QED
    BY <1>1, <1>3, <2>1 DEF Ends
<1>5. mss' = mss /\ channel = "open" /\ channel' = "connected"
  BY DEF ConnectedBuffers
<1>6. set' \in [Ends -> BOOLEAN] /\ set'["source"] = set["source"]
  BY DEF ConnectedBuffers, BufInv, Ends
<1>7. ASSUME NEW s \in Ends
      PROVE  /\ size'[s] \in Nat /\ size'[s] >= STANDARD_BSS
             /\ size'[s] >= size[s]
             /\ buf = 1 => /\ size'[s] >= Half(system'[s]["recv"])
                           /\ size'[s] >= Half(system'[Opposite(s)]["send"])
             /\ buf = 2 => size'[s] = limit
  <2> DEFINE r == Required(system', s, buf, limit)
             x == Half(system'[s]["recv"])
             y == Half(system'[Opposite(s)]["send"])
  <2>1. r \in Nat /\ (buf = 1 => r >= x /\ r >= y) /\ (buf = 2 => r = limit)
    <3> DEFINE sys == system'
    <3>1. sys \in [Ends -> [Directions -> Nat]]
      BY <1>4
    <3> HIDE DEF sys
    <3>2. /\ Required(sys, s, buf, limit) \in Nat
          /\ buf = 1 => /\ Required(sys, s, buf, limit) >= Half(sys[s]["recv"])
                        /\ Required(sys, s, buf, limit) >= Half(sys[Opposite(s)]["send"])
          /\ buf = 2 => Required(sys, s, buf, limit) = limit
      BY <3>1, RequiredIs
    <3> QED
      BY <3>2, Zenon DEF sys
  <2>2. x \in Nat /\ y \in Nat
    <3>1. Opposite(s) \in Ends
      BY DEF Opposite, Ends
    <3>2. "recv" \in Directions /\ "send" \in Directions
      BY DEF Directions
    <3>3. system'[s]["recv"] \in Nat /\ system'[Opposite(s)]["send"] \in Nat
      BY <1>4, <3>1, <3>2
    <3> QED
      BY <3>3, Halves
  <2>3. size[s] = STANDARD_BSS /\ STANDARD_BSS \in Nat
    BY <1>5 DEF BufInv, STANDARD_BSS, STANDARD_MSS
  <2>4. size'[s] = Greater(STANDARD_BSS, r)
    BY <1>2, <2>3
  <2> HIDE DEF r, x, y
  <2>5. /\ size'[s] \in Nat /\ size'[s] >= STANDARD_BSS /\ size'[s] >= size[s]
        /\ buf = 1 => size'[s] >= x /\ size'[s] >= y
        /\ buf = 2 => size'[s] = limit
    BY <2>1, <2>2, <2>3, <2>4 DEF Greater
  <2> QED
    BY <2>5, Zenon DEF x, y
<1>8. size' \in [Ends -> Nat]
  <2>1. size' = [s \in Ends |-> size'[s]]
    BY <1>2, Zenon
  <2> QED
    BY <1>7, <2>1
<1>9. BufInv(mode, limit)'
  BY <1>4, <1>5, <1>6, <1>7, <1>8 DEF BufInv, Settled
<1> QED
  BY <1>7, <1>9, Zenon

\* The system does not change a source that was adjusted.
LEMMA GrowKeeps ==
    ASSUME NEW mode \in Nat, NEW limit \in Nat, BufInv(mode, limit), NEW s \in Ends, Grow(s)
    PROVE  /\ BufInv(mode, limit)'
           /\ set["source"] => system'["source"] = system["source"]
<1>1. PICK d \in Directions, v \in Initial :
          /\ v > system[s][d]
          /\ system' = [system EXCEPT ![s][d] = v]
  BY Zenon DEF Grow
<1>2. v \in Nat
  BY BuffersAssumption
<1>3. system \in [Ends -> [Directions -> Nat]]
  BY DEF BufInv
<1>4. system' \in [Ends -> [Directions -> Nat]]
  BY <1>1, <1>2, <1>3
<1>5. set["source"] => system'["source"] = system["source"]
  <2> SUFFICES ASSUME set["source"]
               PROVE  system'["source"] = system["source"]
    OBVIOUS
  <2>1. s # "source"
    BY DEF Grow
  <2> QED
    BY <1>1, <1>3, <2>1
<1>6. mss' = mss /\ set' = set /\ size' = size /\ channel' = channel
  BY DEF Grow
<1> QED
  BY <1>4, <1>5, <1>6 DEF BufInv, Settled

-----------------------------------------------------------------------------
(* Powers of two, bits and prefixes. *)

PowFun(g, n) == g = [k \in 0 .. n |-> IF k = 0 THEN 1 ELSE 2 * g[k - 1]]

\* The recursion of Pow2 is defined up to every number.
LEMMA PowExists == \A n \in Nat : \E g : PowFun(g, n)
<1> DEFINE B == {n \in Nat : ~ \E g : PowFun(g, n)}
<1> SUFFICES ASSUME B # {} PROVE FALSE
  OBVIOUS
<1>1. PICK n \in B : \A m \in Nat : m < n => m \notin B
  <2>1. B \in SUBSET Nat
    OBVIOUS
  <2> HIDE DEF B
  <2> QED
    BY <2>1, LeastMember
<1>2. CASE n = 0
  <2>1. PowFun([k \in 0 .. 0 |-> 1], 0)
    BY DEF PowFun
  <2> QED
    BY <1>2, <2>1
<1>3. CASE n # 0
  <2>1. n \in Nat /\ n - 1 \in Nat /\ n - 1 < n
    BY <1>3
  <2>2. PICK g : PowFun(g, n - 1)
    BY <1>1, <2>1
  <2> DEFINE h == [k \in 0 .. n |-> IF k = n THEN 2 * g[n - 1] ELSE g[k]]
  <2>3. ASSUME NEW k \in 0 .. n
        PROVE  h[k] = IF k = 0 THEN 1 ELSE 2 * h[k - 1]
    <3>1. CASE k = n
      <4>1. n - 1 \in 0 .. n /\ n - 1 # n
        BY <2>1
      <4>2. h[n - 1] = g[n - 1]
        BY <4>1
      <4> QED
        BY <1>3, <3>1, <4>2
    <3>2. CASE k # n
      <4>1. k \in 0 .. n - 1
        BY <2>1, <3>2
      <4>2. g[k] = IF k = 0 THEN 1 ELSE 2 * g[k - 1]
        BY <2>2, <4>1, Zenon DEF PowFun
      <4>3. k # 0 => k - 1 \in 0 .. n /\ k - 1 # n
        BY <2>1, <4>1
      <4>4. k # 0 => h[k - 1] = g[k - 1]
        BY <4>3
      <4> QED
        BY <3>2, <4>2, <4>4
    <3> QED
      BY <3>1, <3>2
  <2>4. h = [k \in 0 .. n |-> h[k]]
    BY Zenon
  <2> HIDE DEF h
  <2>5. PowFun(h, n)
    BY <2>3, <2>4, Zenon DEF PowFun
  <2> QED
    BY <2>5
<1> QED
  BY <1>2, <1>3

\* Pow2 is what its definition says.
LEMMA PowIs ==
    /\ Pow2[0] = 1
    /\ \A n \in 1 .. WordBits : Pow2[n] = 2 * Pow2[n - 1]
<1>1. WordBits \in Nat \ {0}
  BY CidrAssumption
<1>2. PowFun(Pow2, WordBits)
  <2>1. \E g : PowFun(g, WordBits)
    BY <1>1, PowExists
  <2>2. \E g : g = [n \in 0 .. WordBits |-> IF n = 0 THEN 1 ELSE 2 * g[n - 1]]
    BY <2>1 DEF PowFun
  <2>3. Pow2 = [n \in 0 .. WordBits |-> IF n = 0 THEN 1 ELSE 2 * Pow2[n - 1]]
    BY <2>2, Zenon DEF Pow2
  <2> QED
    BY <2>3, Zenon DEF PowFun
<1>3. Pow2 = [n \in 0 .. WordBits |-> IF n = 0 THEN 1 ELSE 2 * Pow2[n - 1]]
  BY <1>2, Zenon DEF PowFun
<1>4. \A n \in 0 .. WordBits : Pow2[n] = IF n = 0 THEN 1 ELSE 2 * Pow2[n - 1]
  BY <1>3, Zenon
<1>5. 0 \in 0 .. WordBits /\ \A n \in 1 .. WordBits : n \in 0 .. WordBits /\ n # 0
  BY <1>1
<1> QED
  BY <1>4, <1>5, Zenon

\* Powers of two are positive.
LEMMA PowType == \A n \in 0 .. WordBits : Pow2[n] \in Nat \ {0}
<1>1. WordBits \in Nat \ {0}
  BY CidrAssumption
<1> DEFINE B == {n \in 0 .. WordBits : Pow2[n] \notin Nat \ {0}}
<1> SUFFICES ASSUME B # {} PROVE FALSE
  OBVIOUS
<1>2. PICK n \in B : \A m \in Nat : m < n => m \notin B
  <2>1. B \in SUBSET Nat
    BY <1>1
  <2> HIDE DEF B
  <2> QED
    BY <2>1, LeastMember
<1>3. CASE n = 0
  BY <1>2, <1>3, PowIs
<1>4. CASE n # 0
  <2>1. n \in 1 .. WordBits /\ n - 1 \in 0 .. WordBits /\ n - 1 < n /\ n - 1 \in Nat
    BY <1>1, <1>4
  <2>2. Pow2[n - 1] \in Nat \ {0}
    BY <1>2, <2>1
  <2>3. Pow2[n] = 2 * Pow2[n - 1]
    BY <2>1, PowIs
  <2>4. Pow2[n] \notin Nat \ {0}
    OBVIOUS
  <2> QED
    BY <2>2, <2>3, <2>4
<1> QED
  BY <1>3, <1>4

\* Half of a quotient is the quotient by the double.
LEMMA HalfOfQuotient ==
    ASSUME NEW x \in Nat, NEW m \in Nat \ {0}
    PROVE  (x \div m) \div 2 = x \div (2 * m)
<1> DEFINE q == x \div m
           k == q \div 2
<1>0. m \in Nat /\ m # 0 /\ 2 * m \in Nat /\ 2 * m # 0
  OBVIOUS
<1>1. q \in Nat /\ q * m <= x /\ x < q * m + m
  BY Quotient
<1>2. k \in Nat /\ 2 * k <= q /\ q <= 2 * k + 1
  <2> HIDE DEF q
  <2> QED
    BY <1>1
<1> HIDE DEF k, q
<1>3. q - 2 * k = 0 \/ q - 2 * k = 1
  BY <1>1, <1>2
<1>4. q * m = k * (2 * m) + (q - 2 * k) * m /\ k * (2 * m) \in Nat
  BY <1>0, <1>1, <1>2
<1>5. k * (2 * m) <= x /\ x < k * (2 * m) + 2 * m
  <2>1. (q - 2 * k) * m = 0 \/ (q - 2 * k) * m = m
    BY <1>0, <1>3
  <2> DEFINE a == q * m
             b == k * (2 * m)
             c == (q - 2 * k) * m
  <2>2. /\ a = b + c /\ b \in Nat /\ (c = 0 \/ c = m) /\ a <= x /\ x < a + m
    BY <1>1, <1>4, <2>1
  <2> HIDE DEF a, b, c
  <2>3. b <= x /\ x < b + 2 * m
    BY <1>0, <2>2
  <2> QED
    BY <2>3 DEF b
<1>6. x \div (2 * m) = k
  BY <1>0, <1>2, <1>5, QuotientIs
<1> QED
  BY <1>6 DEF k, q

\* The word without its last p bits, from that without one more.
LEMMA WordStep ==
    ASSUME NEW x \in Nat, NEW p \in 0 .. WordBits - 1
    PROVE  /\ x \div Pow2[p] \in Nat /\ x \div Pow2[p + 1] \in Nat
           /\ x \div Pow2[p] = 2 * (x \div Pow2[p + 1]) + ((x \div Pow2[p]) % 2)
           /\ x \div Pow2[p + 1] = (x \div Pow2[p]) \div 2
<1>1. WordBits \in Nat \ {0}
  BY CidrAssumption
<1>2. p \in 0 .. WordBits /\ p + 1 \in 1 .. WordBits /\ (p + 1) - 1 = p
  BY <1>1
<1> DEFINE m == Pow2[p]
           q == x \div m
<1>3. m \in Nat \ {0}
  BY <1>2, PowType
<1>4. Pow2[p + 1] = 2 * m
  BY <1>2, PowIs
<1> HIDE DEF m
<1>5. q \in Nat
  BY <1>3, Quotient
<1>6. x \div (2 * m) = q \div 2
  BY <1>3, HalfOfQuotient
<1> HIDE DEF q
<1>7. q \div 2 \in Nat /\ q = 2 * (q \div 2) + (q % 2)
  BY <1>5
<1> QED
  BY <1>4, <1>5, <1>6, <1>7, Zenon DEF m, q

\* Nothing is left of a word that is shifted by all its bits.
LEMMA WordEnds ==
    ASSUME NEW x \in Word
    PROVE  x \in Nat /\ x \div Pow2[WordBits] = 0
<1>1. WordBits \in 0 .. WordBits
  BY CidrAssumption
<1> DEFINE m == Pow2[WordBits]
<1>2. m \in Nat \ {0}
  BY <1>1, PowType
<1>3. x \in 0 .. m - 1
  BY DEF Word
<1> HIDE DEF m
<1>4. x \in Nat /\ 0 * m <= x /\ x < 0 * m + m
  BY <1>2, <1>3
<1>5. x \div m = 0
  BY <1>2, <1>4, QuotientIs
<1> QED
  BY <1>4, <1>5 DEF m

\* Two words are equal without their last s bits when all others are equal.
LEMMA WordBitsEqual ==
    ASSUME NEW x \in Word, NEW y \in Word, NEW s \in 0 .. WordBits
    PROVE  x \div Pow2[s] = y \div Pow2[s]
             <=> \A p \in s .. WordBits - 1 : (x \div Pow2[p]) % 2 = (y \div Pow2[p]) % 2
<1>1. WordBits \in Nat \ {0} /\ x \in Nat /\ y \in Nat
  BY CidrAssumption, WordEnds
<1> DEFINE Q(p) == x \div Pow2[p] = y \div Pow2[p]
           E(p) == (x \div Pow2[p]) % 2 = (y \div Pow2[p]) % 2
<1>2. ASSUME NEW p \in s .. WordBits - 1
      PROVE  Q(p) <=> Q(p + 1) /\ E(p)
  <2>1. p \in 0 .. WordBits - 1
    BY <1>1
  <2> DEFINE a == x \div Pow2[p]
             b == y \div Pow2[p]
             c == x \div Pow2[p + 1]
             d == y \div Pow2[p + 1]
  <2>2. /\ a = 2 * c + (a % 2) /\ c = a \div 2
        /\ b = 2 * d + (b % 2) /\ d = b \div 2
    BY <1>1, <2>1, WordStep
  <2> HIDE DEF a, b, c, d
  <2>3. a = b <=> c = d /\ a % 2 = b % 2
    BY <2>2, Zenon
  <2> QED
    BY <2>3, Zenon DEF a, b, c, d
<1>3. Q(WordBits)
  BY WordEnds
<1> HIDE DEF Q, E
<1>4. ASSUME Q(s)
      PROVE  \A p \in s .. WordBits - 1 : E(p)
  <2> DEFINE B == {p \in s .. WordBits : ~ Q(p)}
  <2>1. B = {}
    <3> SUFFICES ASSUME B # {} PROVE FALSE
      OBVIOUS
    <3>1. PICK n \in B : \A m \in Nat : m < n => m \notin B
      <4>1. B \in SUBSET Nat
        BY <1>1
      <4> HIDE DEF B
      <4> QED
        BY <4>1, LeastMember
    <3>2. n \in s .. WordBits /\ ~ Q(n)
      OBVIOUS
    <3>3. n # s
      BY <1>4, <3>2
    <3>4. n - 1 \in s .. WordBits - 1 /\ n - 1 \in s .. WordBits /\ n - 1 \in Nat /\ n - 1 < n
          /\ (n - 1) + 1 = n
      BY <1>1, <3>2, <3>3
    <3>5. Q(n - 1)
      BY <3>1, <3>4
    <3>6. Q((n - 1) + 1)
      BY <1>2, <3>4, <3>5
    <3> QED
      BY <3>2, <3>4, <3>6, Zenon
  <2>2. \A p \in s .. WordBits - 1 : p \in s .. WordBits
    BY <1>1
  <2> QED
    BY <1>2, <2>1, <2>2
<1>5. ASSUME \A p \in s .. WordBits - 1 : E(p)
      PROVE  Q(s)
  <2> DEFINE B == {k \in 0 .. WordBits - s : ~ Q(WordBits - k)}
  <2>1. B = {}
    <3> SUFFICES ASSUME B # {} PROVE FALSE
      OBVIOUS
    <3>1. PICK n \in B : \A m \in Nat : m < n => m \notin B
      <4>1. B \in SUBSET Nat
        BY <1>1
      <4> HIDE DEF B
      <4> QED
        BY <4>1, LeastMember
    <3>2. n \in 0 .. WordBits - s /\ ~ Q(WordBits - n)
      OBVIOUS
    <3>3. n # 0
      <4>1. WordBits - 0 = WordBits
        BY <1>1
      <4> QED
        BY <1>3, <3>2, <4>1
    <3>4. n - 1 \in 0 .. WordBits - s /\ n - 1 \in Nat /\ n - 1 < n
          /\ WordBits - (n - 1) = (WordBits - n) + 1 /\ WordBits - n \in s .. WordBits - 1
      BY <1>1, <3>2, <3>3
    <3>5. Q(WordBits - (n - 1))
      BY <3>1, <3>4
    <3>6. Q(WordBits - n)
      BY <1>2, <1>5, <3>4, <3>5, Zenon
    <3> QED
      BY <3>2, <3>6
  <2>2. WordBits - s \in 0 .. WordBits - s /\ WordBits - (WordBits - s) = s
    BY <1>1
  <2>3. Q(WordBits - (WordBits - s))
    BY <2>1, <2>2
  <2> QED
    BY <2>2, <2>3, Zenon
<1> QED
  BY <1>4, <1>5, Zenon DEF Q, E


\* A remainder in terms of the quotient.
LEMMA Remainder ==
    ASSUME NEW x \in Nat, NEW m \in Nat, m # 0
    PROVE  x % m = x - m * (x \div m)
OBVIOUS

\* The number of words, and the words of an address.
LEMMA AddressWords ==
    ASSUME NEW a \in Address
    PROVE  /\ NumWords(a.family) \in Nat \ {0}
           /\ a.words \in [1 .. NumWords(a.family) -> Word]
<1>1. PICK f \in {"inet", "inet6"} : a \in [family : {f}, words : [1 .. NumWords(f) -> Word]]
  BY DEF Address
<1>2. a.family = f /\ a.words \in [1 .. NumWords(f) -> Word]
  BY <1>1
<1>3. NumWords(f) \in Nat \ {0}
  BY DEF NumWords
<1> QED
  BY <1>2, <1>3

\* How many bits of word w do not count.
Shift(pref, w) == Fit(WordBits * w - pref, 0, WordBits)

\* A word is shifted by as many of its bits as are beyond the length of a range.
LEMMA ShiftIs ==
    ASSUME NEW n \in Nat, NEW pref \in 0 .. WordBits * n, NEW w \in 1 .. n
    PROVE  /\ Fit((WordBits * n - pref) - WordBits * (n - w), 0, WordBits) = Shift(pref, w)
           /\ Shift(pref, w) \in 0 .. WordBits
           /\ \A p \in 0 .. WordBits - 1 : p >= Shift(pref, w) <=> WordBits * w - 1 - p < pref
<1>1. WordBits \in Nat /\ WordBits # 0 /\ w \in Nat
  BY CidrAssumption
<1>2. (WordBits * n - pref) - WordBits * (n - w) = WordBits * w - pref
  BY <1>1
<1> DEFINE a == WordBits * w
<1>3. a \in Nat /\ pref \in Nat
  <2>1. WordBits * n \in Nat /\ a \in Nat
    BY <1>1
  <2> HIDE DEF a
  <2> QED
    BY <2>1
<1> HIDE DEF a
<1>4. /\ Fit(a - pref, 0, WordBits) \in 0 .. WordBits
      /\ \A p \in 0 .. WordBits - 1 : p >= Fit(a - pref, 0, WordBits) <=> a - 1 - p < pref
  BY <1>1, <1>3 DEF Fit
<1> QED
  BY <1>2, <1>4 DEF Shift, a

\* Where a bit of an address is.
LEMMA BitPlace ==
    ASSUME NEW n \in Nat
    PROVE  LET w == n \div WordBits
               p == WordBits - 1 - (n % WordBits)
           IN /\ w \in Nat /\ p \in 0 .. WordBits - 1
              /\ n = WordBits * (w + 1) - 1 - p
              /\ \A k \in Nat : n < WordBits * k => w + 1 <= k
<1> DEFINE w == n \div WordBits
           p == WordBits - 1 - (n % WordBits)
<1>1. WordBits \in Nat /\ WordBits # 0
  BY CidrAssumption
<1>2. w \in Nat /\ w * WordBits <= n /\ n < w * WordBits + WordBits
  BY <1>1, Quotient
<1>3. n % WordBits = n - WordBits * w
  BY <1>1, Remainder
<1> HIDE DEF w
<1>4. p = WordBits - 1 - (n - WordBits * w)
  BY <1>3
<1> HIDE DEF p
<1> DEFINE a == WordBits * w
<1>5. /\ a = w * WordBits /\ WordBits * (w + 1) = a + WordBits /\ a \in Nat
      /\ p = WordBits - 1 - (n - a) /\ a <= n /\ n < a + WordBits
  BY <1>1, <1>2, <1>4
<1>6. ASSUME NEW k \in Nat, n < WordBits * k
      PROVE  w + 1 <= k
  <2> SUFFICES ASSUME ~ (w + 1 <= k) PROVE FALSE
    OBVIOUS
  <2>1. w - k \in Nat /\ WordBits * (w - k) \in Nat
    BY <1>1, <1>2
  <2>2. WordBits * (w - k) = a - WordBits * k
    BY <1>1, <1>2
  <2>3. WordBits * k \in Nat
    BY <1>1
  <2> HIDE DEF a
  <2> QED
    BY <1>2, <1>5, <1>6, <2>1, <2>2, <2>3
<1> HIDE DEF a
<1>7. p \in 0 .. WordBits - 1 /\ n = a + WordBits - 1 - p
  BY <1>1, <1>5
<1>8. n = WordBits * (w + 1) - 1 - p
  <2> DEFINE e == WordBits * (w + 1)
  <2>1. e = a + WordBits
    BY <1>5
  <2> HIDE DEF e
  <2>2. n = e - 1 - p
    BY <1>1, <1>5, <1>7, <2>1
  <2> QED
    BY <2>2 DEF e
<1> QED
  BY <1>2, <1>6, <1>7, <1>8 DEF w, p

\* The place of a bit in its word, and among all bits of an address.
LEMMA BitAt ==
    ASSUME NEW w \in Nat \ {0}, NEW p \in 0 .. WordBits - 1
    PROVE  LET n == WordBits * w - 1 - p
           IN /\ n \in Nat /\ n \div WordBits = w - 1
              /\ WordBits - 1 - (n % WordBits) = p
<1>1. WordBits \in Nat /\ WordBits # 0
  BY CidrAssumption
<1> DEFINE k == w - 1
           a == k * WordBits
           n == WordBits * w - 1 - p
<1>2. k \in Nat /\ a \in Nat /\ WordBits * w = a + WordBits
  BY <1>1
<1>3. n = a + WordBits - 1 - p
  <2> DEFINE c == WordBits * w
  <2>1. c = a + WordBits /\ n = c - 1 - p
    BY <1>2
  <2> HIDE DEF a, c, n
  <2> QED
    BY <1>1, <1>2, <2>1
<1> HIDE DEF n
<1>4. n \in Nat /\ k * WordBits <= n /\ n < k * WordBits + WordBits
  <2> HIDE DEF a
  <2>1. n \in Nat /\ a <= n /\ n < a + WordBits
    BY <1>1, <1>2, <1>3
  <2> QED
    BY <2>1 DEF a
<1>5. n \div WordBits = k
  <2> HIDE DEF k
  <2> QED
    BY <1>1, <1>2, <1>4, QuotientIs
<1>6. n % WordBits = n - WordBits * k
  BY <1>1, <1>4, <1>5, Remainder
<1>7. WordBits * k = a
  BY <1>1, <1>2
<1> HIDE DEF a
<1>8. WordBits - 1 - (n % WordBits) = p
  BY <1>1, <1>2, <1>3, <1>6, <1>7
<1> QED
  BY <1>4, <1>5, <1>8 DEF n

\* The test by words is the one by bits.
THEOREM PrefixIsSame ==
    ASSUME NEW a \in Address, NEW net, net.addr \in Address, net.pref \in 0 .. Full(net.addr.family)
    PROVE  InCidr(a, net) <=> SamePrefix(a, net)
<1> DEFINE b == net.addr
           N == NumWords(a.family)
           P == net.pref
           Equal(w, p) == (a.words[w] \div Pow2[p]) % 2 = (b.words[w] \div Pow2[p]) % 2
<1>1. CASE a.family # b.family
  BY <1>1 DEF InCidr, SamePrefix
<1>2. CASE a.family = b.family
  <2>1. /\ N \in Nat \ {0} /\ a.words \in [1 .. N -> Word] /\ b.words \in [1 .. N -> Word]
    BY <1>2, AddressWords
  <2>2. WordBits \in Nat /\ WordBits # 0
    BY CidrAssumption
  <2>3. P \in 0 .. WordBits * N /\ Full(a.family) = WordBits * N
    BY <1>2 DEF Full
  <2>4. ASSUME NEW w \in 1 .. N
        PROVE  \/ Shift(P, w) = WordBits
               \/ a.words[w] \div Pow2[Shift(P, w)] = b.words[w] \div Pow2[Shift(P, w)]
                 <=> \A p \in Shift(P, w) .. WordBits - 1 : Equal(w, p)
    <3> DEFINE s == Shift(P, w)
               x == a.words[w]
               y == b.words[w]
    <3>1. x \in Word /\ y \in Word
      BY <2>1
    <3>2. s \in 0 .. WordBits
      BY <2>1, <2>3, ShiftIs
    <3> HIDE DEF s, x, y
    <3>3. x \div Pow2[s] = y \div Pow2[s]
            <=> \A p \in s .. WordBits - 1 : (x \div Pow2[p]) % 2 = (y \div Pow2[p]) % 2
      BY <3>1, <3>2, WordBitsEqual
    <3> QED
      BY <3>3, Zenon DEF s, x, y
  <2>5. ASSUME P # 0
        PROVE  InCidr(a, net) <=>
                 \A w \in 1 .. N : \/ Shift(P, w) = WordBits
                                  \/ \A p \in Shift(P, w) .. WordBits - 1 : Equal(w, p)
    <3> DEFINE S(w) == Fit((Full(a.family) - P) - WordBits * (N - w), 0, WordBits)
    <3>1. \A w \in 1 .. N : S(w) = Shift(P, w)
      BY <2>1, <2>3, ShiftIs
    <3>2. InCidr(a, net) <=>
             \A w \in 1 .. N : S(w) = WordBits \/ a.words[w] \div Pow2[S(w)] = b.words[w] \div Pow2[S(w)]
      BY <1>2, <2>5, Zenon DEF InCidr
    <3> HIDE DEF S, Equal
    <3> QED
      BY <2>4, <3>1, <3>2, Zenon
  <2>6. SamePrefix(a, net) <=> \A n \in 0 .. P - 1 : Bit(a, n) = Bit(b, n)
    BY <1>2, Zenon DEF SamePrefix
  <2>7. ASSUME \A w \in 1 .. N : \/ Shift(P, w) = WordBits
                                 \/ \A p \in Shift(P, w) .. WordBits - 1 : Equal(w, p),
               NEW n \in 0 .. P - 1
        PROVE  Bit(a, n) = Bit(b, n)
    <3> DEFINE w == n \div WordBits
               p == WordBits - 1 - (n % WordBits)
    <3>1. n \in Nat /\ n < P /\ P \in Nat /\ P <= WordBits * N
      <4>1. WordBits * N \in Nat
        BY <2>1, <2>2
      <4> QED
        BY <2>3, <4>1
    <3>2. n < WordBits * N
      <4>1. WordBits * N \in Nat
        BY <2>1, <2>2
      <4> QED
        BY <3>1, <4>1
    <3>3. /\ w \in Nat /\ p \in 0 .. WordBits - 1
          /\ n = WordBits * (w + 1) - 1 - p
          /\ w + 1 <= N
      BY <2>1, <3>1, <3>2, BitPlace
    <3>4. Bit(a, n) = (a.words[w + 1] \div Pow2[p]) % 2 /\ Bit(b, n) = (b.words[w + 1] \div Pow2[p]) % 2
      BY Zenon DEF Bit
    <3> HIDE DEF w, p
    <3>5. w + 1 \in 1 .. N
      BY <2>1, <3>3
    <3>6. /\ Shift(P, w + 1) \in 0 .. WordBits
          /\ p >= Shift(P, w + 1) <=> WordBits * (w + 1) - 1 - p < P
      BY <2>1, <2>3, <3>3, <3>5, ShiftIs
    <3>7. p \in Shift(P, w + 1) .. WordBits - 1 /\ Shift(P, w + 1) # WordBits
      BY <2>2, <3>1, <3>3, <3>6
    <3>8. Equal(w + 1, p)
      BY <2>7, <3>5, <3>7
    <3> QED
      BY <3>4, <3>8
  <2>8. ASSUME \A n \in 0 .. P - 1 : Bit(a, n) = Bit(b, n),
               NEW w \in 1 .. N, NEW p \in Shift(P, w) .. WordBits - 1
        PROVE  Equal(w, p)
    <3> DEFINE n == WordBits * w - 1 - p
    <3>1. Shift(P, w) \in 0 .. WordBits
      BY <2>1, <2>3, ShiftIs
    <3>2. p \in 0 .. WordBits - 1 /\ p >= Shift(P, w) /\ w \in Nat \ {0}
      BY <2>1, <2>2, <3>1
    <3>3. n < P
      BY <2>1, <2>3, <3>2, ShiftIs
    <3>4. n \in Nat /\ n \div WordBits = w - 1 /\ WordBits - 1 - (n % WordBits) = p
      BY <3>2, BitAt
    <3> HIDE DEF n
    <3>5. n \in 0 .. P - 1
      <4>1. P \in Int
        BY <2>3
      <4> QED
        BY <3>3, <3>4, <4>1
    <3>6. (w - 1) + 1 = w
      BY <3>2
    <3>7. Bit(a, n) = (a.words[w] \div Pow2[p]) % 2 /\ Bit(b, n) = (b.words[w] \div Pow2[p]) % 2
      BY <3>4, <3>6, Zenon DEF Bit
    <3> QED
      BY <2>8, <3>5, <3>7, Zenon
  <2>9. CASE P = 0
    <3>1. 0 .. P - 1 = {}
      BY <2>9
    <3>2. InCidr(a, net)
      BY <1>2, <2>9, Zenon DEF InCidr
    <3> QED
      BY <2>6, <3>1, <3>2
  <2>10. CASE P # 0
    <3> HIDE DEF Equal
    <3> QED
      BY <2>4, <2>5, <2>6, <2>7, <2>8, <2>10, Zenon
  <2> QED
    BY <2>9, <2>10
<1> QED
  BY <1>1, <1>2

-----------------------------------------------------------------------------
(* Sections. *)

Items == UNION {[D -> Value] : D \in SUBSET STRING}
Sect  == [name : STRING, items : Items]
State == [sects : Seq(Sect), cur : {<<>>} \cup {<<sc>> : sc \in Sect}]

NamesIn(sects)  == {sects[j].name : j \in DOMAIN sects}
Distinct(sects) == \A i, j \in DOMAIN sects : sects[i].name = sects[j].name => i = j

\* Section n has value v for key.
Says(sects, n, key, v) ==
    \E j \in DOMAIN sects : /\ sects[j].name = n
                            /\ key \in DOMAIN sects[j].items
                            /\ sects[j].items[key] = v

\* Items map keys to values.
LEMMA ItemsAre ==
    ASSUME NEW i \in Items
    PROVE  /\ DOMAIN i \subseteq STRING /\ i = [k \in DOMAIN i |-> i[k]]
           /\ \A k \in DOMAIN i : i[k] \in Value
<1>1. PICK D \in SUBSET STRING : i \in [D -> Value]
  BY DEF Items
<1> QED
  BY <1>1

\* New items go before old ones.
LEMMA OverIs ==
    ASSUME NEW new \in Items, NEW old \in Items
    PROVE  /\ Over(new, old) \in Items
           /\ DOMAIN Over(new, old) = DOMAIN new \cup DOMAIN old
           /\ \A k \in DOMAIN new : Over(new, old)[k] = new[k]
           /\ \A k \in DOMAIN old \ DOMAIN new : Over(new, old)[k] = old[k]
<1> DEFINE D == DOMAIN new \cup DOMAIN old
<1>1. /\ D \in SUBSET STRING
      /\ \A k \in DOMAIN new : new[k] \in Value
      /\ \A k \in DOMAIN old : old[k] \in Value
  BY ItemsAre
<1>2. Over(new, old) = [k \in D |-> IF k \in DOMAIN new THEN new[k] ELSE old[k]]
  BY Zenon DEF Over
<1>3. \A k \in D : (IF k \in DOMAIN new THEN new[k] ELSE old[k]) \in Value
  BY <1>1
<1> HIDE DEF D
<1>4. Over(new, old) \in [D -> Value]
  BY <1>2, <1>3
<1>5. Over(new, old) \in Items
  BY <1>1, <1>4 DEF Items
<1> QED
  BY <1>2, <1>5 DEF D

\* A section begins without items.
LEMMA NoItemsIs == NoItems \in Items /\ DOMAIN NoItems = {}
<1>1. NoItems = [k \in {} |-> ""] /\ DOMAIN NoItems = {}
  BY DEF NoItems
<1>2. NoItems \in [{} -> Value]
  BY <1>1
<1>3. {} \in SUBSET STRING
  OBVIOUS
<1> QED
  BY <1>1, <1>2, <1>3, Zenon DEF Items

\* A line gives one item.
LEMMA OneItem ==
    ASSUME NEW key \in STRING, NEW v \in Value
    PROVE  /\ [k \in {key} |-> v] \in Items
           /\ DOMAIN [k \in {key} |-> v] = {key}
           /\ [k \in {key} |-> v][key] = v
<1>1. [k \in {key} |-> v] \in [{key} -> Value] /\ {key} \in SUBSET STRING
  OBVIOUS
<1> QED
  BY <1>1 DEF Items

\* What AddSect makes of the sections, in terms of names and values.
LEMMA AddSectIs ==
    ASSUME NEW sects \in Seq(Sect), Distinct(sects), NEW sc \in Sect
    PROVE  LET r == AddSect(sects, sc)
           IN /\ r \in Seq(Sect) /\ Distinct(r)
              /\ NamesIn(r) = NamesIn(sects) \cup {sc.name}
              /\ \A n, key, v :
                    Says(r, n, key, v) <=> IF n = sc.name /\ key \in DOMAIN sc.items
                                           THEN v = sc.items[key] ELSE Says(sects, n, key, v)
<1> DEFINE r == AddSect(sects, sc)
<1>1. /\ Len(sects) \in Nat /\ DOMAIN sects = 1 .. Len(sects)
      /\ \A j \in DOMAIN sects : sects[j] \in Sect
  BY ElementOfSeq
<1>2. sc.name \in STRING /\ sc.items \in Items
      /\ \A j \in DOMAIN sects : sects[j].name \in STRING /\ sects[j].items \in Items
  BY <1>1 DEF Sect
<1>3. CASE \E j \in DOMAIN sects : sects[j].name = sc.name
  <2>1. PICK i \in DOMAIN sects : sects[i].name = sc.name
    BY <1>3
  <2> DEFINE new == Over(sc.items, sects[i].items)
  <2>2. /\ new \in Items
        /\ DOMAIN new = DOMAIN sc.items \cup DOMAIN sects[i].items
        /\ \A k \in DOMAIN sc.items : new[k] = sc.items[k]
        /\ \A k \in DOMAIN sects[i].items \ DOMAIN sc.items : new[k] = sects[i].items[k]
    <3>1. sects[i].items \in Items
      BY <1>2
    <3> DEFINE old == sects[i].items
    <3> HIDE DEF old
    <3>2. old \in Items
      BY <3>1 DEF old
    <3>3. /\ Over(sc.items, old) \in Items
          /\ DOMAIN Over(sc.items, old) = DOMAIN sc.items \cup DOMAIN old
          /\ \A k \in DOMAIN sc.items : Over(sc.items, old)[k] = sc.items[k]
          /\ \A k \in DOMAIN old \ DOMAIN sc.items : Over(sc.items, old)[k] = old[k]
      BY <1>2, <3>2, OverIs
    <3> QED
      BY <3>3, Zenon DEF old
  <2>3. r = [j \in DOMAIN sects |-> IF sects[j].name = sc.name
                                    THEN [sects[j] EXCEPT !.items = Over(sc.items, @)]
                                    ELSE sects[j]]
    BY <1>3, Zenon DEF AddSect
  <2>4. DOMAIN r = DOMAIN sects
    BY <2>3, Zenon
  <2>5. ASSUME NEW j \in DOMAIN sects, j # i
        PROVE  r[j] = sects[j]
    <3>1. sects[j].name # sc.name
      BY <2>1, <2>5, Zenon DEF Distinct
    <3> QED
      BY <2>3, <3>1, Zenon
  <2>6. r[i] = [sects[i] EXCEPT !.items = new]
    BY <2>1, <2>3, Zenon
  <2> HIDE DEF r, new
  <2>7. r[i] \in Sect /\ r[i].name = sc.name /\ r[i].items = new
    <3>1. sects[i] \in Sect
      BY <1>1
    <3> QED
      BY <2>1, <2>2, <2>6, <3>1 DEF Sect
  <2>8. \A j \in DOMAIN sects : r[j] \in Sect /\ r[j].name = sects[j].name
    BY <1>1, <2>1, <2>5, <2>7, Zenon
  <2>9. r \in Seq(Sect)
    <3>1. r = [j \in 1 .. Len(sects) |-> r[j]]
      BY <1>1, <2>3, <2>4, Zenon DEF r
    <3> QED
      BY <1>1, <2>8, <3>1
  <2>10. Distinct(r)
    BY <2>4, <2>8, Zenon DEF Distinct
  <2>11. NamesIn(r) = NamesIn(sects) \cup {sc.name}
    BY <2>1, <2>4, <2>8 DEF NamesIn
  <2>12. ASSUME NEW n, NEW key, NEW v
         PROVE  Says(r, n, key, v) <=> IF n = sc.name /\ key \in DOMAIN sc.items
                                       THEN v = sc.items[key] ELSE Says(sects, n, key, v)
    <3>1. CASE n = sc.name
      <4>1. Says(r, n, key, v) <=> key \in DOMAIN new /\ new[key] = v
        <5>1. \A j \in DOMAIN sects : r[j].name = n <=> j = i
          BY <2>1, <2>8, <3>1, Zenon DEF Distinct
        <5> QED
          BY <2>4, <2>7, <5>1, Zenon DEF Says
      <4>2. Says(sects, n, key, v) <=> key \in DOMAIN sects[i].items /\ sects[i].items[key] = v
        <5>1. \A j \in DOMAIN sects : sects[j].name = n <=> j = i
          BY <2>1, <3>1, Zenon DEF Distinct
        <5> QED
          BY <5>1, Zenon DEF Says
      <4> QED
        BY <2>2, <3>1, <4>1, <4>2
    <3>2. CASE n # sc.name
      <4>1. \A j \in DOMAIN sects : sects[j].name = n => r[j] = sects[j]
        BY <2>1, <2>5, <3>2, Zenon
      <4>2. Says(r, n, key, v) <=> Says(sects, n, key, v)
        BY <2>4, <2>8, <4>1, Zenon DEF Says
      <4> QED
        BY <3>2, <4>2
    <3> QED
      BY <3>1, <3>2
  <2> QED
    BY <2>9, <2>10, <2>11, <2>12, Zenon DEF r
<1>4. CASE ~ \E j \in DOMAIN sects : sects[j].name = sc.name
  <2> DEFINE i == Len(sects) + 1
  <2>1. r = Append(sects, sc)
    BY <1>4, Zenon DEF AddSect
  <2>2. /\ r \in Seq(Sect) /\ Len(r) = i /\ i \in Nat
        /\ \A j \in 1 .. Len(sects) : r[j] = sects[j]
        /\ r[i] = sc
    BY <1>1, <2>1, AppendProperties
  <2>3. DOMAIN r = DOMAIN sects \cup {i} /\ i \notin DOMAIN sects
    BY <1>1, <2>2
  <2> HIDE DEF r, i
  <2>4. \A j \in DOMAIN sects : r[j] = sects[j] /\ r[j].name # sc.name
    BY <1>1, <1>4, <2>2
  <2>5. Distinct(r)
    BY <2>2, <2>3, <2>4, Zenon DEF Distinct
  <2>6. NamesIn(r) = NamesIn(sects) \cup {sc.name}
    BY <2>2, <2>3, <2>4 DEF NamesIn
  <2>7. ASSUME NEW n, NEW key, NEW v
        PROVE  Says(r, n, key, v) <=> IF n = sc.name /\ key \in DOMAIN sc.items
                                      THEN v = sc.items[key] ELSE Says(sects, n, key, v)
    <3>1. CASE n = sc.name
      <4>1. Says(r, n, key, v) <=> key \in DOMAIN sc.items /\ sc.items[key] = v
        BY <2>2, <2>3, <2>4, <3>1, Zenon DEF Says
      <4>2. ~ Says(sects, n, key, v)
        BY <1>4, <3>1, Zenon DEF Says
      <4> QED
        BY <3>1, <4>1, <4>2
    <3>2. CASE n # sc.name
      <4>1. Says(r, n, key, v) <=> Says(sects, n, key, v)
        BY <2>2, <2>3, <2>4, <3>2, Zenon DEF Says
      <4> QED
        BY <3>2, <4>1
    <3> QED
      BY <3>1, <3>2
  <2> QED
    BY <2>2, <2>5, <2>6, <2>7, Zenon DEF r
<1> QED
  BY <1>3, <1>4, Zenon

-----------------------------------------------------------------------------
(* Lines. *)

\* The reader is between sections, or in one.
LEMMA StateIs ==
    ASSUME NEW st \in State
    PROVE  /\ st.sects \in Seq(Sect)
           /\ \/ st.cur = <<>>
              \/ st.cur # <<>> /\ st.cur[1] \in Sect /\ st.cur = <<st.cur[1]>>
BY DEF State

\* Kinds of lines.
LEMMA LineIs ==
    ASSUME NEW line \in Line
    PROVE  /\ line.kind \in {"header", "item", "other"}
           /\ line.kind = "header" => line.class \in STRING /\ line.name \in STRING
           /\ line.kind = "item" => line.key \in STRING /\ line.val \in Value
<1>1. CASE line \in [kind : {"header"}, class : STRING, name : STRING]
  <2>1. line.kind = "header" /\ line.class \in STRING /\ line.name \in STRING
    BY <1>1
  <2> QED
    BY <2>1
<1>2. CASE line \in [kind : {"item"}, key : STRING, val : Value]
  <2>1. line.kind = "item" /\ line.key \in STRING /\ line.val \in Value
    BY <1>2
  <2> QED
    BY <2>1
<1>3. CASE line \in [kind : {"other"}]
  <2>1. line.kind = "other"
    BY <1>3
  <2> QED
    BY <2>1
<1> QED
  BY <1>1, <1>2, <1>3 DEF Line

\* A state of the reader: the sections are distinct.
StateOK(st) == st \in State /\ Distinct(st.sects)

\* A section that is complete joins the others, and names stay distinct.
LEMMA FlushIs ==
    ASSUME NEW st, StateOK(st)
    PROVE  Flush(st) \in Seq(Sect) /\ Distinct(Flush(st))
<1>1. st.sects \in Seq(Sect) /\ Distinct(st.sects)
  BY StateIs DEF StateOK
<1>2. CASE st.cur = <<>>
  BY <1>1, <1>2 DEF Flush
<1>3. CASE st.cur # <<>>
  <2>1. st.cur[1] \in Sect
    BY <1>3, StateIs DEF StateOK
  <2>2. Flush(st) = AddSect(st.sects, st.cur[1])
    BY <1>3 DEF Flush
  <2> QED
    BY <1>1, <2>1, <2>2, AddSectIs
<1> QED
  BY <1>2, <1>3

\* A header ends one section and begins another.
LEMMA ReadHeader ==
    ASSUME NEW st, StateOK(st), NEW line \in Line, line.kind = "header", NEW class
    PROVE  LET t == ReadLine(class, st, line)
           IN /\ StateOK(t)
              /\ NamesIn(Flush(t)) = NamesIn(Flush(st)) \cup
                    (IF line.class = class THEN {line.name} ELSE {})
              /\ \A n, key, v : Says(Flush(t), n, key, v) <=> Says(Flush(st), n, key, v)
              /\ line.class = class => t.cur # <<>> /\ t.cur[1].name = line.name
              /\ line.class # class => t.cur = <<>>
<1> DEFINE t == ReadLine(class, st, line)
           fl == Flush(st)
<1>1. fl \in Seq(Sect) /\ Distinct(fl)
  BY FlushIs
<1>2. t = [sects |-> fl,
           cur   |-> IF line.class = class THEN <<[name |-> line.name, items |-> NoItems]>>
                                           ELSE <<>>]
  BY Zenon DEF ReadLine
<1> HIDE DEF t, fl
<1>3. CASE line.class = class
  <2> DEFINE sc == [name |-> line.name, items |-> NoItems]
  <2>1. sc \in Sect /\ sc.name = line.name /\ DOMAIN sc.items = {}
    BY LineIs, NoItemsIs DEF Sect
  <2>2. t = [sects |-> fl, cur |-> <<sc>>]
    BY <1>2, <1>3
  <2> HIDE DEF sc
  <2>3. t.sects = fl /\ t.cur = <<sc>> /\ t.cur[1] = sc /\ t.cur # <<>>
    BY <2>2
  <2>4. StateOK(t)
    BY <1>1, <2>1, <2>2 DEF StateOK, State
  <2>5. Flush(t) = AddSect(fl, sc)
    BY <2>3 DEF Flush
  <2>6. /\ NamesIn(Flush(t)) = NamesIn(fl) \cup {line.name}
        /\ \A n, key, v :
              Says(Flush(t), n, key, v) <=> IF n = sc.name /\ key \in DOMAIN sc.items
                                            THEN v = sc.items[key] ELSE Says(fl, n, key, v)
    BY <1>1, <2>1, <2>5, AddSectIs, ZenonT(60)
  <2>7. \A n, key, v : Says(Flush(t), n, key, v) <=> Says(fl, n, key, v)
    BY <2>1, <2>6
  <2> QED
    BY <1>3, <2>1, <2>3, <2>4, <2>6, <2>7, Zenon DEF fl, t
<1>4. CASE line.class # class
  <2>1. t.sects = fl /\ t.cur = <<>> /\ t = [sects |-> fl, cur |-> <<>>]
    BY <1>2, <1>4
  <2>2. StateOK(t)
    BY <1>1, <2>1 DEF StateOK, State
  <2>3. Flush(t) = fl
    BY <2>1 DEF Flush
  <2>4. NamesIn(Flush(t)) = NamesIn(fl) \cup {}
    BY <2>3
  <2> QED
    BY <1>4, <2>1, <2>2, <2>3, <2>4, Zenon DEF fl, t
<1> QED
  BY <1>3, <1>4

\* An item sets one value of the section being read.
LEMMA ReadItem ==
    ASSUME NEW st, StateOK(st), NEW line \in Line, line.kind = "item", st.cur # <<>>, NEW class
    PROVE  LET t == ReadLine(class, st, line)
           IN /\ StateOK(t)
              /\ NamesIn(Flush(t)) = NamesIn(Flush(st))
              /\ \A n, key, v :
                    Says(Flush(t), n, key, v) <=>
                       IF n = st.cur[1].name /\ key = line.key
                       THEN v = line.val ELSE Says(Flush(st), n, key, v)
              /\ t.cur # <<>> /\ t.cur[1].name = st.cur[1].name
<1> DEFINE t   == ReadLine(class, st, line)
           old == st.cur[1]
           it  == [k \in {line.key} |-> line.val]
           its == Over(it, old.items)
           new == [name |-> old.name, items |-> its]
<1>1. st \in State /\ old \in Sect /\ st.cur = <<old>> /\ st.sects \in Seq(Sect) /\ Distinct(st.sects)
  BY StateIs DEF StateOK
<1>2. line.key \in STRING /\ line.val \in Value
  BY LineIs
<1>3. it \in Items /\ DOMAIN it = {line.key} /\ it[line.key] = line.val
  BY <1>2, OneItem
<1>4. old.name \in STRING /\ old.items \in Items
  BY <1>1 DEF Sect
<1>5. /\ its \in Items /\ DOMAIN its = {line.key} \cup DOMAIN old.items
      /\ its[line.key] = line.val
      /\ \A k \in DOMAIN old.items \ {line.key} : its[k] = old.items[k]
  <2> DEFINE o == old.items
  <2> HIDE DEF it, o
  <2>1. o \in Items
    BY <1>4 DEF o
  <2>2. /\ Over(it, o) \in Items /\ DOMAIN Over(it, o) = DOMAIN it \cup DOMAIN o
        /\ \A k \in DOMAIN it : Over(it, o)[k] = it[k]
        /\ \A k \in DOMAIN o \ DOMAIN it : Over(it, o)[k] = o[k]
    BY <1>3, <2>1, OverIs
  <2> QED
    BY <1>3, <2>2 DEF o
<1>6. new \in Sect /\ new.name = old.name /\ new.items = its
  <2> HIDE DEF its, old
  <2> QED
    BY <1>4, <1>5 DEF Sect
<1>7. t = [sects |-> st.sects, cur |-> <<new>>]
  <2>1. t = [st EXCEPT !.cur[1].items = Over(it, @)]
    BY Zenon DEF ReadLine
  <2> HIDE DEF it, t
  <2>2. t = [st EXCEPT !.cur = [st.cur EXCEPT ![1] = [old EXCEPT !.items = Over(it, old.items)]]]
    BY <2>1, Zenon
  <2>3. [old EXCEPT !.items = its] = new
    <3> HIDE DEF its, old
    <3> QED
      BY <1>1 DEF Sect
  <2>4. t = [st EXCEPT !.cur = [st.cur EXCEPT ![1] = new]]
    BY <2>2, <2>3, Zenon
  <2>5. [st.cur EXCEPT ![1] = new] = <<new>>
    <3> HIDE DEF new, old
    <3>1. \A o, w : [<<o>> EXCEPT ![1] = w] = <<w>>
      OBVIOUS
    <3> QED
      BY <1>1, <3>1, Zenon
  <2>6. st = [sects |-> st.sects, cur |-> st.cur]
    BY <1>1 DEF State
  <2> HIDE DEF new
  <2> QED
    BY <2>4, <2>5, <2>6
<1> HIDE DEF t, old, new, its, it
<1>8. t.sects = st.sects /\ t.cur = <<new>> /\ t.cur[1] = new /\ t.cur # <<>>
  BY <1>7
<1>9. StateOK(t)
  BY <1>1, <1>6, <1>7 DEF StateOK, State
<1>10. Flush(t) = AddSect(st.sects, new) /\ Flush(st) = AddSect(st.sects, old)
  BY <1>8 DEF Flush, old
<1> DEFINE S == st.sects
<1>11. /\ NamesIn(AddSect(S, new)) = NamesIn(S) \cup {new.name}
       /\ \A n, key, v :
             Says(AddSect(S, new), n, key, v) <=>
                IF n = new.name /\ key \in DOMAIN new.items
                THEN v = new.items[key] ELSE Says(S, n, key, v)
  <2> HIDE DEF S
  <2>1. S \in Seq(Sect) /\ Distinct(S)
    BY <1>1 DEF S
  <2> QED
    BY <1>6, <2>1, AddSectIs
<1>12. /\ NamesIn(AddSect(S, old)) = NamesIn(S) \cup {old.name}
       /\ \A n, key, v :
             Says(AddSect(S, old), n, key, v) <=>
                IF n = old.name /\ key \in DOMAIN old.items
                THEN v = old.items[key] ELSE Says(S, n, key, v)
  <2> HIDE DEF S
  <2>1. S \in Seq(Sect) /\ Distinct(S)
    BY <1>1 DEF S
  <2> QED
    BY <1>1, <2>1, AddSectIs
<1>13. ASSUME NEW n, NEW key, NEW v
       PROVE  Says(AddSect(S, new), n, key, v) <=>
                 IF n = old.name /\ key = line.key
                 THEN v = line.val ELSE Says(AddSect(S, old), n, key, v)
  <2>1. /\ Says(AddSect(S, new), n, key, v) <=>
              IF n = new.name /\ key \in DOMAIN new.items
              THEN v = new.items[key] ELSE Says(S, n, key, v)
        /\ Says(AddSect(S, old), n, key, v) <=>
              IF n = old.name /\ key \in DOMAIN old.items
              THEN v = old.items[key] ELSE Says(S, n, key, v)
    BY <1>11, <1>12, Zenon
  <2>2. CASE n = old.name
    <3>1. CASE key = line.key
      BY <1>5, <1>6, <2>1, <2>2, <3>1
    <3>2. CASE key # line.key
      <4>1. key \in DOMAIN its <=> key \in DOMAIN old.items
        BY <1>5, <3>2
      <4>2. key \in DOMAIN old.items => its[key] = old.items[key]
        BY <1>5, <3>2
      <4> QED
        BY <1>6, <2>1, <2>2, <3>2, <4>1, <4>2, Zenon
    <3> QED
      BY <3>1, <3>2
  <2>3. CASE n # old.name
    BY <1>6, <2>1, <2>3
  <2> QED
    BY <2>2, <2>3
<1>14. NamesIn(Flush(t)) = NamesIn(Flush(st))
  BY <1>6, <1>10, <1>11, <1>12
<1> QED
  BY <1>6, <1>8, <1>9, <1>10, <1>13, <1>14, Zenon DEF t, old

\* Nothing else is read.
LEMMA ReadOther ==
    ASSUME NEW st, NEW line, line.kind # "header", line.kind # "item" \/ st.cur = <<>>, NEW class
    PROVE  ReadLine(class, st, line) = st
BY Zenon DEF ReadLine

-----------------------------------------------------------------------------
(* What is read after m lines. *)

HeadersIn(q, m) == {h \in 1 .. m : q[h].kind = "header"}

SetsIn(q, c, n, key, m) ==
    {l \in 1 .. m :
        /\ q[l].kind = "item" /\ q[l].key = key
        /\ HeadersIn(q, l - 1) # {}
        /\ q[Max(HeadersIn(q, l - 1))].class = c /\ q[Max(HeadersIn(q, l - 1))].name = n}

\* The last of some lines.
LastOf(L, l) == l \in L /\ \A x \in L : x <= l

ReadOK(q, c, st, m) ==
    /\ StateOK(st)
    /\ NamesIn(Flush(st)) = {q[h].name : h \in {x \in HeadersIn(q, m) : q[x].class = c}}
    /\ \A n, key, v :
          Says(Flush(st), n, key, v) <=> \E l : LastOf(SetsIn(q, c, n, key, m), l) /\ v = q[l].val
    /\ st.cur # <<>> <=> HeadersIn(q, m) # {} /\ q[Max(HeadersIn(q, m))].class = c
    /\ st.cur # <<>> => st.cur[1].name = q[Max(HeadersIn(q, m))].name

\* An interval of numbers and its last one.
LEMMA OneMore ==
    ASSUME NEW m \in Nat, m # 0
    PROVE  m - 1 \in Nat /\ 1 .. m = (1 .. m - 1) \cup {m} /\ m \notin 1 .. m - 1
OBVIOUS

\* Before the first line nothing is read.
LEMMA ReadStart ==
    ASSUME NEW q, NEW c
    PROVE  ReadOK(q, c, Start, 0)
<1>1. Start.sects = <<>> /\ Start.cur = <<>>
  BY DEF Start
<1>2. <<>> \in Seq(Sect) /\ DOMAIN <<>> = {}
  BY EmptySeq
<1>3. StateOK(Start)
  BY <1>1, <1>2 DEF StateOK, State, Distinct, Start
<1>4. Flush(Start) = <<>>
  BY <1>1 DEF Flush
<1>5. 1 .. 0 = {}
  OBVIOUS
<1>6. HeadersIn(q, 0) = {} /\ \A n, key : SetsIn(q, c, n, key, 0) = {}
  BY <1>5 DEF HeadersIn, SetsIn
<1>7. NamesIn(<<>>) = {} /\ \A n, key, v : ~ Says(<<>>, n, key, v)
  BY <1>2 DEF NamesIn, Says
<1>8. \A n, key, l : ~ LastOf(SetsIn(q, c, n, key, 0), l)
  BY <1>6 DEF LastOf
<1>9. NamesIn(Flush(Start)) = {q[h].name : h \in {x \in HeadersIn(q, 0) : q[x].class = c}}
  BY <1>4, <1>6, <1>7
<1> QED
  BY <1>1, <1>3, <1>4, <1>6, <1>7, <1>8, <1>9, Zenon DEF ReadOK

\* Lines that are no headers leave the headers as they are.
LEMMA HeadersStay ==
    ASSUME NEW q, NEW m \in Nat, m # 0, q[m].kind # "header"
    PROVE  HeadersIn(q, m) = HeadersIn(q, m - 1)
<1>1. 1 .. m = (1 .. m - 1) \cup {m}
  BY OneMore
<1> QED
  BY <1>1 DEF HeadersIn

\* A line that does not set a key of a section leaves its settings alone.
LEMMA SettingsStay ==
    ASSUME NEW q, NEW c, NEW m \in Nat, m # 0, NEW n, NEW key,
           \/ q[m].kind # "item" \/ q[m].key # key
           \/ HeadersIn(q, m - 1) = {} \/ q[Max(HeadersIn(q, m - 1))].class # c
           \/ q[Max(HeadersIn(q, m - 1))].name # n
    PROVE  SetsIn(q, c, n, key, m) = SetsIn(q, c, n, key, m - 1)
<1>1. 1 .. m = (1 .. m - 1) \cup {m}
  BY OneMore
<1> QED
  BY <1>1 DEF SetsIn

\* A header: what was read of the file so far, and one section more.
LEMMA ReadStepHeader ==
    ASSUME NEW q \in Seq(Line), NEW m \in 1 .. Len(q), NEW c, NEW st, ReadOK(q, c, st, m - 1),
           q[m].kind = "header"
    PROVE  ReadOK(q, c, ReadLine(c, st, q[m]), m)
<1> DEFINE t == ReadLine(c, st, q[m])
<1>1. m \in Nat /\ m # 0 /\ q[m] \in Line /\ m - 1 \in Nat
  BY ElementOfSeq
<1>2. 1 .. m = (1 .. m - 1) \cup {m}
  BY <1>1, OneMore
<1>3. HeadersIn(q, m) = HeadersIn(q, m - 1) \cup {m}
  BY <1>2 DEF HeadersIn
<1>4. Max(HeadersIn(q, m)) = m /\ HeadersIn(q, m) # {}
  <2> DEFINE S == HeadersIn(q, m)
  <2>1. S \in SUBSET Int /\ m \in S /\ \A x \in S : x <= m
    BY <1>1, <1>3 DEF HeadersIn
  <2> HIDE DEF S
  <2>2. Max(S) = m /\ S # {}
    BY <2>1, MaxIs
  <2> QED
    BY <2>2 DEF S
<1>5. StateOK(st)
  BY Zenon DEF ReadOK
<1>6. /\ StateOK(t)
      /\ NamesIn(Flush(t)) = NamesIn(Flush(st)) \cup
            (IF q[m].class = c THEN {q[m].name} ELSE {})
      /\ \A n, key, v : Says(Flush(t), n, key, v) <=> Says(Flush(st), n, key, v)
      /\ q[m].class = c => t.cur # <<>> /\ t.cur[1].name = q[m].name
      /\ q[m].class # c => t.cur = <<>>
  <2> DEFINE line == q[m]
  <2>1. line \in Line /\ line.kind = "header"
    BY <1>1
  <2> HIDE DEF line
  <2>2. LET u == ReadLine(c, st, line)
        IN /\ StateOK(u)
           /\ NamesIn(Flush(u)) = NamesIn(Flush(st)) \cup
                 (IF line.class = c THEN {line.name} ELSE {})
           /\ \A n, key, v : Says(Flush(u), n, key, v) <=> Says(Flush(st), n, key, v)
           /\ line.class = c => u.cur # <<>> /\ u.cur[1].name = line.name
           /\ line.class # c => u.cur = <<>>
    BY <1>5, <2>1, ReadHeader
  <2> QED
    BY <2>2, Zenon DEF line
<1> HIDE DEF t
<1>7. NamesIn(Flush(t)) = {q[h].name : h \in {x \in HeadersIn(q, m) : q[x].class = c}}
  <2>1. NamesIn(Flush(st)) = {q[h].name : h \in {x \in HeadersIn(q, m - 1) : q[x].class = c}}
    BY Zenon DEF ReadOK
  <2>2. CASE q[m].class = c
    <3>1. {x \in HeadersIn(q, m) : q[x].class = c}
            = {x \in HeadersIn(q, m - 1) : q[x].class = c} \cup {m}
      BY <1>3, <2>2
    <3>2. NamesIn(Flush(t)) = NamesIn(Flush(st)) \cup {q[m].name}
      BY <1>6, <2>2
    <3> QED
      BY <2>1, <3>1, <3>2
  <2>3. CASE q[m].class # c
    <3>1. {x \in HeadersIn(q, m) : q[x].class = c}
            = {x \in HeadersIn(q, m - 1) : q[x].class = c}
      BY <1>3, <2>3
    <3>2. NamesIn(Flush(t)) = NamesIn(Flush(st))
      BY <1>6, <2>3
    <3> QED
      BY <2>1, <3>1, <3>2
  <2> QED
    BY <2>2, <2>3
<1>8. \A n, key : SetsIn(q, c, n, key, m) = SetsIn(q, c, n, key, m - 1)
  <2>1. q[m].kind # "item"
    OBVIOUS
  <2> QED
    BY <1>1, <2>1, SettingsStay
<1>9. \A n, key, v :
         Says(Flush(t), n, key, v) <=> \E l : LastOf(SetsIn(q, c, n, key, m), l) /\ v = q[l].val
  <2>1. \A n, key, v :
          Says(Flush(st), n, key, v) <=>
             \E l : LastOf(SetsIn(q, c, n, key, m - 1), l) /\ v = q[l].val
    BY Zenon DEF ReadOK
  <2> QED
    BY <1>6, <1>8, <2>1
<1>10. /\ t.cur # <<>> <=> HeadersIn(q, m) # {} /\ q[Max(HeadersIn(q, m))].class = c
       /\ t.cur # <<>> => t.cur[1].name = q[Max(HeadersIn(q, m))].name
  BY <1>4, <1>6, Zenon
<1>11. StateOK(t)
  BY <1>6
<1>12. ReadOK(q, c, t, m)
  BY <1>7, <1>9, <1>10, <1>11, Zenon DEF ReadOK
<1> QED
  BY <1>12 DEF t

\* An item: it becomes the last setting of its key in its section.
LEMMA ReadStepItem ==
    ASSUME NEW q \in Seq(Line), NEW m \in 1 .. Len(q), NEW c, NEW st, ReadOK(q, c, st, m - 1),
           q[m].kind = "item", st.cur # <<>>
    PROVE  ReadOK(q, c, ReadLine(c, st, q[m]), m)
<1> DEFINE t == ReadLine(c, st, q[m])
<1>1. m \in Nat /\ m # 0 /\ q[m] \in Line /\ m - 1 \in Nat
  BY ElementOfSeq
<1>2. 1 .. m = (1 .. m - 1) \cup {m}
  BY <1>1, OneMore
<1>3. HeadersIn(q, m) = HeadersIn(q, m - 1)
  BY <1>1, HeadersStay
<1>4. /\ StateOK(st)
      /\ HeadersIn(q, m - 1) # {} /\ q[Max(HeadersIn(q, m - 1))].class = c
      /\ st.cur[1].name = q[Max(HeadersIn(q, m - 1))].name
  BY Zenon DEF ReadOK
<1> DEFINE own == st.cur[1].name
<1>5. /\ StateOK(t)
      /\ NamesIn(Flush(t)) = NamesIn(Flush(st))
      /\ \A n, key, v :
            Says(Flush(t), n, key, v) <=>
               IF n = own /\ key = q[m].key THEN v = q[m].val ELSE Says(Flush(st), n, key, v)
      /\ t.cur # <<>> /\ t.cur[1].name = own
  <2> DEFINE line == q[m]
  <2>1. line \in Line /\ line.kind = "item"
    BY <1>1
  <2> HIDE DEF line
  <2>2. LET u == ReadLine(c, st, line)
        IN /\ StateOK(u)
           /\ NamesIn(Flush(u)) = NamesIn(Flush(st))
           /\ \A n, key, v :
                 Says(Flush(u), n, key, v) <=>
                    IF n = st.cur[1].name /\ key = line.key
                    THEN v = line.val ELSE Says(Flush(st), n, key, v)
           /\ u.cur # <<>> /\ u.cur[1].name = st.cur[1].name
    BY <1>4, <2>1, ReadItem
  <2> QED
    BY <2>2, Zenon DEF line
<1> HIDE DEF t
<1>6. NamesIn(Flush(t)) = {q[h].name : h \in {x \in HeadersIn(q, m) : q[x].class = c}}
  <2>1. NamesIn(Flush(st)) = {q[h].name : h \in {x \in HeadersIn(q, m - 1) : q[x].class = c}}
    BY Zenon DEF ReadOK
  <2> QED
    BY <1>3, <1>5, <2>1
<1>7. ASSUME NEW n, NEW key, NEW v
      PROVE  Says(Flush(t), n, key, v) <=>
                \E l : LastOf(SetsIn(q, c, n, key, m), l) /\ v = q[l].val
  <2>1. Says(Flush(st), n, key, v) <=>
           \E l : LastOf(SetsIn(q, c, n, key, m - 1), l) /\ v = q[l].val
    <3>1. \A i, k, w :
             Says(Flush(st), i, k, w) <=>
                \E l : LastOf(SetsIn(q, c, i, k, m - 1), l) /\ w = q[l].val
      BY Zenon DEF ReadOK
    <3> QED
      BY <3>1
  <2>2. CASE n = own /\ key = q[m].key
    <3> DEFINE L == SetsIn(q, c, n, key, m)
    <3>1. m \in L
      BY <1>1, <1>2, <1>4, <2>2 DEF SetsIn
    <3>2. \A x \in L : x \in 1 .. m
      BY DEF SetsIn
    <3> HIDE DEF L
    <3>3. \A l : LastOf(L, l) <=> l = m
      BY <1>1, <3>1, <3>2 DEF LastOf
    <3> QED
      BY <1>5, <2>2, <3>3, Zenon DEF L
  <2>3. CASE ~ (n = own /\ key = q[m].key)
    <3>1. SetsIn(q, c, n, key, m) = SetsIn(q, c, n, key, m - 1)
      BY <1>1, <1>4, <2>3, SettingsStay
    <3>2. Says(Flush(t), n, key, v) <=> Says(Flush(st), n, key, v)
      BY <1>5, <2>3, Zenon
    <3> QED
      BY <2>1, <3>1, <3>2, Zenon
  <2> QED
    BY <2>2, <2>3
<1>8. /\ t.cur # <<>> <=> HeadersIn(q, m) # {} /\ q[Max(HeadersIn(q, m))].class = c
      /\ t.cur # <<>> => t.cur[1].name = q[Max(HeadersIn(q, m))].name
  BY <1>3, <1>4, <1>5, Zenon
<1>9. StateOK(t)
  BY <1>5
<1>10. ReadOK(q, c, t, m)
  BY <1>6, <1>7, <1>8, <1>9, Zenon DEF ReadOK
<1> QED
  BY <1>10 DEF t

\* Any other line changes nothing.
LEMMA ReadStepOther ==
    ASSUME NEW q \in Seq(Line), NEW m \in 1 .. Len(q), NEW c, NEW st, ReadOK(q, c, st, m - 1),
           q[m].kind # "header", q[m].kind # "item" \/ st.cur = <<>>
    PROVE  ReadOK(q, c, ReadLine(c, st, q[m]), m)
<1>1. m \in Nat /\ m # 0
  OBVIOUS
<1>2. ReadLine(c, st, q[m]) = st
  BY ReadOther
<1>3. HeadersIn(q, m) = HeadersIn(q, m - 1)
  BY <1>1, HeadersStay
<1>4. q[m].kind # "item" \/ HeadersIn(q, m - 1) = {} \/ q[Max(HeadersIn(q, m - 1))].class # c
  BY Zenon DEF ReadOK
<1>5. \A n, key : SetsIn(q, c, n, key, m) = SetsIn(q, c, n, key, m - 1)
  BY <1>1, <1>4, SettingsStay
<1>6. \A n, key, v :
         Says(Flush(st), n, key, v) <=> \E l : LastOf(SetsIn(q, c, n, key, m), l) /\ v = q[l].val
  <2>1. \A n, key, v :
          Says(Flush(st), n, key, v) <=>
             \E l : LastOf(SetsIn(q, c, n, key, m - 1), l) /\ v = q[l].val
    BY Zenon DEF ReadOK
  <2> QED
    BY <1>5, <2>1
<1>7. /\ StateOK(st)
      /\ NamesIn(Flush(st)) = {q[h].name : h \in {x \in HeadersIn(q, m) : q[x].class = c}}
      /\ st.cur # <<>> <=> HeadersIn(q, m) # {} /\ q[Max(HeadersIn(q, m))].class = c
      /\ st.cur # <<>> => st.cur[1].name = q[Max(HeadersIn(q, m))].name
  BY <1>3, Zenon DEF ReadOK
<1>8. ReadOK(q, c, st, m)
  BY <1>6, <1>7, Zenon DEF ReadOK
<1> QED
  BY <1>2, <1>8

\* Whatever the line, as much is read as the file says so far.
LEMMA ReadStep ==
    ASSUME NEW q \in Seq(Line), NEW m \in 1 .. Len(q), NEW c, NEW st, ReadOK(q, c, st, m - 1)
    PROVE  ReadOK(q, c, ReadLine(c, st, q[m]), m)
BY ReadStepHeader, ReadStepItem, ReadStepOther, Zenon

\* The lines that are read are those of the file, but for the last one.
LEMMA LinesAre ==
    ASSUME NEW f \in Files
    PROVE  LET q == Lines(f)
               N == Len(f.lines)
           IN /\ f.lines \in Seq(Line) /\ N \in Nat /\ DOMAIN f.lines = 1 .. N
              /\ q \in Seq(Line) /\ Len(q) \in 0 .. N
              /\ \A l \in 1 .. Len(q) : q[l] = f.lines[l]
              /\ \A l \in 1 .. N : f.lines[l].kind = "header" => l <= Len(q)
              /\ \A l \in 1 .. N : f.lines[l].kind = "item" =>
                                      (l <= Len(q) <=> l < N \/ f.ended)
<1> DEFINE q == Lines(f)
           s == f.lines
           N == Len(s)
           last == ~ f.ended /\ s # <<>> /\ Last(s).kind = "item"
<1>1. s \in Seq(Line)
  BY ConfigAssumption, Zenon
<1>2. N \in Nat /\ DOMAIN s = 1 .. N
  BY <1>1, ElementOfSeq
<1>3. CASE last
  <2>1. s # <<>> /\ s[N].kind = "item" /\ ~ f.ended
    BY <1>3 DEF Last
  <2>2. q = SubSeq(s, 1, N - 1)
    BY <1>3, Zenon DEF Lines, Front
  <2> HIDE DEF q, s
  <2>3. N # 0
    BY <1>1, <2>1, EmptySeq
  <2>4. /\ q \in Seq(Line) /\ Len(q) = N - 1
        /\ \A l \in 1 .. N - 1 : q[l] = s[l]
    <3>1. 1 \in Int /\ N - 1 \in Int /\ \A l \in 1 .. N - 1 : s[l] \in Line
      BY <1>1, <1>2, ElementOfSeq
    <3>2. /\ q \in Seq(Line) /\ Len(q) = IF 1 <= N - 1 THEN (N - 1) - 1 + 1 ELSE 0
          /\ \A l \in 1 .. (N - 1) - 1 + 1 : q[l] = s[1 + l - 1]
      BY <2>2, <3>1, SubSeqProperties
    <3> HIDE DEF N
    <3>3. (N - 1) - 1 + 1 = N - 1 /\ Len(q) = N - 1
      BY <1>2, <2>3, <3>2
    <3>4. ASSUME NEW l \in 1 .. N - 1
          PROVE  q[l] = s[l]
      <4>1. q[l] = s[1 + l - 1] /\ 1 + l - 1 = l
        BY <1>2, <3>2, <3>3
      <4> QED
        BY <4>1
    <3> QED
      BY <3>2, <3>3, <3>4
  <2>5. /\ Len(q) \in 0 .. N
        /\ \A l \in 1 .. Len(q) : q[l] = s[l]
        /\ \A l \in 1 .. N : s[l].kind = "header" => l <= Len(q)
        /\ \A l \in 1 .. N : s[l].kind = "item" => (l <= Len(q) <=> l < N \/ f.ended)
    <3>1. \A l \in 1 .. N : s[l].kind = "header" => l # N
      BY <2>1, Zenon
    <3>2. ASSUME NEW l \in 1 .. N
          PROVE  /\ s[l].kind = "header" => l <= Len(q)
                 /\ s[l].kind = "item" => (l <= Len(q) <=> l < N \/ f.ended)
      <4> HIDE DEF N
      <4>1. l <= Len(q) <=> l # N
        BY <1>2, <2>4
      <4>2. l < N <=> l # N
        BY <1>2
      <4> QED
        BY <2>1, <3>1, <4>1, <4>2, Zenon
    <3> QED
      BY <1>2, <2>3, <2>4, <3>2
  <2> QED
    BY <1>1, <1>2, <2>4, <2>5, Zenon DEF q, s
<1>4. CASE ~ last
  <2>1. q = s
    BY <1>4, Zenon DEF Lines
  <2>2. f.ended \in BOOLEAN
    BY ConfigAssumption, Zenon
  <2>3. s # <<>> => f.ended \/ s[N].kind # "item"
    BY <1>4 DEF Last
  <2> HIDE DEF q, s
  <2>4. N # 0 => s # <<>>
    BY <1>1, EmptySeq
  <2>5. /\ Len(q) \in 0 .. N
        /\ \A l \in 1 .. Len(q) : q[l] = s[l]
        /\ \A l \in 1 .. N : s[l].kind = "header" => l <= Len(q)
    BY <1>2, <2>1
  <2>6. ASSUME NEW l \in 1 .. N, s[l].kind = "item"
        PROVE  l <= Len(q) <=> l < N \/ f.ended
    <3> HIDE DEF N
    <3>1. N # 0 /\ l <= N /\ (l < N \/ l = N)
      BY <1>2
    <3>2. l = N => f.ended
      BY <2>3, <2>4, <2>6, <3>1, Zenon
    <3>3. Len(q) = N
      BY <2>1 DEF N
    <3> QED
      BY <3>1, <3>2, <3>3, Zenon
  <2> QED
    BY <1>1, <1>2, <2>1, <2>5, <2>6, Zenon DEF q, s
<1> QED
  BY <1>3, <1>4


\* Some lines have a last one.
LEMMA LastExists ==
    ASSUME NEW N \in Nat, NEW L \in SUBSET (1 .. N), L # {}
    PROVE  LastOf(L, Max(L))
<1> DEFINE B == {N - x : x \in L}
<1>1. B \in SUBSET Nat /\ B # {}
  <2>1. \A x \in L : x \in 1 .. N
    OBVIOUS
  <2>2. \A x \in 1 .. N : N - x \in Nat
    OBVIOUS
  <2>3. \A x \in L : N - x \in Nat
    BY <2>1, <2>2
  <2>4. B \subseteq Nat
    BY <2>3
  <2> QED
    BY <2>4
<1>2. PICK n \in B : \A m \in Nat : m < n => m \notin B
  <2> HIDE DEF B
  <2> QED
    BY <1>1, LeastMember
<1>3. PICK y \in L : n = N - y
  OBVIOUS
<1>4. ASSUME NEW x \in L
      PROVE  x <= y
  <2>1. x \in 1 .. N /\ y \in 1 .. N
    BY <1>3
  <2>2. N - x \in B /\ N - x \in Nat
    BY <2>1
  <2> HIDE DEF B
  <2>3. ~ (N - x < N - y)
    BY <1>2, <1>3, <2>2
  <2> QED
    BY <2>1, <2>3
<1>5. L \in SUBSET Int
  OBVIOUS
<1>6. Max(L) = y
  BY <1>4, <1>5, MaxIs
<1> QED
  BY <1>4, <1>6 DEF LastOf

\* The sections of class c are as the file is written.
Written(c, r) ==
    /\ r \in Seq(Sect) /\ Distinct(r)
    /\ NamesIn(r) = NamesOf(c)
    /\ \A n, key, v :
          Says(r, n, key, v) <=> \E l : LastOf(Settings(c, n, key), l) /\ v = file.lines[l].val

\* A file is read as it is written: sections that come again are one, and the last
\* of the lines that set a key counts, across all of them (nrdpx_config_t::load).
THEOREM LoadedIs ==
    ASSUME file \in Files, NEW c
    PROVE  Written(c, LoadFromFile(file, c))
<1> DEFINE q == Lines(file)
           s == file.lines
           M == Len(q)
           N == Len(s)
           r == LoadFromFile(file, c)
<1>1. /\ s \in Seq(Line) /\ N \in Nat /\ DOMAIN s = 1 .. N
      /\ q \in Seq(Line) /\ M \in 0 .. N
      /\ \A l \in 1 .. M : q[l] = s[l]
      /\ \A l \in 1 .. N : s[l].kind = "header" => l <= M
      /\ \A l \in 1 .. N : s[l].kind = "item" => (l <= M <=> l < N \/ file.ended)
  BY LinesAre
<1>2. M \in Nat /\ DOMAIN q = 1 .. M
  <2> HIDE DEF q
  <2> QED
    BY <1>1, ElementOfSeq
<1>3. PICK st : /\ st[0] = Start
                /\ \A n \in 1 .. M : st[n] = ReadLine(c, st[n - 1], q[n])
                /\ r = Flush(st[M])
  BY <1>2, LoadSteps
<1> DEFINE B == {n \in 0 .. M : ~ ReadOK(q, c, st[n], n)}
<1>4. B = {}
  <2> SUFFICES ASSUME B # {} PROVE FALSE
    OBVIOUS
  <2>1. PICK n \in B : \A m \in Nat : m < n => m \notin B
    <3>1. B \in SUBSET Nat
      OBVIOUS
    <3> HIDE DEF B
    <3> QED
      BY <3>1, LeastMember
  <2>2. n \in 0 .. M /\ ~ ReadOK(q, c, st[n], n)
    OBVIOUS
  <2>3. CASE n = 0
    BY <1>3, <2>2, <2>3, ReadStart
  <2>4. CASE n # 0
    <3> HIDE DEF q
    <3>1. n \in 1 .. M /\ n - 1 \in 0 .. M /\ n - 1 \in Nat /\ n - 1 < n
      BY <1>2, <2>2, <2>4
    <3>2. ReadOK(q, c, st[n - 1], n - 1)
      BY <2>1, <3>1
    <3>3. ReadOK(q, c, ReadLine(c, st[n - 1], q[n]), n)
      BY <1>1, <3>1, <3>2, ReadStep
    <3> QED
      BY <1>3, <2>2, <3>1, <3>3
  <2> QED
    BY <2>3, <2>4
<1>5. ReadOK(q, c, st[M], M)
  <2>1. M \in 0 .. M
    BY <1>2
  <2> QED
    BY <1>4, <2>1
<1> HIDE DEF r, q
<1>6. ASSUME NEW l \in 1 .. M
      PROVE  HeadersIn(q, l - 1) = HeadersBefore(l)
  <2>1. \A h \in 1 .. l - 1 : h \in 1 .. M
    BY <1>2
  <2> HIDE DEF M
  <2> QED
    BY <1>1, <2>1 DEF HeadersIn, HeadersBefore
<1>7. ASSUME NEW n, NEW key
      PROVE  SetsIn(q, c, n, key, M) = Settings(c, n, key)
  <2>1. ASSUME NEW l \in SetsIn(q, c, n, key, M)
        PROVE  l \in Settings(c, n, key)
    <3>1. l \in 1 .. M /\ q[l].kind = "item" /\ q[l].key = key /\ HeadersIn(q, l - 1) # {}
          /\ q[Max(HeadersIn(q, l - 1))].class = c /\ q[Max(HeadersIn(q, l - 1))].name = n
      BY DEF SetsIn
    <3> HIDE DEF M, N, s
    <3>2. l \in 1 .. N /\ q[l] = s[l]
      BY <1>1, <1>2, <3>1
    <3>3. l <= M
      BY <1>2, <3>1
    <3>4. l < N \/ file.ended
      BY <1>1, <3>1, <3>2, <3>3, Zenon
    <3>5. HeadersBefore(l) = HeadersIn(q, l - 1)
      BY <1>6, <3>1
    <3> DEFINE h == Max(HeadersBefore(l))
    <3>6. q[h] = s[h]
      <4>1. HeadersBefore(l) \subseteq 1 .. l - 1
        BY DEF HeadersBefore
      <4>2. h \in 1 .. l - 1
        <5> HIDE DEF h
        <5>1. l - 1 \in Nat
          BY <1>2, <3>1
        <5> QED
          BY <3>1, <3>5, <4>1, <5>1, LastExists DEF h, LastOf
      <4> QED
        BY <1>1, <1>2, <3>1, <4>2
    <3>7. s[h].class = c /\ s[h].name = n /\ HeadersBefore(l) # {}
      BY <3>1, <3>5, <3>6, Zenon
    <3>8. l \in LineNos
      BY <1>1, <3>2, <3>4, Zenon DEF LineNos, s, N
    <3>9. file.lines[l].kind = "item" /\ file.lines[l].key = key
      BY <3>1, <3>2, Zenon DEF s
    <3> QED
      BY <3>7, <3>8, <3>9, Zenon DEF Settings, s
  <2>2. ASSUME NEW l \in Settings(c, n, key)
        PROVE  l \in SetsIn(q, c, n, key, M)
    <3> DEFINE h == Max(HeadersBefore(l))
    <3>1. /\ l \in LineNos /\ s[l].kind = "item" /\ s[l].key = key /\ HeadersBefore(l) # {}
          /\ s[h].class = c /\ s[h].name = n
      BY Zenon DEF Settings
    <3>2. l \in 1 .. N /\ (l < N \/ file.ended)
      BY <1>1, <3>1, Zenon DEF LineNos
    <3>3. l <= M
      BY <1>1, <3>1, <3>2, Zenon
    <3>4. l \in 1 .. M
      <4> HIDE DEF M, N
      <4> QED
        BY <1>1, <1>2, <3>2, <3>3
    <3>5. HeadersBefore(l) = HeadersIn(q, l - 1) /\ q[l] = s[l]
      BY <1>1, <1>6, <3>4
    <3>6. q[h] = s[h]
      <4>1. HeadersBefore(l) \subseteq 1 .. l - 1
        BY DEF HeadersBefore
      <4>2. h \in 1 .. l - 1
        <5> HIDE DEF h
        <5>1. l - 1 \in Nat
          BY <1>2, <3>4
        <5> QED
          BY <3>1, <4>1, <5>1, LastExists DEF h, LastOf
      <4> QED
        BY <1>1, <1>2, <3>4, <4>2
    <3> HIDE DEF M, s
    <3> QED
      BY <3>1, <3>4, <3>5, <3>6, Zenon DEF SetsIn
  <2> QED
    BY <2>1, <2>2
<1>8. \A n, key, v :
         Says(r, n, key, v) <=> \E l : LastOf(Settings(c, n, key), l) /\ v = s[l].val
  <2> SUFFICES ASSUME NEW n, NEW key, NEW v
               PROVE  Says(r, n, key, v) <=>
                         \E l : LastOf(Settings(c, n, key), l) /\ v = s[l].val
    OBVIOUS
  <2>1. Says(r, n, key, v) <=> \E l : LastOf(SetsIn(q, c, n, key, M), l) /\ v = q[l].val
    <3>1. \A i, k, w :
             Says(Flush(st[M]), i, k, w) <=>
                \E l : LastOf(SetsIn(q, c, i, k, M), l) /\ w = q[l].val
      BY <1>5, Zenon DEF ReadOK
    <3> QED
      BY <1>3, <3>1
  <2>2. \A l \in SetsIn(q, c, n, key, M) : q[l] = s[l]
    BY <1>1 DEF SetsIn
  <2>3. \A l : LastOf(SetsIn(q, c, n, key, M), l) => q[l] = s[l]
    BY <2>2 DEF LastOf
  <2>4. SetsIn(q, c, n, key, M) = Settings(c, n, key)
    BY <1>7
  <2> QED
    BY <2>1, <2>3, <2>4
<1>9. NamesIn(r) = NamesOf(c)
  <2>1. NamesIn(r) = {q[h].name : h \in {x \in HeadersIn(q, M) : q[x].class = c}}
    BY <1>3, <1>5, Zenon DEF ReadOK
  <2>2. NamesOf(c) = {s[h].name : h \in {x \in 1 .. N : s[x].kind = "header" /\ s[x].class = c}}
    BY <1>1 DEF NamesOf, ToSet
  <2>3. {x \in HeadersIn(q, M) : q[x].class = c}
          = {x \in 1 .. N : s[x].kind = "header" /\ s[x].class = c}
    <3>1. ASSUME NEW x \in 1 .. N, s[x].kind = "header"
          PROVE  x \in 1 .. M
      BY <1>1, <1>2, <3>1
    <3>2. \A x \in 1 .. M : x \in 1 .. N
      BY <1>1, <1>2
    <3> HIDE DEF M, N, s
    <3> QED
      BY <1>1, <3>1, <3>2 DEF HeadersIn
  <2>4. \A x \in HeadersIn(q, M) : q[x] = s[x]
    BY <1>1 DEF HeadersIn
  <2> QED
    BY <2>1, <2>2, <2>3, <2>4
<1>10. r \in Seq(Sect) /\ Distinct(r)
  <2>1. StateOK(st[M])
    BY <1>5, Zenon DEF ReadOK
  <2> QED
    BY <1>3, <2>1, FlushIs
<1>11. Written(c, r)
  BY <1>8, <1>9, <1>10, Zenon DEF Written
<1> QED
  BY <1>11 DEF r

-----------------------------------------------------------------------------
(* What a section says. *)

\* The elements of a sequence.
LEMMA ToSetIs ==
    ASSUME NEW V, NEW q \in Seq(V)
    PROVE  /\ ToSet(q) = {q[j] : j \in 1 .. Len(q)} /\ ToSet(q) \subseteq V
           /\ DOMAIN q = 1 .. Len(q) /\ Len(q) \in Nat
           /\ q = <<>> <=> ToSet(q) = {}
           /\ q # <<>> => q[1] \in ToSet(q)
<1>1. Len(q) \in Nat /\ DOMAIN q = 1 .. Len(q) /\ \A n \in 1 .. Len(q) : q[n] \in V
  BY ElementOfSeq
<1>2. ToSet(q) = {q[j] : j \in 1 .. Len(q)}
  BY <1>1 DEF ToSet
<1>3. q # <<>> => 1 \in 1 .. Len(q)
  BY <1>1, EmptySeq
<1>4. q = <<>> => 1 .. Len(q) = {}
  BY <1>1, EmptySeq
<1> QED
  BY <1>1, <1>2, <1>3, <1>4

\* The last setting of a key.
LEMMA SettingsAre ==
    ASSUME file \in Files, NEW c, NEW n, NEW key
    PROVE  LET L == Settings(c, n, key)
           IN /\ L # {} => /\ LastOf(L, Max(L)) /\ file.lines[Max(L)].val \in Value
                           /\ file.lines[Max(L)].kind = "item"
              /\ \A l : LastOf(L, l) => l = Max(L)
              /\ Words(c, n, key) \in Seq(STRING \ {""})
<1> DEFINE L == Settings(c, n, key)
           N == Len(file.lines)
<1>1. /\ file.lines \in Seq(Line) /\ N \in Nat /\ DOMAIN file.lines = 1 .. N
  BY LinesAre
<1>2. L \in SUBSET (1 .. N)
  BY <1>1 DEF Settings, LineNos
<1>3. \A l \in L : file.lines[l].kind = "item"
  BY DEF Settings
<1> HIDE DEF L
<1>4. \A l : LastOf(L, l) => l = Max(L)
  <2> SUFFICES ASSUME NEW l, LastOf(L, l) PROVE l = Max(L)
    OBVIOUS
  <2>1. l \in L /\ L \in SUBSET Int /\ \A x \in L : x <= l
    BY <1>2 DEF LastOf
  <2> QED
    BY <2>1, MaxIs
<1>5. ASSUME L # {}
      PROVE  LastOf(L, Max(L)) /\ file.lines[Max(L)].val \in Value /\ file.lines[Max(L)].kind = "item"
  <2>1. LastOf(L, Max(L))
    <3> HIDE DEF N
    <3> QED
      BY <1>1, <1>2, <1>5, LastExists
  <2>2. Max(L) \in L
    BY <2>1 DEF LastOf
  <2> DEFINE m == Max(L)
             line == file.lines[m]
  <2>3. line \in Line /\ line.kind = "item"
    <3>1. m \in 1 .. N /\ m \in L
      BY <1>2, <2>2
    <3> HIDE DEF m
    <3> QED
      BY <1>1, <1>3, <3>1, ElementOfSeq
  <2> HIDE DEF line
  <2>4. line.val \in Value
    BY <2>3, LineIs
  <2> QED
    BY <2>1, <2>3, <2>4 DEF line
<1>6. Words(c, n, key) \in Seq(STRING \ {""})
  <2>1. Words(c, n, key) = IF L = {} THEN <<>> ELSE file.lines[Max(L)].val.list
    BY Zenon DEF Words, L
  <2>2. L # {} => file.lines[Max(L)].val.list \in Seq(STRING \ {""})
    <3> DEFINE v == file.lines[Max(L)].val
    <3>1. L # {} => v \in Value
      BY <1>5
    <3> HIDE DEF v
    <3>2. v \in Value => v.list \in Seq(STRING \ {""})
      BY DEF Value
    <3> QED
      BY <3>1, <3>2 DEF v
  <2>3. <<>> \in Seq(STRING \ {""})
    BY EmptySeq
  <2> QED
    BY <2>1, <2>2, <2>3, Zenon
<1> QED
  BY <1>4, <1>5, <1>6, Zenon DEF L

\* A section that was read says what its last settings say.
LEMMA SectionIs ==
    ASSUME file \in Files, NEW c, NEW r, Written(c, r), NEW j \in DOMAIN r, NEW key
    PROVE  LET sc == r[j]
               L  == Settings(c, sc.name, key)
           IN /\ sc.name \in STRING
              /\ Has(sc, key) <=> L # {}
              /\ Has(sc, key) => sc.items[key] = file.lines[Max(L)].val /\ sc.items[key] \in Value
<1> DEFINE sc == r[j]
           n  == sc.name
           L  == Settings(c, n, key)
           m  == Max(L)
<1>1. /\ r \in Seq(Sect) /\ Distinct(r)
      /\ \A v : Says(r, n, key, v) <=> \E l : LastOf(L, l) /\ v = file.lines[l].val
  <2>1. \A i, k, v : Says(r, i, k, v) <=> \E l : LastOf(Settings(c, i, k), l) /\ v = file.lines[l].val
    BY Zenon DEF Written
  <2>2. r \in Seq(Sect) /\ Distinct(r)
    BY DEF Written
  <2> QED
    BY <2>1, <2>2
<1>2. n \in STRING
  <2>1. sc \in Sect
    BY <1>1, ElementOfSeq
  <2> QED
    BY <2>1 DEF Sect
<1>3. /\ L # {} => LastOf(L, m) /\ file.lines[m].val \in Value
      /\ \A l : LastOf(L, l) => l = m
  BY SettingsAre
<1>4. \A v : Says(r, n, key, v) <=> Has(sc, key) /\ sc.items[key] = v
  <2>1. \A i \in DOMAIN r : r[i].name = n => i = j
    BY <1>1, Zenon DEF Distinct
  <2> QED
    BY <2>1 DEF Says, Has
<1> HIDE DEF sc, n, L, m
<1>5. Has(sc, key) => LastOf(L, m) /\ sc.items[key] = file.lines[m].val
  <2> SUFFICES ASSUME Has(sc, key)
               PROVE  LastOf(L, m) /\ sc.items[key] = file.lines[m].val
    OBVIOUS
  <2>1. PICK l : LastOf(L, l) /\ sc.items[key] = file.lines[l].val
    BY <1>1, <1>4
  <2> QED
    BY <1>3, <2>1
<1>6. L # {} => Has(sc, key)
  BY <1>1, <1>3, <1>4
<1>7. LastOf(L, m) => L # {}
  BY DEF LastOf
<1> QED
  BY <1>2, <1>3, <1>5, <1>6, <1>7, Zenon DEF sc, n, L, m

\* The words of a key are those of its last setting; an empty value is one empty word.
LEMMA StringsAre ==
    ASSUME file \in Files, NEW c, NEW r, Written(c, r), NEW j \in DOMAIN r, NEW key
    PROVE  LET sc == r[j]
               ws == Words(c, sc.name, key)
           IN /\ GetStrings(sc, key) = IF ~ Has(sc, key) THEN <<>> ELSE IF ws = <<>> THEN <<"">> ELSE ws
              /\ GetStrings(sc, key) \in Seq(STRING \cup {""})
              /\ \A w : w \in ToSet(ws) <=> w # "" /\ w \in ToSet(GetStrings(sc, key))
              /\ Has(sc, key) => GetStrings(sc, key) # <<>>
<1> DEFINE sc == r[j]
           L  == Settings(c, sc.name, key)
           ws == Words(c, sc.name, key)
           gs == GetStrings(sc, key)
<1>1. /\ Has(sc, key) <=> L # {}
      /\ Has(sc, key) => sc.items[key] = file.lines[Max(L)].val
  BY SectionIs
<1>2. ws = IF L = {} THEN <<>> ELSE file.lines[Max(L)].val.list
  BY Zenon DEF Words
<1>3. ws \in Seq(STRING \ {""})
  BY SettingsAre
<1>4. gs = IF ~ Has(sc, key) THEN <<>> ELSE IF sc.items[key].list = <<>> THEN <<"">>
           ELSE sc.items[key].list
  BY Zenon DEF GetStrings
<1> HIDE DEF sc, L, ws, gs
<1>5. gs = IF ~ Has(sc, key) THEN <<>> ELSE IF ws = <<>> THEN <<"">> ELSE ws
  <2>1. CASE Has(sc, key)
    <3>1. sc.items[key].list = ws
      BY <1>1, <1>2, <2>1
    <3> QED
      BY <1>4, <2>1, <3>1
  <2>2. CASE ~ Has(sc, key)
    BY <1>4, <2>2
  <2> QED
    BY <2>1, <2>2
<1>6. ~ Has(sc, key) => ws = <<>>
  BY <1>1, <1>2, Zenon
<1>7. ToSet(<<>>) = {} /\ ToSet(<<"">>) = {""} /\ <<"">> \in Seq(STRING \cup {""}) /\ <<>> \in Seq(STRING \cup {""})
      /\ <<"">> # <<>>
  <2>1. DOMAIN <<>> = {} /\ DOMAIN <<"">> = {1} /\ <<"">>[1] = ""
    OBVIOUS
  <2>2. ToSet(<<>>) = {} /\ ToSet(<<"">>) = {""}
    BY <2>1 DEF ToSet
  <2>3. <<"">> \in Seq(STRING \cup {""}) /\ <<"">> # <<>>
    BY <2>1
  <2>4. <<>> \in Seq(STRING \cup {""})
    BY EmptySeq
  <2> QED
    BY <2>2, <2>3, <2>4
<1>8. ToSet(ws) \subseteq STRING \ {""} /\ ws \in Seq(STRING \cup {""})
  <2>1. ToSet(ws) \subseteq STRING \ {""}
    BY <1>3, ToSetIs
  <2>2. ws \in Seq(STRING \cup {""})
    BY <1>3, SeqMonotonic
  <2> QED
    BY <2>1, <2>2
<1>9. ToSet(gs) \ {""} = ToSet(ws) /\ gs \in Seq(STRING \cup {""}) /\ (Has(sc, key) => gs # <<>>)
  <2>1. CASE ~ Has(sc, key)
    <3>1. gs = <<>> /\ ws = <<>>
      BY <1>5, <1>6, <2>1, Zenon
    <3> QED
      BY <1>7, <2>1, <3>1
  <2>2. CASE Has(sc, key) /\ ws = <<>>
    <3>1. gs = <<"">>
      BY <1>5, <2>2, Zenon
    <3> QED
      BY <1>7, <2>2, <3>1
  <2>3. CASE Has(sc, key) /\ ws # <<>>
    <3>1. gs = ws
      BY <1>5, <2>3, Zenon
    <3> QED
      BY <1>8, <2>3, <3>1
  <2> QED
    BY <2>1, <2>2, <2>3
<1>10. \A w : w \in ToSet(ws) <=> w # "" /\ w \in ToSet(gs)
  BY <1>9
<1> QED
  BY <1>5, <1>9, <1>10, Zenon DEF sc, ws, gs

\* The number of a key is that of its last setting, or the default.
LEMMA IntegerIs ==
    ASSUME file \in Files, NEW c, NEW r, Written(c, r), NEW j \in DOMAIN r, NEW key, NEW d \in Int
    PROVE  LET sc == r[j]
               L  == Settings(c, sc.name, key)
               v  == file.lines[Max(L)].val
           IN /\ GetInteger(sc, key, d) = IF L = {} \/ v.list = <<>> THEN d ELSE v.num
              /\ GetInteger(sc, key, d) \in Int
<1> DEFINE sc == r[j]
           L  == Settings(c, sc.name, key)
           v  == file.lines[Max(L)].val
<1>1. /\ Has(sc, key) <=> L # {}
      /\ Has(sc, key) => sc.items[key] = v /\ v \in Value
  BY SectionIs
<1>2. GetInteger(sc, key, d) = IF ~ Has(sc, key) \/ sc.items[key].list = <<>> THEN d
                               ELSE sc.items[key].num
  BY Zenon DEF GetInteger
<1> HIDE DEF sc, L, v
<1>3. v \in Value => v.num \in Int
  BY DEF Value
<1>4. GetInteger(sc, key, d) = IF L = {} \/ v.list = <<>> THEN d ELSE v.num
  BY <1>1, <1>2, Zenon
<1>5. GetInteger(sc, key, d) \in Int
  BY <1>1, <1>3, <1>4
<1> QED
  BY <1>4, <1>5, Zenon DEF sc, L, v

OneEmpty == <<"">>

\* The words of a key, as an equation.
LEMMA StringsEqual ==
    ASSUME file \in Files, NEW c, NEW r, Written(c, r), NEW j \in DOMAIN r, NEW key
    PROVE  GetStrings(r[j], key) = IF ~ Has(r[j], key) THEN <<>>
                                   ELSE IF Words(c, r[j].name, key) = <<>> THEN OneEmpty
                                   ELSE Words(c, r[j].name, key)
<1> DEFINE sc == r[j]
           ws == Words(c, sc.name, key)
           gs == GetStrings(sc, key)
<1>1. /\ gs = IF ~ Has(sc, key) THEN <<>> ELSE IF ws = <<>> THEN <<"">> ELSE ws
      /\ gs \in Seq(STRING \cup {""})
      /\ \A w : w \in ToSet(ws) <=> w # "" /\ w \in ToSet(gs)
      /\ Has(sc, key) => gs # <<>>
  BY StringsAre
<1> QED
  BY <1>1, Zenon DEF OneEmpty

Number(c, n, key, d) ==
    LET L == Settings(c, n, key)
    IN IF L = {} \/ file.lines[Max(L)].val.list = <<>> THEN d ELSE file.lines[Max(L)].val.num

\* The number of a key, as an equation.
LEMMA IntegerEqual ==
    ASSUME file \in Files, NEW c, NEW r, Written(c, r), NEW j \in DOMAIN r, NEW key, NEW d
    PROVE  GetInteger(r[j], key, d) = Number(c, r[j].name, key, d)
<1> DEFINE sc == r[j]
           L  == Settings(c, sc.name, key)
           v  == file.lines[Max(L)].val
<1>1. /\ Has(sc, key) <=> L # {}
      /\ Has(sc, key) => sc.items[key] = v /\ v \in Value
  BY SectionIs
<1>2. GetInteger(sc, key, d) = IF ~ Has(sc, key) \/ sc.items[key].list = <<>> THEN d
                               ELSE sc.items[key].num
  BY Zenon DEF GetInteger
<1>3. Number(c, sc.name, key, d) = IF L = {} \/ v.list = <<>> THEN d ELSE v.num
  BY Zenon DEF Number
<1> HIDE DEF sc, L, v
<1>4. GetInteger(sc, key, d) = IF L = {} \/ v.list = <<>> THEN d ELSE v.num
  BY <1>1, <1>2, Zenon
<1> QED
  BY <1>3, <1>4, Zenon DEF sc

\* A switch is on or off.
LEMMA BooleanIs ==
    ASSUME NEW sc, NEW key, NEW d \in BOOLEAN
    PROVE  GetBoolean(sc, key, d) \in BOOLEAN
<1> DEFINE ws == sc.items[key].list
<1>1. GetBoolean(sc, key, d) = IF ~ Has(sc, key) \/ ws = <<>> THEN d
                               ELSE ws \in {<<"true">>, <<"yes">>, <<"1">>}
  BY Zenon DEF GetBoolean
<1>2. (ws \in {<<"true">>, <<"yes">>, <<"1">>}) \in BOOLEAN
  OBVIOUS
<1> HIDE DEF ws
<1>3. CASE ~ Has(sc, key) \/ ws = <<>>
  BY <1>1, <1>3
<1>4. CASE ~ (~ Has(sc, key) \/ ws = <<>>)
  BY <1>1, <1>2, <1>4
<1> QED
  BY <1>3, <1>4

-----------------------------------------------------------------------------
(* What is made of a section. *)

\* A number that was raised to a least one.
LEMMA AtLeastIs ==
    ASSUME NEW v \in Int, NEW low \in Int
    PROVE  AtLeast(low, v) \in Int /\ AtLeast(low, v) >= low
BY DEF AtLeast

Served == [host : (STRING \cup {"0.0.0.0", "[::]"}) \ {""}, port : Int \ {0}]

Options ==
    [listeners : Seq(Served), info_enabled : BOOLEAN, info_port : Int, info_period : Int,
     status_period : Int, cache_timeout : Int, conn_timeout : Int, max_faults : Int,
     socket_mode : Int, buffer_mode : Int, max_buffer : Int]

OptionsOK(p) ==
    /\ p \in Options
    /\ p.conn_timeout \in 10 .. 900
    /\ p.cache_timeout \in Int /\ (p.cache_timeout = 0 \/ p.cache_timeout >= 5)
    /\ p.max_faults \in Int /\ p.max_faults >= 1
    /\ p.info_period \in Int /\ p.info_period >= 10
    /\ p.status_period \in Int /\ p.status_period >= 60
    /\ p.socket_mode \in SYSTEM .. MAXBUF /\ p.buffer_mode \in SYSTEM .. MAXBUF
    /\ p.max_buffer \in BUFFER_SIZE_MIN .. BUFFER_SIZE_MAX
    /\ p.info_enabled \in BOOLEAN
    /\ p.listeners \in Seq(Served)

\* A listener has a host and a port, whatever is said of it.
LEMMA ListenerIs ==
    ASSUME NEW word
    PROVE  Listener(word) \in Served
<1> DEFINE a == ParseHostPort(word, 0)
<1>1. CASE word \notin DOMAIN AddrText
  <2>1. a = [host |-> "", port |-> 0]
    BY <1>1, Zenon DEF ParseHostPort
  <2> HIDE DEF a
  <2>2. a.host = "" /\ a.port = 0
    BY <2>1
  <2>3. Listener(word) = [host |-> "0.0.0.0", port |-> CONN_PORT]
    BY <2>2, Zenon DEF Listener, a
  <2> QED
    BY <2>3 DEF Served, CONN_PORT
<1>2. CASE word \in DOMAIN AddrText
  <2> DEFINE t == AddrText[word]
  <2>1. t.host \in STRING /\ t.port \in Int
    BY <1>2, ConfigAssumption, Zenon
  <2>2. a = [host |-> t.host, port |-> IF t.port = -1 THEN 0 ELSE t.port]
    BY <1>2, Zenon DEF ParseHostPort
  <2> HIDE DEF t
  <2>3. a.host \in STRING /\ a.port \in Int
    BY <2>1, <2>2
  <2>4. Listener(word) = [host |-> IF a.host = "" THEN "0.0.0.0" ELSE a.host,
                          port |-> IF a.port = 0 THEN CONN_PORT ELSE a.port]
    BY Zenon DEF Listener
  <2> HIDE DEF a
  <2> DEFINE h == IF a.host = "" THEN "0.0.0.0" ELSE a.host
             p == IF a.port = 0 THEN CONN_PORT ELSE a.port
  <2>5. h \in (STRING \cup {"0.0.0.0", "[::]"}) \ {""}
    BY <2>3
  <2>6. p \in Int \ {0}
    BY <2>3 DEF CONN_PORT
  <2> HIDE DEF h, p
  <2>7. [host |-> h, port |-> p] \in Served
    BY <2>5, <2>6 DEF Served
  <2> QED
    BY <2>4, <2>7 DEF h, p
<1> QED
  BY <1>1, <1>2

\* So have those of a file that names none.
LEMMA DefaultListenersAre == DefaultListeners \in Seq(Served)
<1> DEFINE H == (STRING \cup {"0.0.0.0", "[::]"}) \ {""}
<1>1. "0.0.0.0" \in H /\ "[::]" \in H
  BY Zenon
<1>2. CONN_PORT \in Int \ {0}
  BY DEF CONN_PORT
<1>3. Served = [host : H, port : Int \ {0}]
  BY Zenon DEF Served
<1> HIDE DEF H
<1>4. /\ [host |-> "0.0.0.0", port |-> CONN_PORT] \in Served
      /\ [host |-> "[::]", port |-> CONN_PORT] \in Served
  BY <1>1, <1>2, <1>3
<1> HIDE DEF Served
<1> QED
  BY <1>4 DEF DefaultListeners

\* The default options are within bounds.
LEMMA DefaultOK == OptionsOK(DefaultProxy)
<1>1. <<>> \in Seq(Served)
  BY EmptySeq
<1> QED
  BY <1>1 DEF OptionsOK, Options, DefaultProxy, INFO_PORT, SYSTEM, MAXBUF, BUFFER_SIZE_MIN, BUFFER_SIZE_MAX

\* Options are brought within bounds, whatever the file says of them.
LEMMA LoadProxyIs ==
    ASSUME file \in Files, NEW c, NEW r, Written(c, r), NEW j \in DOMAIN r
    PROVE  OptionsOK(LoadProxy(r[j]))
<1> DEFINE sc == r[j]
           p  == LoadProxy(sc)
           enabled == GetBoolean(sc, "info_enabled", DefaultProxy.info_enabled)
           timeout == GetInteger(sc, "cache_timeout", DefaultProxy.cache_timeout)
           ls == IF Has(sc, "listeners")
                 THEN [i \in DOMAIN GetStrings(sc, "listeners") |->
                          Listener(GetStrings(sc, "listeners")[i])]
                 ELSE DefaultListeners
<1>1. \A key : \A d \in Int : GetInteger(sc, key, d) \in Int
  BY IntegerIs
<1>2. enabled \in BOOLEAN
  <2>1. DefaultProxy.info_enabled \in BOOLEAN
    BY DEF DefaultProxy
  <2> QED
    BY <2>1, BooleanIs
<1>3. ls \in Seq(Served)
  <2>1. CASE Has(sc, "listeners")
    <3> DEFINE ws == GetStrings(sc, "listeners")
    <3>1. ws \in Seq(STRING \cup {""})
      BY StringsAre
    <3>2. Len(ws) \in Nat /\ DOMAIN ws = 1 .. Len(ws)
      <4> HIDE DEF ws
      <4> QED
        BY <3>1, LenProperties
    <3>3. ls = [i \in 1 .. Len(ws) |-> Listener(ws[i])]
      BY <2>1, <3>2, Zenon
    <3> HIDE DEF ws, ls
    <3>4. \A i \in 1 .. Len(ws) : Listener(ws[i]) \in Served
      BY ListenerIs
    <3> QED
      BY <3>2, <3>3, <3>4
  <2>2. CASE ~ Has(sc, "listeners")
    <3>1. ls = DefaultListeners
      BY <2>2, Zenon
    <3> HIDE DEF ls
    <3> QED
      BY <3>1, DefaultListenersAre
  <2> QED
    BY <2>1, <2>2
<1>4. p = [DefaultProxy EXCEPT
        !.listeners = ls,
        !.info_enabled = enabled,
        !.info_port = IF enabled THEN GetInteger(sc, "info_port", @) ELSE @,
        !.info_period = IF enabled THEN AtLeast(10, GetInteger(sc, "info_period", @)) ELSE @,
        !.status_period = AtLeast(60, GetInteger(sc, "status_period", @)),
        !.cache_timeout = IF timeout = 0 THEN 0 ELSE AtLeast(5, timeout),
        !.conn_timeout = Fit(GetInteger(sc, "conn_timeout", @), 10, 900),
        !.max_faults = AtLeast(1, GetInteger(sc, "max_faults", @)),
        !.socket_mode = Fit(GetInteger(sc, "socket_mode", @), SYSTEM, MAXBUF),
        !.buffer_mode = Fit(GetInteger(sc, "buffer_mode", @), SYSTEM, MAXBUF),
        !.max_buffer = Fit(GetInteger(sc, "max_buffer", @), BUFFER_SIZE_MIN, BUFFER_SIZE_MAX)]
  BY Zenon DEF LoadProxy
<1> HIDE DEF p, ls, enabled
<1>5. /\ p = [listeners |-> p.listeners, info_enabled |-> p.info_enabled,
              info_port |-> p.info_port, info_period |-> p.info_period,
              status_period |-> p.status_period, cache_timeout |-> p.cache_timeout,
              conn_timeout |-> p.conn_timeout, max_faults |-> p.max_faults,
              socket_mode |-> p.socket_mode, buffer_mode |-> p.buffer_mode,
              max_buffer |-> p.max_buffer]
      /\ p.listeners = ls /\ p.info_enabled = enabled
      /\ p.info_port = IF enabled THEN GetInteger(sc, "info_port", INFO_PORT) ELSE INFO_PORT
      /\ p.info_period = IF enabled THEN AtLeast(10, GetInteger(sc, "info_period", 15)) ELSE 15
      /\ p.status_period = AtLeast(60, GetInteger(sc, "status_period", 300))
      /\ p.cache_timeout = IF timeout = 0 THEN 0 ELSE AtLeast(5, timeout)
      /\ p.conn_timeout = Fit(GetInteger(sc, "conn_timeout", 30), 10, 900)
      /\ p.max_faults = AtLeast(1, GetInteger(sc, "max_faults", 2))
      /\ p.socket_mode = Fit(GetInteger(sc, "socket_mode", SYSTEM), SYSTEM, MAXBUF)
      /\ p.buffer_mode = Fit(GetInteger(sc, "buffer_mode", SYSTEM), SYSTEM, MAXBUF)
      /\ p.max_buffer = Fit(GetInteger(sc, "max_buffer", BUFFER_SIZE_MAX), BUFFER_SIZE_MIN,
                            BUFFER_SIZE_MAX)
  BY <1>4, ZenonT(60) DEF DefaultProxy
<1>6. timeout \in Int
  <2>1. DefaultProxy.cache_timeout \in Int
    BY DEF DefaultProxy
  <2> QED
    BY <1>1, <2>1
<1> HIDE DEF timeout
<1>7. /\ SYSTEM \in Int /\ MAXBUF \in Int /\ SYSTEM <= MAXBUF
      /\ BUFFER_SIZE_MIN \in Int /\ BUFFER_SIZE_MAX \in Int /\ BUFFER_SIZE_MIN <= BUFFER_SIZE_MAX
  BY DEF SYSTEM, MAXBUF, BUFFER_SIZE_MIN, BUFFER_SIZE_MAX
<1>8. /\ p.conn_timeout \in 10 .. 900 /\ p.socket_mode \in SYSTEM .. MAXBUF
      /\ p.buffer_mode \in SYSTEM .. MAXBUF /\ p.max_buffer \in BUFFER_SIZE_MIN .. BUFFER_SIZE_MAX
      /\ p.status_period \in Int /\ p.status_period >= 60
      /\ p.max_faults \in Int /\ p.max_faults >= 1
  <2> DEFINE ct == GetInteger(sc, "conn_timeout", 30)
             sm == GetInteger(sc, "socket_mode", SYSTEM)
             bm == GetInteger(sc, "buffer_mode", SYSTEM)
             mb == GetInteger(sc, "max_buffer", BUFFER_SIZE_MAX)
             sp == GetInteger(sc, "status_period", 300)
             mf == GetInteger(sc, "max_faults", 2)
  <2>1. ct \in Int /\ sm \in Int /\ bm \in Int /\ mb \in Int /\ sp \in Int /\ mf \in Int
    BY <1>1, <1>7
  <2>2. /\ p.conn_timeout = Fit(ct, 10, 900) /\ p.socket_mode = Fit(sm, SYSTEM, MAXBUF)
        /\ p.buffer_mode = Fit(bm, SYSTEM, MAXBUF)
        /\ p.max_buffer = Fit(mb, BUFFER_SIZE_MIN, BUFFER_SIZE_MAX)
        /\ p.status_period = AtLeast(60, sp) /\ p.max_faults = AtLeast(1, mf)
    BY <1>5
  <2> HIDE DEF ct, sm, bm, mb, sp, mf
  <2>3. /\ Fit(ct, 10, 900) \in 10 .. 900 /\ Fit(sm, SYSTEM, MAXBUF) \in SYSTEM .. MAXBUF
        /\ Fit(bm, SYSTEM, MAXBUF) \in SYSTEM .. MAXBUF
        /\ Fit(mb, BUFFER_SIZE_MIN, BUFFER_SIZE_MAX) \in BUFFER_SIZE_MIN .. BUFFER_SIZE_MAX
    BY <1>7, <2>1 DEF Fit
  <2>4. /\ AtLeast(60, sp) \in Int /\ AtLeast(60, sp) >= 60
        /\ AtLeast(1, mf) \in Int /\ AtLeast(1, mf) >= 1
    BY <2>1, AtLeastIs
  <2> QED
    BY <2>2, <2>3, <2>4
<1>10. p.info_period \in Int /\ p.info_period >= 10
  <2>1. AtLeast(10, GetInteger(sc, "info_period", 15)) \in Int
        /\ AtLeast(10, GetInteger(sc, "info_period", 15)) >= 10
    BY <1>1, AtLeastIs
  <2> QED
    BY <1>2, <1>5, <2>1
<1>11. p.cache_timeout \in Int /\ (p.cache_timeout = 0 \/ p.cache_timeout >= 5)
  <2>1. AtLeast(5, timeout) \in Int /\ AtLeast(5, timeout) >= 5
    BY <1>6, AtLeastIs
  <2> QED
    BY <1>5, <2>1
<1>12. p.info_port \in Int
  <2>1. INFO_PORT \in Int
    BY DEF INFO_PORT
  <2> QED
    BY <1>1, <1>2, <1>5, <2>1
<1>13. p \in Options
  <2>1. /\ p.listeners \in Seq(Served) /\ p.info_enabled \in BOOLEAN
        /\ p.conn_timeout \in Int /\ p.socket_mode \in Int /\ p.buffer_mode \in Int
        /\ p.max_buffer \in Int
    <3>1. \A low, high \in Int : low .. high \subseteq Int
      OBVIOUS
    <3>2. p.conn_timeout \in Int /\ p.socket_mode \in Int /\ p.buffer_mode \in Int
          /\ p.max_buffer \in Int
      BY <1>7, <1>8, <3>1
    <3> QED
      BY <1>2, <1>3, <1>5, <3>2
  <2> QED
    BY <1>5, <1>8, <1>10, <1>11, <1>12, <2>1 DEF Options
<1>14. OptionsOK(p)
  BY <1>2, <1>3, <1>5, <1>8, <1>10, <1>11, <1>13 DEF OptionsOK
<1> QED
  BY <1>14 DEF p

-----------------------------------------------------------------------------
(* Clients. *)

NetRange == {net \in [addr : Address, pref : Int] : net.pref \in 0 .. Full(net.addr.family)}

Client == [name : STRING, sources : Seq(NetRange) \ {<<>>}, max_slots : Nat]

\* An address has a number of bits.
LEMMA FullIs == ASSUME NEW a \in Address PROVE Full(a.family) \in Nat
<1>1. WordBits \in Nat
  BY CidrAssumption
<1> QED
  BY <1>1 DEF Full, NumWords

\* The length of a range is not beyond the bits of its address.
LEMMA ParsedRange ==
    ASSUME NEW w \in DOMAIN CidrText
    PROVE  ParseCidr(CidrText[w]) \in NetRange
<1> DEFINE t == CidrText[w]
           f == Full(t.addr.family)
           p == IF t.slash THEN Fit(t.num, 0, f) ELSE f
<1>1. t.addr \in Address /\ t.slash \in BOOLEAN /\ t.num \in Int
  BY ConfigAssumption, Zenon
<1>2. f \in Nat
  BY <1>1, FullIs
<1>3. Fit(t.num, 0, f) \in 0 .. f
  <2> HIDE DEF t, f
  <2>1. 0 <= f /\ f \in Int
    BY <1>2
  <2> QED
    BY <1>1, <2>1 DEF Fit
<1>4. p \in 0 .. f
  <2> HIDE DEF f
  <2>1. f \in 0 .. f
    BY <1>2
  <2>2. CASE t.slash
    BY <1>3, <2>2
  <2>3. CASE ~ t.slash
    BY <2>1, <2>3
  <2> QED
    BY <2>2, <2>3
<1>5. ParseCidr(t) = [addr |-> t.addr, pref |-> p]
  BY Zenon DEF ParseCidr
<1> HIDE DEF p
<1>6. ParseCidr(t).addr = t.addr /\ ParseCidr(t).pref = p
  BY <1>5
<1>7. p \in Int
  BY <1>2, <1>4
<1>8. ParseCidr(t) \in [addr : Address, pref : Int]
  BY <1>1, <1>5, <1>7
<1> QED
  BY <1>4, <1>6, <1>8 DEF NetRange

\* A section of a client group gives an object if it is usable.
LEMMA ClientOfIs ==
    ASSUME file \in Files, NEW r, Written("client", r), NEW j \in DOMAIN r
    PROVE  LET c == ClientOf(r[j])
           IN /\ c.name = r[j].name
              /\ c.sources # <<>> <=> UsableClient(c.name)
              /\ c.sources # <<>> => c \in Client
<1> DEFINE sc == r[j]
           c  == ClientOf(sc)
           gs == GetStrings(sc, "sources")
           ws == Words("client", sc.name, "sources")
           us == Among(gs, DOMAIN CidrText)
<1>1. gs \in Seq(STRING \cup {""}) /\ (\A w : w \in ToSet(ws) <=> w # "" /\ w \in ToSet(gs)) /\ sc.name \in STRING
  <2>1. sc.name \in STRING
    BY SectionIs
  <2>2. gs \in Seq(STRING \cup {""}) /\ \A w : w \in ToSet(ws) <=> w # "" /\ w \in ToSet(gs)
    BY StringsAre
  <2> QED
    BY <2>1, <2>2
<1>2. "" \notin DOMAIN CidrText
  BY ConfigAssumption, Zenon
<1>3. us \in Seq(STRING \cup {""}) /\ ToSet(us) = ToSet(ws) \cap DOMAIN CidrText
  <2> HIDE DEF gs, ws
  <2>1. Among(gs, DOMAIN CidrText) \in Seq(STRING \cup {""})
        /\ ToSet(Among(gs, DOMAIN CidrText)) = ToSet(gs) \cap DOMAIN CidrText
    BY <1>1, AmongElements
  <2> QED
    BY <1>1, <1>2, <2>1
<1>4. c = [name |-> sc.name, sources |-> SourcesOf(sc),
           max_slots |-> AtLeast(0, GetInteger(sc, "max_slots", 1000))]
  BY Zenon DEF ClientOf
<1>5. SourcesOf(sc) = [i \in DOMAIN us |-> ParseCidr(CidrText[us[i]])]
  BY Zenon DEF SourcesOf
<1> HIDE DEF us
<1>6. DOMAIN us = 1 .. Len(us) /\ Len(us) \in Nat /\ (us = <<>> <=> ToSet(us) = {})
      /\ \A i \in 1 .. Len(us) : us[i] \in DOMAIN CidrText
  <2> HIDE DEF gs, ws, sc, c
  <2>1. /\ ToSet(us) = {us[i] : i \in 1 .. Len(us)} /\ (us = <<>> <=> ToSet(us) = {})
        /\ DOMAIN us = 1 .. Len(us) /\ Len(us) \in Nat
    <3> DEFINE V == STRING \cup {""}
    <3>1. us \in Seq(V)
      BY <1>3
    <3> HIDE DEF V
    <3> QED
      BY <3>1, ToSetIs
  <2>2. \A i \in 1 .. Len(us) : us[i] \in ToSet(us)
    BY <2>1
  <2> QED
    BY <1>3, <2>1, <2>2
<1>7. \A i \in 1 .. Len(us) : ParseCidr(CidrText[us[i]]) \in NetRange
  BY <1>6, ParsedRange
<1> DEFINE so == SourcesOf(sc)
<1>8. so \in Seq(NetRange) /\ Len(so) = Len(us)
  <2>1. so = [i \in 1 .. Len(us) |-> ParseCidr(CidrText[us[i]])]
    BY <1>5, <1>6, Zenon
  <2> HIDE DEF so
  <2> QED
    BY <1>6, <1>7, <2>1
<1>9. so # <<>> <=> us # <<>>
  <2> HIDE DEF so
  <2>1. so = <<>> <=> Len(so) = 0
    BY <1>8, EmptySeq
  <2>2. us = <<>> <=> Len(us) = 0
    BY <1>3, EmptySeq
  <2> QED
    BY <1>8, <2>1, <2>2
<1>10. us # <<>> <=> UsableClient(sc.name)
  BY <1>3, <1>6 DEF UsableClient
<1>11. AtLeast(0, GetInteger(sc, "max_slots", 1000)) \in Nat
  <2>1. GetInteger(sc, "max_slots", 1000) \in Int
    BY IntegerIs
  <2> QED
    BY <2>1 DEF AtLeast
<1> HIDE DEF so, c, sc
<1>12. c.name = sc.name /\ c.sources = so
  BY <1>4 DEF so
<1>13. so # <<>> => c \in Client
  BY <1>1, <1>4, <1>8, <1>11, ZenonT(60) DEF Client, so
<1> QED
  BY <1>9, <1>10, <1>12, <1>13, Zenon DEF c, sc

-----------------------------------------------------------------------------
(* Servers and balancers. *)

Server == [name : STRING, host : STRING \ {""}, port : Int \ {0}, check_mode : 0 .. 3,
           info_port : Int, max_slots : Nat \ {0}, max_weight : 1 .. 100, redundant : BOOLEAN]

\* A section of a server gives an object that is used exactly if it is usable.
LEMMA ServerOfIs ==
    ASSUME file \in Files, NEW r, Written("server", r), NEW j \in DOMAIN r,
           proxy.info_enabled \in BOOLEAN
    PROVE  LET s == ServerOf(r[j])
           IN /\ s.name = r[j].name
              /\ ~ (s.host = "" \/ s.port = 0 \/ s.max_slots = 0) <=> UsableServer(s.name)
              /\ UsableServer(s.name) => s \in Server
              /\ ~ proxy.info_enabled => s.check_mode <= 1
<1> DEFINE sc   == r[j]
           n    == sc.name
           s    == ServerOf(sc)
           ws   == Words("server", n, "address")
           word == IF Has(sc, "address") THEN GetStrings(sc, "address")[1] ELSE ""
           addr == ParseHostPort(word, CONN_PORT)
           slots == GetInteger(sc, "max_slots", 100)
           mode == Fit(GetInteger(sc, "check_mode", 2), 0, 3)
           check == IF mode >= 2 /\ ~ proxy.info_enabled THEN 1 ELSE mode
           iport == IF mode >= 2 /\ proxy.info_enabled
                    THEN GetInteger(sc, "info_port", INFO_PORT) ELSE INFO_PORT
           weight == Fit(GetInteger(sc, "max_weight", 100), 1, 100)
           red  == GetBoolean(sc, "redundant", FALSE)
<1>1. s = [name |-> n, host |-> addr.host, port |-> addr.port, check_mode |-> check,
           info_port |-> iport, max_slots |-> AtLeast(0, slots), max_weight |-> weight,
           redundant |-> red]
  BY Zenon DEF ServerOf
<1>2. \A key : \A d \in Int : GetInteger(sc, key, d) \in Int
  BY IntegerIs
<1>3. n \in STRING
  BY SectionIs
<1>4. slots \in Int /\ mode \in 0 .. 3 /\ weight \in 1 .. 100 /\ red \in BOOLEAN
  <2>1. slots \in Int /\ GetInteger(sc, "check_mode", 2) \in Int
        /\ GetInteger(sc, "max_weight", 100) \in Int
    BY <1>2
  <2>2. red \in BOOLEAN
    BY BooleanIs
  <2>3. mode \in 0 .. 3 /\ weight \in 1 .. 100
    BY <2>1 DEF Fit
  <2> QED
    BY <2>1, <2>2, <2>3
<1>5. GetInteger(sc, "info_port", INFO_PORT) \in Int /\ INFO_PORT \in Int
  <2>1. INFO_PORT \in Int
    BY DEF INFO_PORT
  <2> QED
    BY <1>2, <2>1
<1>6. word = IF ws = <<>> THEN "" ELSE ws[1]
  <2>1. GetStrings(sc, "address") = IF ~ Has(sc, "address") THEN <<>>
                                    ELSE IF ws = <<>> THEN <<"">> ELSE ws
    <3>1. GetStrings(sc, "address") = IF ~ Has(sc, "address") THEN <<>>
                                      ELSE IF Words("server", n, "address") = <<>> THEN OneEmpty
                                      ELSE Words("server", n, "address")
      BY StringsEqual
    <3> QED
      BY <3>1, Zenon DEF OneEmpty
  <2>2. ~ Has(sc, "address") => ws = <<>>
    <3>1. Has(sc, "address") <=> Settings("server", n, "address") # {}
      BY SectionIs
    <3> QED
      BY <3>1, Zenon DEF Words
  <2>3. <<"">>[1] = ""
    OBVIOUS
  <2> HIDE DEF ws, sc
  <2>4. CASE ~ Has(sc, "address")
    BY <2>2, <2>4, Zenon
  <2>5. CASE Has(sc, "address") /\ ws = <<>>
    BY <2>1, <2>3, <2>5, Zenon
  <2>6. CASE Has(sc, "address") /\ ws # <<>>
    BY <2>1, <2>6, Zenon
  <2> QED
    BY <2>4, <2>5, <2>6
<1>7. /\ addr.host # "" /\ addr.port # 0 <=>
            ws # <<>> /\ ws[1] \in DOMAIN AddrText /\ AddrText[ws[1]].host # ""
                      /\ AddrText[ws[1]].port # 0
      /\ addr.host # "" => addr.host \in STRING /\ addr.port \in Int
  <2> HIDE DEF word, ws
  <2>1. CASE word \notin DOMAIN AddrText
    <3>1. addr = [host |-> "", port |-> CONN_PORT]
      BY <2>1, Zenon DEF ParseHostPort
    <3> HIDE DEF addr
    <3>2. addr.host = ""
      BY <3>1
    <3>3. ws # <<>> => ws[1] \notin DOMAIN AddrText
      BY <1>6, <2>1, Zenon
    <3> QED
      BY <3>2, <3>3, Zenon
  <2>2. CASE word \in DOMAIN AddrText
    <3> DEFINE t == AddrText[word]
    <3>1. t.host \in STRING /\ t.port \in Int
      BY <2>2, ConfigAssumption, Zenon
    <3>2. ws # <<>> /\ word = ws[1]
      <4>1. "" \notin DOMAIN AddrText
        BY ConfigAssumption, Zenon
      <4> QED
        BY <1>6, <2>2, <4>1, Zenon
    <3>3. addr = [host |-> t.host, port |-> IF t.port = -1 THEN CONN_PORT ELSE t.port]
      BY <2>2, Zenon DEF ParseHostPort
    <3> HIDE DEF addr, t
    <3>4. addr.host = t.host /\ addr.port \in Int /\ (addr.port = 0 <=> t.port = 0)
      BY <3>1, <3>3 DEF CONN_PORT
    <3> QED
      BY <2>2, <3>1, <3>2, <3>4, Zenon DEF t
  <2> QED
    BY <2>1, <2>2
<1>8. LET l == Settings("server", n, "max_slots")
      IN l = {} \/ file.lines[Max(l)].val.list = <<>> \/ file.lines[Max(l)].val.num > 0 <=> slots > 0
  <2> DEFINE L == Settings("server", n, "max_slots")
             v == file.lines[Max(L)].val
  <2>1. slots = IF L = {} \/ v.list = <<>> THEN 100 ELSE v.num
    <3>1. slots = Number("server", n, "max_slots", 100)
      BY IntegerEqual
    <3> QED
      BY <3>1, Zenon DEF Number
  <2> HIDE DEF slots, L, v
  <2>2. L = {} \/ v.list = <<>> \/ v.num > 0 <=> slots > 0
    <3>1. CASE L = {} \/ v.list = <<>>
      <4>1. slots = 100
        BY <2>1, <3>1, Zenon
      <4> QED
        BY <3>1, <4>1
    <3>2. CASE ~ (L = {} \/ v.list = <<>>)
      <4>1. slots = v.num
        BY <2>1, <3>2, Zenon
      <4> QED
        BY <3>2, <4>1
    <3> QED
      BY <3>1, <3>2
  <2> QED
    BY <2>2, Zenon DEF L, v
<1>9. AtLeast(0, slots) \in Nat /\ (AtLeast(0, slots) = 0 <=> ~ slots > 0)
  <2> HIDE DEF slots
  <2> QED
    BY <1>4 DEF AtLeast
<1>10. check \in 0 .. 3 /\ iport \in Int /\ (~ proxy.info_enabled => check <= 1)
  <2> HIDE DEF mode
  <2> QED
    BY <1>4, <1>5
<1> HIDE DEF addr, slots, mode, check, iport, weight, red, s, ws, word, sc, n
<1>11. /\ s.name = n /\ s.host = addr.host /\ s.port = addr.port /\ s.check_mode = check
       /\ s.max_slots = AtLeast(0, slots)
  BY <1>1
<1>12. UsableServer(n) <=>
          /\ ws # <<>> /\ ws[1] \in DOMAIN AddrText /\ AddrText[ws[1]].host # ""
             /\ AddrText[ws[1]].port # 0
          /\ slots > 0
  BY <1>8, Zenon DEF UsableServer, ws
<1>13. ~ (s.host = "" \/ s.port = 0 \/ s.max_slots = 0) <=> UsableServer(n)
  BY <1>7, <1>9, <1>11, <1>12, Zenon
<1>14. UsableServer(n) => s \in Server
  <2> SUFFICES ASSUME UsableServer(n) PROVE s \in Server
    OBVIOUS
  <2>1. addr.host \in STRING \ {""} /\ addr.port \in Int \ {0} /\ AtLeast(0, slots) \in Nat \ {0}
    BY <1>7, <1>9, <1>12
  <2> QED
    BY <1>1, <1>3, <1>4, <1>10, <2>1 DEF Server
<1> QED
  BY <1>10, <1>11, <1>13, <1>14, Zenon DEF s, sc, n

\* The first word, if there is one.
LEMMA HeadOf ==
    ASSUME NEW V, NEW q \in Seq(V)
    PROVE  Head(q \o <<"">>) = IF q = <<>> THEN "" ELSE q[1]
<1> DEFINE e == <<"">>
           p == q \o e
           W == V \cup {""}
<1>1. q \in Seq(W) /\ e \in Seq(W)
  <2>1. V \subseteq W /\ "" \in W
    OBVIOUS
  <2> HIDE DEF W
  <2>2. q \in Seq(W)
    BY <2>1, SeqMonotonic
  <2>3. \A x \in W : <<x>> \in Seq(W)
    OBVIOUS
  <2> QED
    BY <2>1, <2>2, <2>3
<1>2. Len(e) = 1 /\ e[1] = "" /\ e # <<>>
  OBVIOUS
<1> HIDE DEF e, W
<1>3. /\ p \in Seq(W) /\ Len(p) = Len(q) + 1
      /\ \A i \in 1 .. Len(q) + 1 : p[i] = IF i <= Len(q) THEN q[i] ELSE e[i - Len(q)]
  <2>1. /\ p \in Seq(W) /\ Len(p) = Len(q) + Len(e)
        /\ \A i \in 1 .. Len(q) + Len(e) : p[i] = IF i <= Len(q) THEN q[i] ELSE e[i - Len(q)]
    BY <1>1, ConcatProperties
  <2> QED
    BY <1>2, <2>1
<1>4. Len(q) \in Nat /\ (q = <<>> <=> Len(q) = 0)
  BY EmptySeq, LenProperties
<1> HIDE DEF p
<1>5. p[1] = IF q = <<>> THEN "" ELSE q[1]
  <2>1. 1 \in 1 .. Len(q) + 1
    BY <1>4
  <2>2. p[1] = IF 1 <= Len(q) THEN q[1] ELSE e[1 - Len(q)]
    BY <1>3, <2>1
  <2>3. CASE Len(q) = 0
    <3>1. ~ 1 <= Len(q) /\ 1 - Len(q) = 1
      BY <2>3
    <3> QED
      BY <1>2, <1>4, <2>2, <2>3, <3>1
  <2>4. CASE Len(q) # 0
    <3>1. 1 <= Len(q)
      BY <1>4, <2>4
    <3> QED
      BY <1>4, <2>2, <2>4, <3>1
  <2> QED
    BY <2>3, <2>4
<1>6. Head(p) = p[1]
  <2>1. \A s \in Seq(W) : s # <<>> => Head(s) = s[1]
    OBVIOUS
  <2>2. p # <<>>
    BY <1>3, <1>4, EmptySeq
  <2> QED
    BY <1>3, <2>1, <2>2
<1> QED
  BY <1>5, <1>6, Zenon DEF p, e

\* What a balancer lists is what it is meant to have.
LEMMA ListedIs ==
    ASSUME file \in Files, NEW r, Written("balancer", r), NEW j \in DOMAIN r, NEW key,
           NEW class, NamesIn(sections[class]) = NamesOf(class),
           data[class] = Usable(class),
           NEW objects, NEW V, objects \in Seq(V), \A o \in V : o.name \in STRING,
           NamesIn(objects) = Usable(class)
    PROVE  LET ls == Listed(GetStrings(r[j], key), class, objects)
           IN /\ ls \in Seq(STRING \cup {""})
              /\ ToSet(ls) = Meant(r[j].name, class, key)
              /\ ls = <<>> <=> Meant(r[j].name, class, key) = {}
<1> DEFINE sc == r[j]
           n  == sc.name
           gs == GetStrings(sc, key)
           ws == Words("balancer", n, key)
           L  == Settings("balancer", n, key)
           ls == Listed(gs, class, objects)
           W  == STRING \cup {""}
           U  == Usable(class)
<1>1. /\ gs = IF ~ Has(sc, key) THEN <<>> ELSE IF ws = <<>> THEN <<"">> ELSE ws
      /\ gs \in Seq(W)
      /\ \A w : w \in ToSet(ws) <=> w # "" /\ w \in ToSet(gs)
      /\ Has(sc, key) => gs # <<>>
  BY StringsAre
<1>2. Has(sc, key) <=> L # {}
  BY SectionIs
<1>3. ws \in Seq(STRING \ {""})
  BY SettingsAre
<1>4. Names(objects) \in Seq(STRING) /\ ToSet(Names(objects)) = U
  <2>1. Len(objects) \in Nat /\ DOMAIN objects = 1 .. Len(objects)
        /\ \A i \in 1 .. Len(objects) : objects[i] \in V
    BY LenProperties, ElementOfSeq
  <2>2. Names(objects) = [i \in 1 .. Len(objects) |-> objects[i].name]
    BY <2>1 DEF Names
  <2>3. \A i \in 1 .. Len(objects) : objects[i].name \in STRING
    BY <2>1
  <2>4. Names(objects) \in Seq(STRING)
    BY <2>1, <2>2, <2>3
  <2>5. ToSet(Names(objects)) = {objects[i].name : i \in 1 .. Len(objects)}
    BY <2>2 DEF ToSet
  <2>6. NamesIn(objects) = {objects[i].name : i \in 1 .. Len(objects)}
    BY <2>1 DEF NamesIn
  <2> QED
    BY <2>4, <2>5, <2>6
<1>5. {w \in data[class] \ {""} : \E i \in DOMAIN sections[class] : sections[class][i].name = w} = U \ {""}
  <2>1. U \subseteq NamesOf(class)
    BY DEF Usable
  <2>2. \A w \in U : \E i \in DOMAIN sections[class] : sections[class][i].name = w
    BY <2>1 DEF NamesIn
  <2> HIDE DEF U
  <2>3. data[class] = U
    BY DEF U
  <2> QED
    BY <2>2, <2>3
<1>6. Head(ws \o <<"">>) = IF ws = <<>> THEN "" ELSE ws[1]
  BY <1>3, HeadOf
<1>7. Meant(n, class, key) = IF L = {} THEN U ELSE IF Head(ws \o <<"">>) = "all" THEN U
                             ELSE U \cap ToSet(ws)
  BY Zenon DEF Meant
<1>8. ls = IF gs = <<>> \/ gs[1] = "all" THEN Names(objects) ELSE Among(gs, U \ {""})
  BY <1>5, Zenon DEF Listed
<1> HIDE DEF sc, n, gs, ws, L, ls, U
<1>9. gs = <<>> \/ gs[1] = "all" <=> L = {} \/ Head(ws \o <<"">>) = "all"
  <2>1. CASE L = {}
    BY <1>1, <1>2, <2>1, Zenon
  <2>2. CASE L # {} /\ ws = <<>>
    <3>1. gs = <<"">>
      BY <1>1, <1>2, <2>2, Zenon
    <3>2. gs[1] = "" /\ gs # <<>>
      BY <3>1
    <3>3. "" # "all"
      OBVIOUS
    <3> QED
      BY <1>6, <2>2, <3>2, <3>3, Zenon
  <2>3. CASE L # {} /\ ws # <<>>
    <3>1. gs = ws
      BY <1>1, <1>2, <2>3, Zenon
    <3> QED
      BY <1>6, <2>3, <3>1, Zenon
  <2> QED
    BY <2>1, <2>2, <2>3
<1>10. Among(gs, U \ {""}) \in Seq(W) /\ ToSet(Among(gs, U \ {""})) = ToSet(gs) \cap (U \ {""})
  BY <1>1, AmongElements
<1>11. ls \in Seq(W) /\ ToSet(ls) = Meant(n, class, key)
  <2>1. CASE gs = <<>> \/ gs[1] = "all"
    <3>1. ls = Names(objects)
      BY <1>8, <2>1, Zenon
    <3>2. Meant(n, class, key) = U
      BY <1>7, <1>9, <2>1, Zenon
    <3>3. ls \in Seq(W)
      BY <1>4, <3>1, SeqMonotonic
    <3> QED
      BY <1>4, <3>1, <3>2, <3>3, Zenon
  <2>2. CASE ~ (gs = <<>> \/ gs[1] = "all")
    <3>1. ls = Among(gs, U \ {""})
      BY <1>8, <2>2, Zenon
    <3>2. Meant(n, class, key) = U \cap ToSet(ws)
      BY <1>7, <1>9, <2>2, Zenon
    <3>3. U \cap ToSet(ws) = ToSet(gs) \cap (U \ {""})
      BY <1>1
    <3> QED
      BY <1>10, <3>1, <3>2, <3>3, Zenon
  <2> QED
    BY <2>1, <2>2
<1>12. ls = <<>> <=> Meant(n, class, key) = {}
  <2> HIDE DEF W
  <2>1. ls = <<>> <=> ToSet(ls) = {}
    BY <1>11, ToSetIs
  <2> QED
    BY <1>11, <2>1, Zenon
<1> QED
  BY <1>11, <1>12, Zenon DEF ls, gs, sc, n, W

-----------------------------------------------------------------------------
(* How far the sections of a class were looked at. *)

\* The first k sections gave the objects names, those of U.
Took(sects, U, k, names) ==
    /\ k \in 0 .. Len(sects)
    /\ \A n : n \in names <=> n \in U /\ \E i \in 1 .. k : sects[i].name = n

\* Before the first section there are no objects.
LEMMA TookNone ==
    ASSUME NEW sects, Len(sects) \in Nat, NEW U
    PROVE  Took(sects, U, 0, {})
BY DEF Took

\* One section more.
LEMMA TookMore ==
    ASSUME NEW sects, Len(sects) \in Nat, NEW U, NEW k \in Nat, NEW names, NEW more,
           Took(sects, U, k, names), k + 1 <= Len(sects),
           more = IF sects[k + 1].name \in U THEN names \cup {sects[k + 1].name} ELSE names
    PROVE  Took(sects, U, k + 1, more)
<1> DEFINE x == sects[k + 1].name
<1>1. \A n : (\E i \in 1 .. k + 1 : sects[i].name = n) <=> n = x \/ \E i \in 1 .. k : sects[i].name = n
  <2>1. 1 .. k + 1 = (1 .. k) \cup {k + 1}
    OBVIOUS
  <2> QED
    BY <2>1
<1>2. \A n : n \in names <=> n \in U /\ \E i \in 1 .. k : sects[i].name = n
  BY DEF Took
<1>3. more = IF x \in U THEN names \cup {x} ELSE names
  OBVIOUS
<1> HIDE DEF x
<1>4. \A n : n \in more <=> n \in U /\ (n = x \/ \E i \in 1 .. k : sects[i].name = n)
  <2>1. CASE x \in U
    <3>1. \A n : n \in more <=> n \in names \/ n = x
      BY <1>3, <2>1
    <3> QED
      BY <1>2, <2>1, <3>1
  <2>2. CASE x \notin U
    <3>1. more = names
      BY <1>3, <2>2
    <3> QED
      BY <1>2, <2>2, <3>1
  <2> QED
    BY <2>1, <2>2
<1>5. \A n : n \in more <=> n \in U /\ \E i \in 1 .. k + 1 : sects[i].name = n
  BY <1>1, <1>4
<1>6. k + 1 \in 0 .. Len(sects)
  OBVIOUS
<1> QED
  BY <1>5, <1>6 DEF Took

\* After the last section there are the objects of all that are usable.
LEMMA TookAll ==
    ASSUME NEW sects \in Seq(Sect), NEW U, NEW names, NEW k, Took(sects, U, k, names),
           k = Len(sects), U \subseteq NamesIn(sects)
    PROVE  names = U
<1>1. DOMAIN sects = 1 .. Len(sects)
  BY LenProperties
<1>2. \A n \in U : \E i \in 1 .. Len(sects) : sects[i].name = n
  BY <1>1 DEF NamesIn
<1>3. \A n : n \in names <=> n \in U
  BY <1>2 DEF Took
<1> QED
  BY <1>3

\* One object more.
LEMMA OneObject ==
    ASSUME NEW V, NEW objects \in Seq(V), NEW o \in V
    PROVE  /\ Append(objects, o) \in Seq(V)
           /\ NamesIn(Append(objects, o)) = NamesIn(objects) \cup {o.name}
           /\ Append(objects, o) # <<>>
           /\ \A i \in DOMAIN Append(objects, o) :
                 Append(objects, o)[i] = o \/ \E j \in DOMAIN objects : Append(objects, o)[i] = objects[j]
<1> DEFINE p == Append(objects, o)
           N == Len(objects)
<1>1. N \in Nat /\ DOMAIN objects = 1 .. N
  BY LenProperties
<1>2. /\ p \in Seq(V) /\ Len(p) = N + 1
      /\ \A i \in 1 .. N : p[i] = objects[i]
      /\ p[N + 1] = o
  BY AppendProperties
<1>3. DOMAIN p = 1 .. N + 1
  <2> HIDE DEF p, N
  <2> QED
    BY <1>2, LenProperties
<1>4. 1 .. N + 1 = (1 .. N) \cup {N + 1}
  BY <1>1
<1> HIDE DEF p, N
<1>5. \A i \in DOMAIN p : p[i] = o \/ \E j \in DOMAIN objects : p[i] = objects[j]
  BY <1>1, <1>2, <1>3, <1>4
<1>6. NamesIn(p) = NamesIn(objects) \cup {o.name}
  <2>1. \A n : n \in NamesIn(p) <=> \E i \in 1 .. N + 1 : p[i].name = n
    BY <1>3 DEF NamesIn
  <2>2. \A n : n \in NamesIn(objects) <=> \E i \in 1 .. N : objects[i].name = n
    BY <1>1 DEF NamesIn
  <2>3. \A n : (\E i \in 1 .. N + 1 : p[i].name = n) <=> n = o.name \/ \E i \in 1 .. N : objects[i].name = n
    BY <1>2, <1>4
  <2>4. \A n : n \in NamesIn(p) <=> n \in NamesIn(objects) \/ n = o.name
    BY <2>1, <2>2, <2>3
  <2> QED
    BY <2>4
<1>7. p # <<>>
  BY <1>1, <1>2, EmptySeq
<1> QED
  BY <1>2, <1>5, <1>6, <1>7 DEF p

-----------------------------------------------------------------------------
(* What depends on the file alone. *)

Valid == {b \in NamesOf("balancer") : /\ Meant(b, "client", "clients") # {}
                                      /\ Meant(b, "server", "servers") # {}}

\* As long as the file is the same, so is what it says.
LEMMA FileStays ==
    ASSUME file' = file
    PROVE  /\ \A c : NamesOf(c)' = NamesOf(c) /\ Usable(c)' = Usable(c)
           /\ \A c, q : Written(c, q)' <=> Written(c, q)
           /\ \A b, c, key : Meant(b, c, key)' = Meant(b, c, key)
           /\ Valid' = Valid
<1>1. LineNos' = LineNos /\ \A n : HeadersBefore(n)' = HeadersBefore(n)
  BY DEF LineNos, HeadersBefore
<1>2. \A c, n, key : Settings(c, n, key)' = Settings(c, n, key)
  <2> SUFFICES ASSUME NEW c, NEW n, NEW key PROVE Settings(c, n, key)' = Settings(c, n, key)
    OBVIOUS
  <2> QED
    BY <1>1 DEF Settings
<1>3. \A c : NamesOf(c)' = NamesOf(c)
  BY DEF NamesOf
<1>4. \A c, n, key : Words(c, n, key)' = Words(c, n, key)
  BY <1>2 DEF Words
<1>5. \A n : UsableClient(n)' <=> UsableClient(n)
  BY <1>4 DEF UsableClient
<1>6. \A n : UsableServer(n)' <=> UsableServer(n)
  BY <1>2, <1>4 DEF UsableServer
<1>7. \A c : Usable(c)' = Usable(c)
  BY <1>3, <1>5, <1>6 DEF Usable
<1>8. \A b, c, key : Meant(b, c, key)' = Meant(b, c, key)
  BY <1>2, <1>4, <1>7 DEF Meant
<1>9. Valid' = Valid
  BY <1>3, <1>8 DEF Valid
<1>10. \A c, q : Written(c, q)' <=> Written(c, q)
  BY <1>2, <1>3 DEF Written
<1> QED
  BY <1>3, <1>7, <1>8, <1>9, <1>10

\* Nothing is meant that is not usable, and nothing usable that is not named.
LEMMA MeantUsable ==
    ASSUME NEW b, NEW c, NEW key
    PROVE  Meant(b, c, key) \subseteq Usable(c) /\ Usable(c) \subseteq NamesOf(c)
BY DEF Meant, Usable

-----------------------------------------------------------------------------
(* The invariant of the configuration. *)

\* Names that a balancer lists.
Listable == STRING \cup {""}

Balancer == [name : STRING, clients : Seq(Listable), servers : Seq(Listable),
             method : {"byrequests", "bybusyness"}, metrics : SUBSET {"cap", "mem", "cpu"}]

Phases == Classes \cup {"options", "failed", "listen", "no listener", "running"}

Types ==
    /\ file \in Files /\ pc \in Phases /\ next \in Nat \ {0}
    /\ OptionsOK(proxy)
    /\ data \in [{"client", "server"} -> SUBSET STRING]
    /\ clients \in Seq(Client) /\ servers \in Seq(Server) /\ balancers \in Seq(Balancer)
    /\ \A i \in DOMAIN servers : ~ proxy.info_enabled => servers[i].check_mode <= 1

Sections ==
    pc \notin {"options", "failed"} =>
        \A c \in Classes : Written(c, sections[c]) /\ sections[c] # <<>>

\* All objects of a class are there.
All(class, objects) == NamesIn(objects) = Usable(class) /\ data[class] = Usable(class)

\* Those of the sections before next are there, and all of the classes before.
Objects ==
    /\ pc = "options" => next = 1
    /\ pc \in {"options", "client"} => servers = <<>> /\ data["server"] = {}
    /\ pc = "options" => clients = <<>> /\ data["client"] = {}
    /\ pc \in {"options", "client", "server"} => balancers = <<>>
    /\ pc = "client" => /\ Took(sections["client"], Usable("client"), next - 1, NamesIn(clients))
                        /\ data["client"] = NamesIn(clients)
    /\ pc = "server" => /\ Took(sections["server"], Usable("server"), next - 1, NamesIn(servers))
                        /\ data["server"] = NamesIn(servers)
    /\ pc = "balancer" => Took(sections["balancer"], Valid, next - 1, NamesIn(balancers))
    /\ pc \in {"server", "balancer", "listen", "no listener", "running"} => All("client", clients)
    /\ pc \in {"balancer", "listen", "no listener", "running"} => All("server", servers)
    /\ pc \in {"listen", "no listener", "running"} => NamesIn(balancers) = Valid /\ balancers # <<>>

Refused == pc = "failed" => NamesOf("proxy") = {} \/ Valid = {}

\* Balancers have what the file says, neither more nor less.
Lists ==
    \A i \in DOMAIN balancers :
        /\ ToSet(balancers[i].clients) = Meant(balancers[i].name, "client", "clients")
        /\ ToSet(balancers[i].servers) = Meant(balancers[i].name, "server", "servers")

CInv == Types /\ Sections /\ Objects /\ Refused /\ Lists

\* No objects have no names.
LEMMA NothingIn == NamesIn(<<>>) = {}
BY DEF NamesIn

\* Before anything is loaded, the invariant holds.
LEMMA ConfigStart ==
    ASSUME ConfigInit
    PROVE  CInv
<1>1. OptionsOK(proxy)
  BY DefaultOK DEF ConfigInit
<1>2. /\ file \in Files /\ pc = "options" /\ next = 1 /\ clients = <<>> /\ servers = <<>> /\ balancers = <<>>
      /\ data = [c \in {"client", "server"} |-> {}]
  BY DEF ConfigInit
<1>3. Types
  <2>1. <<>> \in Seq(Client) /\ <<>> \in Seq(Server) /\ <<>> \in Seq(Balancer)
    BY EmptySeq
  <2>2. DOMAIN servers = {}
    BY <1>2
  <2>3. pc \in Phases /\ next \in Nat \ {0} /\ data \in [{"client", "server"} -> SUBSET STRING]
    BY <1>2 DEF Phases
  <2> QED
    BY <1>1, <1>2, <2>1, <2>2, <2>3 DEF Types
<1>4. Sections
  BY <1>2 DEF Sections
<1>5. Objects
  <2>1. data["client"] = {} /\ data["server"] = {}
    BY <1>2
  <2> QED
    BY <1>2, <2>1 DEF Objects
<1>6. Refused
  BY <1>2 DEF Refused
<1>7. Lists
  <2>1. DOMAIN balancers = {}
    BY <1>2
  <2> QED
    BY <2>1 DEF Lists
<1> QED
  BY <1>3, <1>4, <1>5, <1>6, <1>7 DEF CInv

\* All sections are read, and the options of the proxy are within bounds.
LEMMA OptionsStep ==
    ASSUME CInv, LoadOptions
    PROVE  CInv'
<1> DEFINE all == [c \in Classes |-> LoadFromFile(file, c)]
<1>1. /\ pc = "options" /\ (\A c \in Classes : all[c] # <<>>) /\ sections' = all
      /\ proxy' = LoadProxy(all["proxy"][1])
      /\ pc' = "client" /\ file' = file /\ next' = next /\ data' = data /\ clients' = clients
      /\ servers' = servers /\ balancers' = balancers
  BY Zenon DEF LoadOptions
<1>2. Types /\ Objects /\ Lists
  BY DEF CInv
<1>3. /\ next = 1 /\ clients = <<>> /\ servers = <<>> /\ balancers = <<>>
      /\ data["client"] = {} /\ data["server"] = {}
  BY <1>1, <1>2 DEF Objects
<1>4. file \in Files
  BY <1>2 DEF Types
<1>5. \A c \in Classes : all[c] = LoadFromFile(file, c) /\ Written(c, all[c])
  BY <1>4, LoadedIs
<1> HIDE DEF all
<1>6. OptionsOK(proxy')
  <2> DEFINE r == all["proxy"]
  <2>1. "proxy" \in Classes
    BY DEF Classes
  <2>2. Written("proxy", r) /\ r # <<>>
    BY <1>1, <1>5, <2>1
  <2>3. r \in Seq(Sect)
    BY <2>2 DEF Written
  <2> HIDE DEF r
  <2>4. 1 \in DOMAIN r
    BY <2>2, <2>3, EmptySeq, LenProperties
  <2>5. OptionsOK(LoadProxy(r[1]))
    BY <1>4, <2>2, <2>4, LoadProxyIs
  <2> QED
    BY <1>1, <2>5, Zenon DEF r
<1>7. Types'
  <2>1. DOMAIN servers' = {}
    BY <1>1, <1>3
  <2>2. /\ file' \in Files /\ pc' \in Phases /\ next' \in Nat \ {0}
        /\ data' \in [{"client", "server"} -> SUBSET STRING]
        /\ clients' \in Seq(Client) /\ servers' \in Seq(Server) /\ balancers' \in Seq(Balancer)
    BY <1>1, <1>2 DEF Types, Phases, Classes
  <2> QED
    BY <1>6, <2>1, <2>2 DEF Types
<1>8. Sections'
  <2>1. ASSUME NEW c \in Classes
        PROVE  (Written(c, sections[c]) /\ sections[c] # <<>>)'
    <3> DEFINE q == sections'[c]
    <3>1. Written(c, q) /\ q # <<>>
      BY <1>1, <1>5
    <3>2. \A x : Written(c, x)' <=> Written(c, x)
      BY <1>1, FileStays
    <3> QED
      BY <3>1, <3>2
  <2> QED
    BY <2>1 DEF Sections
<1>9. Objects'
  <2> DEFINE sects == sections'["client"]
  <2>1. Len(sects) \in Nat
    <3>1. "client" \in Classes
      BY DEF Classes
    <3>2. Written("client", sects)
      BY <1>1, <1>5, <3>1
    <3> HIDE DEF sects
    <3>3. sects \in Seq(Sect)
      BY <3>2 DEF Written
    <3> QED
      BY <3>3, LenProperties
  <2>2. Took(sects, Usable("client")', 0, {})
    BY <2>1, TookNone
  <2>3. next' - 1 = 0 /\ NamesIn(clients') = {}
    BY <1>1, <1>3, NothingIn
  <2>4. Took(sections["client"], Usable("client"), next - 1, NamesIn(clients))'
    BY <2>2, <2>3
  <2> HIDE DEF sects
  <2> QED
    BY <1>1, <1>3, <2>3, <2>4 DEF Objects
<1>10. Refused' /\ Lists'
  <2>1. DOMAIN balancers' = {}
    BY <1>1, <1>3
  <2> QED
    BY <1>1, <2>1 DEF Lists, Refused
<1> QED
  BY <1>7, <1>8, <1>9, <1>10 DEF CInv

\* Without sections of some class there is no proxy or no balancer.
LEMMA NothingStep ==
    ASSUME CInv, LoadNothing
    PROVE  CInv'
<1>1. /\ pc = "options" /\ pc' = "failed" /\ file' = file /\ next' = next /\ data' = data
      /\ clients' = clients /\ servers' = servers /\ balancers' = balancers
      /\ proxy' = proxy /\ sections' = sections
  BY DEF LoadNothing
<1>2. Types /\ Lists /\ Objects
  BY DEF CInv
<1>3. NamesOf("proxy") = {} \/ Valid = {}
  <2>1. PICK c \in Classes : LoadFromFile(file, c) = <<>>
    BY DEF LoadNothing
  <2>2. file \in Files
    BY <1>2 DEF Types
  <2>3. Written(c, <<>>)
    BY <2>1, <2>2, LoadedIs
  <2>4. NamesOf(c) = {}
    BY <2>3, NothingIn DEF Written
  <2>5. c \in {"client", "server"} => Usable(c) = {}
    BY <2>4, MeantUsable
  <2>6. c = "client" => \A b : Meant(b, "client", "clients") = {}
    BY <2>5, MeantUsable
  <2>7. c = "server" => \A b : Meant(b, "server", "servers") = {}
    BY <2>5, MeantUsable
  <2>8. c = "client" \/ c = "server" => Valid = {}
    BY <2>6, <2>7 DEF Valid
  <2>9. c = "balancer" => Valid = {}
    BY <2>4 DEF Valid
  <2> QED
    BY <2>4, <2>8, <2>9 DEF Classes
<1>4. Types'
  BY <1>1, <1>2 DEF Types, Phases
<1>5. Sections'
  BY <1>1 DEF Sections
<1>6. Objects'
  BY <1>1 DEF Objects
<1>7. Refused'
  BY <1>1, <1>3, FileStays DEF Refused
<1>8. Lists'
  BY <1>1, <1>2, FileStays DEF Lists
<1> QED
  BY <1>4, <1>5, <1>6, <1>7, <1>8 DEF CInv


\* The section that is looked at next.
LEMMA HereIs ==
    ASSUME CInv, NEW class \in Classes, Loading(class)
    PROVE  LET r == sections[class]
           IN /\ file \in Files /\ Written(class, r) /\ r \in Seq(Sect) /\ Len(r) \in Nat
              /\ next \in DOMAIN r /\ next \in Nat /\ next - 1 \in Nat /\ (next - 1) + 1 = next
              /\ next <= Len(r)
              /\ next' = next + 1 /\ next' - 1 = next
              /\ r[next].name \in NamesOf(class)
              /\ file' = file /\ pc' = pc /\ sections' = sections /\ proxy' = proxy /\ pc = class
<1> DEFINE r == sections[class]
<1>1. /\ pc = class /\ next <= Len(r) /\ next' = next + 1
      /\ file' = file /\ pc' = pc /\ sections' = sections /\ proxy' = proxy
  BY DEF Loading
<1>2. file \in Files /\ next \in Nat \ {0} /\ Sections
  BY DEF CInv, Types
<1>3. Written(class, r)
  BY <1>1, <1>2 DEF Sections, Classes
<1> HIDE DEF r
<1>4. r \in Seq(Sect) /\ NamesIn(r) = NamesOf(class)
  BY <1>3 DEF Written
<1>5. Len(r) \in Nat /\ DOMAIN r = 1 .. Len(r)
  BY <1>4, LenProperties
<1>6. next \in DOMAIN r
  BY <1>1, <1>2, <1>5
<1>7. r[next].name \in NamesOf(class)
  BY <1>4, <1>6 DEF NamesIn
<1>8. next - 1 \in Nat /\ (next - 1) + 1 = next /\ next' - 1 = next
  BY <1>1, <1>2
<1> QED
  BY <1>1, <1>2, <1>3, <1>4, <1>5, <1>6, <1>7, <1>8 DEF r

\* Sections stay as they were read.
LEMMA SectionsStay ==
    ASSUME CInv, file' = file, sections' = sections, pc \notin {"options", "failed"}
    PROVE  Sections'
<1>1. \A c \in Classes : Written(c, sections[c]) /\ sections[c] # <<>>
  BY DEF CInv, Sections
<1>2. ASSUME NEW c \in Classes
      PROVE  (Written(c, sections[c]) /\ sections[c] # <<>>)'
  BY <1>1, FileStays
<1> QED
  BY <1>2 DEF Sections

\* A client group is added exactly if it is usable.
LEMMA ClientStep ==
    ASSUME CInv, LoadClient
    PROVE  CInv'
<1> DEFINE r == sections["client"]
           c == ClientOf(r[next])
           U == Usable("client")
<1>1. /\ Loading("client") /\ servers' = servers /\ balancers' = balancers
      /\ IF c.sources = <<>> THEN clients' = clients /\ data' = data
         ELSE /\ clients' = Append(clients, c)
              /\ data' = [data EXCEPT !["client"] = @ \cup {c.name}]
  BY Zenon DEF LoadClient, Section
<1>2. "client" \in Classes
  BY DEF Classes
<1>3. /\ file \in Files /\ Written("client", r) /\ r \in Seq(Sect) /\ Len(r) \in Nat
      /\ next \in DOMAIN r /\ next \in Nat /\ next - 1 \in Nat /\ (next - 1) + 1 = next
      /\ next <= Len(r)
      /\ next' = next + 1 /\ next' - 1 = next
      /\ r[next].name \in NamesOf("client")
      /\ file' = file /\ pc' = pc /\ sections' = sections /\ proxy' = proxy /\ pc = "client"
  BY <1>1, <1>2, HereIs
<1>4. /\ c.name = r[next].name
      /\ c.sources # <<>> <=> UsableClient(c.name)
      /\ c.sources # <<>> => c \in Client
  BY <1>3, ClientOfIs
<1>5. c.sources # <<>> <=> r[next].name \in U
  BY <1>3, <1>4 DEF Usable
<1>6. Types /\ Objects /\ Lists
  BY DEF CInv
<1>7. /\ Took(r, U, next - 1, NamesIn(clients)) /\ data["client"] = NamesIn(clients)
      /\ servers = <<>> /\ data["server"] = {} /\ balancers = <<>>
  BY <1>3, <1>6 DEF Objects
<1> HIDE DEF c, U, r
<1>8. /\ clients' \in Seq(Client)
      /\ NamesIn(clients') = IF r[next].name \in U THEN NamesIn(clients) \cup {r[next].name}
                             ELSE NamesIn(clients)
  <2>1. clients \in Seq(Client)
    BY <1>6 DEF Types
  <2>2. CASE r[next].name \in U
    <3>1. clients' = Append(clients, c) /\ c \in Client /\ c.name = r[next].name
      BY <1>1, <1>4, <1>5, <2>2
    <3>2. Append(clients, c) \in Seq(Client) /\ NamesIn(Append(clients, c)) = NamesIn(clients) \cup {c.name}
      BY <2>1, <3>1, OneObject
    <3> QED
      BY <2>2, <3>1, <3>2
  <2>3. CASE r[next].name \notin U
    BY <1>1, <1>5, <2>1, <2>3
  <2> QED
    BY <2>2, <2>3
<1>9. /\ data' \in [{"client", "server"} -> SUBSET STRING]
      /\ data'["client"] = NamesIn(clients') /\ data'["server"] = {}
  <2>1. data \in [{"client", "server"} -> SUBSET STRING]
    BY <1>6 DEF Types
  <2>2. CASE r[next].name \in U
    <3>1. data' = [data EXCEPT !["client"] = @ \cup {c.name}] /\ c.name = r[next].name /\ c \in Client
      BY <1>1, <1>4, <1>5, <2>2
    <3>2. c.name \in STRING
      BY <3>1 DEF Client
    <3>3. data' \in [{"client", "server"} -> SUBSET STRING]
      BY <2>1, <3>1, <3>2
    <3>4. data'["client"] = data["client"] \cup {c.name} /\ data'["server"] = data["server"]
      BY <2>1, <3>1
    <3> QED
      BY <1>7, <1>8, <2>2, <3>1, <3>3, <3>4
  <2>3. CASE r[next].name \notin U
    BY <1>1, <1>5, <1>7, <1>8, <2>1, <2>3
  <2> QED
    BY <2>2, <2>3
<1>10. Took(r, U, next, NamesIn(clients'))
  <2> DEFINE k == next - 1
             old == NamesIn(clients)
             new == NamesIn(clients')
  <2>1. k \in Nat /\ k + 1 = next /\ Took(r, U, k, old)
    BY <1>3, <1>7
  <2> HIDE DEF k, old, new
  <2>2. new = IF r[k + 1].name \in U THEN old \cup {r[k + 1].name} ELSE old
    BY <1>8, <2>1 DEF old, new
  <2>3. Took(r, U, k + 1, new)
    BY <1>3, <2>1, <2>2, TookMore
  <2> QED
    BY <2>1, <2>3 DEF new
<1>11. Types'
  BY <1>1, <1>3, <1>6, <1>8, <1>9, SMTT(30) DEF Types
<1>12. Sections'
  BY <1>3, SectionsStay
<1>13. Objects'
  <2>1. Usable("client")' = U /\ sections'["client"] = r
    BY <1>3, FileStays DEF U, r
  <2>2. Took(sections["client"], Usable("client"), next - 1, NamesIn(clients))'
    BY <1>3, <1>10, <2>1
  <2> QED
    BY <1>1, <1>3, <1>7, <1>9, <2>2 DEF Objects
<1>14. Refused' /\ Lists'
  <2>1. pc' # "failed"
    BY <1>3
  <2>2. DOMAIN balancers' = {}
    BY <1>1, <1>7
  <2> QED
    BY <2>1, <2>2 DEF Lists, Refused
<1> QED
  BY <1>11, <1>12, <1>13, <1>14 DEF CInv

\* A server is added exactly if it is usable.
LEMMA ServerStep ==
    ASSUME CInv, LoadServer
    PROVE  CInv'
<1> DEFINE r == sections["server"]
           s == ServerOf(r[next])
           U == Usable("server")
           ok == ~ (s.host = "" \/ s.port = 0 \/ s.max_slots = 0)
<1>1. /\ Loading("server") /\ clients' = clients /\ balancers' = balancers
      /\ IF s.host = "" \/ s.port = 0 \/ s.max_slots = 0 THEN servers' = servers /\ data' = data
         ELSE /\ servers' = Append(servers, s)
              /\ data' = [data EXCEPT !["server"] = @ \cup {s.name}]
  BY Zenon DEF LoadServer, Section
<1>2. "server" \in Classes
  BY DEF Classes
<1>3. /\ file \in Files /\ Written("server", r) /\ r \in Seq(Sect) /\ Len(r) \in Nat
      /\ next \in DOMAIN r /\ next \in Nat /\ next - 1 \in Nat /\ (next - 1) + 1 = next
      /\ next <= Len(r)
      /\ next' = next + 1 /\ next' - 1 = next
      /\ r[next].name \in NamesOf("server")
      /\ file' = file /\ pc' = pc /\ sections' = sections /\ proxy' = proxy /\ pc = "server"
  BY <1>1, <1>2, HereIs
<1>4. /\ s.name = r[next].name
      /\ ok <=> UsableServer(s.name)
      /\ UsableServer(s.name) => s \in Server
      /\ ~ proxy.info_enabled => s.check_mode <= 1
  <2>1. proxy.info_enabled \in BOOLEAN
    BY DEF CInv, Types, OptionsOK
  <2> QED
    BY <1>3, <2>1, ServerOfIs
<1>5. ok <=> r[next].name \in U
  <2>1. \A n : n \in U <=> n \in NamesOf("server") /\ UsableServer(n)
    BY DEF Usable
  <2> HIDE DEF ok, s, U, r
  <2> QED
    BY <1>3, <1>4, <2>1
<1>6. Types /\ Objects /\ Lists
  BY DEF CInv
<1>7. /\ Took(r, U, next - 1, NamesIn(servers)) /\ data["server"] = NamesIn(servers)
      /\ balancers = <<>> /\ All("client", clients)
  BY <1>3, <1>6 DEF Objects
<1>8. /\ clients' = clients /\ balancers' = balancers
      /\ IF ok THEN /\ servers' = Append(servers, s)
                    /\ data' = [data EXCEPT !["server"] = @ \cup {s.name}]
         ELSE servers' = servers /\ data' = data
  BY <1>1, Zenon
<1> HIDE DEF s, U, r, ok
<1>9. /\ servers' \in Seq(Server)
      /\ NamesIn(servers') = IF r[next].name \in U THEN NamesIn(servers) \cup {r[next].name}
                             ELSE NamesIn(servers)
      /\ \A i \in DOMAIN servers' : ~ proxy.info_enabled => servers'[i].check_mode <= 1
  <2>1. servers \in Seq(Server) /\ \A i \in DOMAIN servers : ~ proxy.info_enabled => servers[i].check_mode <= 1
    BY <1>6 DEF Types
  <2>2. CASE r[next].name \in U
    <3>1. servers' = Append(servers, s) /\ s \in Server /\ s.name = r[next].name
      BY <1>8, <1>4, <1>5, <2>2
    <3>2. /\ Append(servers, s) \in Seq(Server)
          /\ NamesIn(Append(servers, s)) = NamesIn(servers) \cup {s.name}
          /\ \A i \in DOMAIN Append(servers, s) :
                Append(servers, s)[i] = s \/ \E j \in DOMAIN servers : Append(servers, s)[i] = servers[j]
      BY <2>1, <3>1, OneObject
    <3>3. \A i \in DOMAIN servers' : ~ proxy.info_enabled => servers'[i].check_mode <= 1
      BY <1>4, <2>1, <3>1, <3>2
    <3> QED
      BY <2>2, <3>1, <3>2, <3>3
  <2>3. CASE r[next].name \notin U
    BY <1>8, <1>5, <2>1, <2>3
  <2> QED
    BY <2>2, <2>3
<1>10. /\ data' \in [{"client", "server"} -> SUBSET STRING]
      /\ data'["server"] = NamesIn(servers') /\ data'["client"] = data["client"]
  <2>1. data \in [{"client", "server"} -> SUBSET STRING]
    BY <1>6 DEF Types
  <2>2. CASE r[next].name \in U
    <3>1. data' = [data EXCEPT !["server"] = @ \cup {s.name}] /\ s.name = r[next].name /\ s \in Server
      BY <1>8, <1>4, <1>5, <2>2
    <3>2. s.name \in STRING
      BY <3>1 DEF Server
    <3>3. data' \in [{"client", "server"} -> SUBSET STRING]
      BY <2>1, <3>1, <3>2
    <3>4. data'["server"] = data["server"] \cup {s.name} /\ data'["client"] = data["client"]
      BY <2>1, <3>1
    <3> QED
      BY <1>7, <1>9, <2>2, <3>1, <3>3, <3>4
  <2>3. CASE r[next].name \notin U
    BY <1>8, <1>5, <1>7, <1>9, <2>1, <2>3
  <2> QED
    BY <2>2, <2>3
<1>11. Took(r, U, next, NamesIn(servers'))
  <2> DEFINE k == next - 1
             old == NamesIn(servers)
             new == NamesIn(servers')
  <2>1. k \in Nat /\ k + 1 = next /\ Took(r, U, k, old)
    BY <1>3, <1>7
  <2> HIDE DEF k, old, new
  <2>2. new = IF r[k + 1].name \in U THEN old \cup {r[k + 1].name} ELSE old
    BY <1>9, <2>1 DEF old, new
  <2>3. Took(r, U, k + 1, new)
    BY <1>3, <2>1, <2>2, TookMore
  <2> QED
    BY <2>1, <2>3 DEF new
<1>12. Types'
  BY <1>3, <1>6, <1>8, <1>9, <1>10, SMTT(30) DEF Types
<1>13. Sections'
  BY <1>3, SectionsStay
<1>14. Objects'
  <2>1. Usable("server")' = U /\ sections'["server"] = r /\ Usable("client")' = Usable("client")
    BY <1>3, FileStays DEF U, r
  <2>2. Took(sections["server"], Usable("server"), next - 1, NamesIn(servers))'
    BY <1>3, <1>11, <2>1
  <2>3. All("client", clients)'
    BY <1>8, <1>7, <1>10, <2>1 DEF All
  <2> QED
    BY <1>8, <1>3, <1>7, <1>10, <2>2, <2>3 DEF Objects
<1>15. Refused' /\ Lists'
  <2>1. pc' # "failed"
    BY <1>3
  <2>2. DOMAIN balancers' = {}
    BY <1>8, <1>7
  <2> QED
    BY <2>1, <2>2 DEF Lists, Refused
<1> QED
  BY <1>12, <1>13, <1>14, <1>15 DEF CInv


\* There is always a metric to judge servers by.
LEMMA MetricsAre ==
    ASSUME NEW words
    PROVE  Metrics(words) \in SUBSET {"cap", "mem", "cpu"}
BY DEF Metrics

\* A balancer gets what it is meant to have, if all clients and servers are there.
LEMMA BalancerOfIs ==
    ASSUME file \in Files, NEW r, Written("balancer", r), NEW j \in DOMAIN r,
           \A class \in {"client", "server"} : NamesIn(sections[class]) = NamesOf(class),
           clients \in Seq(Client), servers \in Seq(Server),
           All("client", clients), All("server", servers)
    PROVE  LET b == BalancerOf(r[j])
           IN /\ b \in Balancer /\ b.name = r[j].name
              /\ ToSet(b.clients) = Meant(b.name, "client", "clients")
              /\ ToSet(b.servers) = Meant(b.name, "server", "servers")
              /\ b.clients = <<>> <=> Meant(b.name, "client", "clients") = {}
              /\ b.servers = <<>> <=> Meant(b.name, "server", "servers") = {}
<1> DEFINE sc == r[j]
           b  == BalancerOf(sc)
           cs == Listed(GetStrings(sc, "clients"), "client", clients)
           ss == Listed(GetStrings(sc, "servers"), "server", servers)
           me == IF GetStrings(sc, "method") = <<"byrequests">> THEN "byrequests" ELSE "bybusyness"
           ms == Metrics(GetStrings(sc, "metrics"))
<1>1. b = [name |-> sc.name, clients |-> cs, servers |-> ss, method |-> me, metrics |-> ms]
  BY Zenon DEF BalancerOf
<1>2. /\ cs \in Seq(Listable) /\ ToSet(cs) = Meant(sc.name, "client", "clients")
      /\ cs = <<>> <=> Meant(sc.name, "client", "clients") = {}
  <2>1. \A o \in Client : o.name \in STRING
    BY DEF Client
  <2>2. NamesIn(clients) = Usable("client") /\ data["client"] = Usable("client")
    BY DEF All
  <2>3. NamesIn(sections["client"]) = NamesOf("client")
    OBVIOUS
  <2> QED
    BY <2>1, <2>2, <2>3, ListedIs DEF Listable
<1>3. /\ ss \in Seq(Listable) /\ ToSet(ss) = Meant(sc.name, "server", "servers")
      /\ ss = <<>> <=> Meant(sc.name, "server", "servers") = {}
  <2>1. \A o \in Server : o.name \in STRING
    BY DEF Server
  <2>2. NamesIn(servers) = Usable("server") /\ data["server"] = Usable("server")
    BY DEF All
  <2>3. NamesIn(sections["server"]) = NamesOf("server")
    OBVIOUS
  <2> QED
    BY <2>1, <2>2, <2>3, ListedIs DEF Listable
<1>4. sc.name \in STRING
  BY SectionIs
<1>5. me \in {"byrequests", "bybusyness"}
  OBVIOUS
<1>6. ms \in SUBSET {"cap", "mem", "cpu"}
  BY MetricsAre
<1> HIDE DEF b, cs, ss, me, ms, sc
<1>7. b \in Balancer /\ b.name = sc.name /\ b.clients = cs /\ b.servers = ss
  BY <1>1, <1>2, <1>3, <1>4, <1>5, <1>6 DEF Balancer
<1> QED
  BY <1>2, <1>3, <1>7 DEF b, sc

\* A balancer is added exactly if it has clients and servers.
LEMMA BalancerStep ==
    ASSUME CInv, LoadBalancer
    PROVE  CInv'
<1> DEFINE r == sections["balancer"]
           b == BalancerOf(r[next])
<1>1. /\ Loading("balancer") /\ data' = data /\ clients' = clients /\ servers' = servers
      /\ balancers' = IF b.clients = <<>> \/ b.servers = <<>> THEN balancers ELSE Append(balancers, b)
  BY Zenon DEF LoadBalancer, Section
<1>2. "balancer" \in Classes
  BY DEF Classes
<1>3. /\ file \in Files /\ Written("balancer", r) /\ r \in Seq(Sect) /\ Len(r) \in Nat
      /\ next \in DOMAIN r /\ next \in Nat /\ next - 1 \in Nat /\ (next - 1) + 1 = next
      /\ next <= Len(r)
      /\ next' = next + 1 /\ next' - 1 = next
      /\ r[next].name \in NamesOf("balancer")
      /\ file' = file /\ pc' = pc /\ sections' = sections /\ proxy' = proxy /\ pc = "balancer"
  BY <1>1, <1>2, HereIs
<1>4. Types /\ Objects /\ Lists /\ Sections
  BY DEF CInv
<1>5. /\ Took(r, Valid, next - 1, NamesIn(balancers)) /\ All("client", clients) /\ All("server", servers)
  BY <1>3, <1>4 DEF Objects
<1>6. /\ b \in Balancer /\ b.name = r[next].name
      /\ ToSet(b.clients) = Meant(b.name, "client", "clients")
      /\ ToSet(b.servers) = Meant(b.name, "server", "servers")
      /\ b.clients = <<>> <=> Meant(b.name, "client", "clients") = {}
      /\ b.servers = <<>> <=> Meant(b.name, "server", "servers") = {}
  <2>1. \A class \in {"client", "server"} : NamesIn(sections[class]) = NamesOf(class)
    BY <1>3, <1>4 DEF Sections, Written, Classes
  <2>2. clients \in Seq(Client) /\ servers \in Seq(Server)
    BY <1>4 DEF Types
  <2> QED
    BY <1>3, <1>5, <2>1, <2>2, BalancerOfIs
<1> HIDE DEF b, r
<1>7. balancers' = IF r[next].name \in Valid THEN Append(balancers, b) ELSE balancers
  <2>1. r[next].name \in Valid <=> ~ (b.clients = <<>> \/ b.servers = <<>>)
    BY <1>3, <1>6 DEF Valid
  <2> QED
    BY <1>1, <2>1
<1>8. /\ balancers' \in Seq(Balancer)
      /\ NamesIn(balancers') = IF r[next].name \in Valid THEN NamesIn(balancers) \cup {r[next].name}
                               ELSE NamesIn(balancers)
      /\ \A i \in DOMAIN balancers' : balancers'[i] = b \/ \E j \in DOMAIN balancers : balancers'[i] = balancers[j]
  <2>1. balancers \in Seq(Balancer)
    BY <1>4 DEF Types
  <2>2. CASE r[next].name \in Valid
    <3>1. balancers' = Append(balancers, b)
      BY <1>7, <2>2
    <3>2. /\ Append(balancers, b) \in Seq(Balancer)
          /\ NamesIn(Append(balancers, b)) = NamesIn(balancers) \cup {b.name}
          /\ \A i \in DOMAIN Append(balancers, b) :
                Append(balancers, b)[i] = b \/ \E j \in DOMAIN balancers : Append(balancers, b)[i] = balancers[j]
      BY <1>6, <2>1, OneObject
    <3> QED
      BY <1>6, <2>2, <3>1, <3>2
  <2>3. CASE r[next].name \notin Valid
    BY <1>7, <2>1, <2>3
  <2> QED
    BY <2>2, <2>3
<1>9. Took(r, Valid, next, NamesIn(balancers'))
  <2> DEFINE k == next - 1
             old == NamesIn(balancers)
             new == NamesIn(balancers')
  <2>1. k \in Nat /\ k + 1 = next /\ Took(r, Valid, k, old)
    BY <1>3, <1>5
  <2> HIDE DEF k, old, new
  <2>2. new = IF r[k + 1].name \in Valid THEN old \cup {r[k + 1].name} ELSE old
    BY <1>8, <2>1 DEF old, new
  <2>3. Took(r, Valid, k + 1, new)
    BY <1>3, <2>1, <2>2, TookMore
  <2> QED
    BY <2>1, <2>3 DEF new
<1>10. Types'
  BY <1>1, <1>3, <1>4, <1>8, SMTT(30) DEF Types
<1>11. Sections'
  BY <1>3, SectionsStay
<1>12. Objects'
  <2>1. Valid' = Valid /\ sections'["balancer"] = r /\ \A c : Usable(c)' = Usable(c)
    BY <1>3, FileStays DEF r
  <2>2. Took(sections["balancer"], Valid, next - 1, NamesIn(balancers))'
    BY <1>3, <1>9, <2>1
  <2>3. All("client", clients)' /\ All("server", servers)'
    BY <1>1, <1>5, <2>1 DEF All
  <2> QED
    BY <1>3, <2>2, <2>3 DEF Objects
<1>13. Refused'
  BY <1>3 DEF Refused
<1>14. Lists'
  <2>1. \A n, c, k : Meant(n, c, k)' = Meant(n, c, k)
    BY <1>3, FileStays
  <2>2. ASSUME NEW i \in DOMAIN balancers'
        PROVE  /\ ToSet(balancers'[i].clients) = Meant(balancers'[i].name, "client", "clients")
               /\ ToSet(balancers'[i].servers) = Meant(balancers'[i].name, "server", "servers")
    <3>1. CASE balancers'[i] = b
      BY <1>6, <3>1
    <3>2. CASE \E j \in DOMAIN balancers : balancers'[i] = balancers[j]
      BY <1>4, <3>2 DEF Lists
    <3> QED
      BY <1>8, <3>1, <3>2
  <2> QED
    BY <2>1, <2>2 DEF Lists
<1> QED
  BY <1>10, <1>11, <1>12, <1>13, <1>14 DEF CInv

\* The end of a class.
LEMMA EndOf ==
    ASSUME CInv, NEW class \in Classes, NEW then, NextClass(class, then)
    PROVE  LET r == sections[class]
           IN /\ pc = class /\ pc' = then /\ next' = 1 /\ next > Len(r)
              /\ file \in Files /\ Written(class, r) /\ r \in Seq(Sect) /\ Len(r) \in Nat
              /\ next \in Nat /\ file' = file /\ sections' = sections /\ data' = data /\ proxy' = proxy
              /\ clients' = clients /\ servers' = servers /\ balancers' = balancers
              /\ NamesIn(r) = NamesOf(class)
<1> DEFINE r == sections[class]
<1>1. /\ pc = class /\ pc' = then /\ next' = 1 /\ next > Len(r)
      /\ file' = file /\ sections' = sections /\ data' = data /\ proxy' = proxy
      /\ clients' = clients /\ servers' = servers /\ balancers' = balancers
  BY DEF NextClass
<1>2. file \in Files /\ next \in Nat /\ Sections
  BY DEF CInv, Types
<1>3. Written(class, r)
  BY <1>1, <1>2 DEF Sections, Classes
<1> HIDE DEF r
<1>4. r \in Seq(Sect) /\ NamesIn(r) = NamesOf(class)
  BY <1>3 DEF Written
<1>5. Len(r) \in Nat
  BY <1>4, LenProperties
<1> QED
  BY <1>1, <1>2, <1>3, <1>4, <1>5 DEF r

\* At the end of a class all of it was looked at.
LEMMA TookEnd ==
    ASSUME NEW r \in Seq(Sect), NEW U, NEW names, next \in Nat, next > Len(r),
           Took(r, U, next - 1, names), U \subseteq NamesIn(r)
    PROVE  names = U
<1>1. Len(r) \in Nat
  BY LenProperties
<1>2. next - 1 = Len(r)
  BY <1>1 DEF Took
<1> QED
  BY <1>2, TookAll

\* At the end of a class all its usable sections have objects, so that the next class
\* finds them; without balancers the configuration is refused.
LEMMA EndStep ==
    ASSUME CInv, LoadEnd
    PROVE  CInv'
<1>1. Types /\ Objects /\ Lists /\ Sections
  BY DEF CInv
<1>2. "client" \in Classes /\ "server" \in Classes /\ "balancer" \in Classes
  BY DEF Classes
<1>3. CASE NextClass("client", "server")
  <2> DEFINE r == sections["client"]
  <2>1. /\ pc = "client" /\ pc' = "server" /\ next' = 1 /\ next > Len(r)
        /\ file \in Files /\ Written("client", r) /\ r \in Seq(Sect) /\ Len(r) \in Nat
        /\ next \in Nat /\ file' = file /\ sections' = sections /\ data' = data /\ proxy' = proxy
        /\ clients' = clients /\ servers' = servers /\ balancers' = balancers
        /\ NamesIn(r) = NamesOf("client")
    BY <1>2, <1>3, EndOf
  <2>2. /\ Took(r, Usable("client"), next - 1, NamesIn(clients)) /\ data["client"] = NamesIn(clients)
        /\ servers = <<>> /\ data["server"] = {} /\ balancers = <<>>
    BY <1>1, <2>1 DEF Objects
  <2>3. NamesIn(clients) = Usable("client")
    <3>1. Usable("client") \subseteq NamesIn(r)
      BY <2>1, MeantUsable
    <3> HIDE DEF r
    <3> QED
      BY <2>1, <2>2, <3>1, TookEnd
  <2>4. Types'
    BY <1>1, <2>1 DEF Types, Phases, Classes
  <2>5. Sections'
    BY <2>1, SectionsStay
  <2>6. Objects'
    <3>1. All("client", clients)'
      BY <2>1, <2>2, <2>3, FileStays DEF All
    <3>2. Took(sections["server"], Usable("server"), next - 1, NamesIn(servers))'
      <4> DEFINE q == sections'["server"]
      <4>1. Len(q) \in Nat
        <5>1. Written("server", q)
          BY <1>1, <1>2, <2>1 DEF Sections
        <5> HIDE DEF q
        <5>2. q \in Seq(Sect)
          BY <5>1 DEF Written
        <5> QED
          BY <5>2, LenProperties
      <4>2. Took(q, Usable("server")', 0, {})
        BY <4>1, TookNone
      <4>3. next' - 1 = 0 /\ NamesIn(servers') = {}
        BY <2>1, <2>2, NothingIn
      <4> QED
        BY <4>2, <4>3
    <3>3. data'["server"] = NamesIn(servers')
      BY <2>1, <2>2, NothingIn
    <3> QED
      BY <2>1, <2>2, <3>1, <3>2, <3>3 DEF Objects
  <2>7. Refused'
    BY <2>1 DEF Refused
  <2>8. Lists'
    BY <1>1, <2>1, FileStays DEF Lists
  <2> QED
    BY <2>4, <2>5, <2>6, <2>7, <2>8 DEF CInv
<1>4. CASE NextClass("server", "balancer")
  <2> DEFINE r == sections["server"]
  <2>1. /\ pc = "server" /\ pc' = "balancer" /\ next' = 1 /\ next > Len(r)
        /\ file \in Files /\ Written("server", r) /\ r \in Seq(Sect) /\ Len(r) \in Nat
        /\ next \in Nat /\ file' = file /\ sections' = sections /\ data' = data /\ proxy' = proxy
        /\ clients' = clients /\ servers' = servers /\ balancers' = balancers
        /\ NamesIn(r) = NamesOf("server")
    BY <1>2, <1>4, EndOf
  <2>2. /\ Took(r, Usable("server"), next - 1, NamesIn(servers)) /\ data["server"] = NamesIn(servers)
        /\ balancers = <<>> /\ All("client", clients)
    BY <1>1, <2>1 DEF Objects
  <2>3. NamesIn(servers) = Usable("server")
    <3>1. Usable("server") \subseteq NamesIn(r)
      BY <2>1, MeantUsable
    <3> HIDE DEF r
    <3> QED
      BY <2>1, <2>2, <3>1, TookEnd
  <2>4. Types'
    BY <1>1, <2>1 DEF Types, Phases, Classes
  <2>5. Sections'
    BY <2>1, SectionsStay
  <2>6. Objects'
    <3>1. All("client", clients)' /\ All("server", servers)'
      BY <2>1, <2>2, <2>3, FileStays DEF All
    <3>2. Took(sections["balancer"], Valid, next - 1, NamesIn(balancers))'
      <4> DEFINE q == sections'["balancer"]
      <4>1. Len(q) \in Nat
        <5>1. Written("balancer", q)
          BY <1>1, <1>2, <2>1 DEF Sections
        <5> HIDE DEF q
        <5>2. q \in Seq(Sect)
          BY <5>1 DEF Written
        <5> QED
          BY <5>2, LenProperties
      <4>2. Took(q, Valid', 0, {})
        BY <4>1, TookNone
      <4>3. next' - 1 = 0 /\ NamesIn(balancers') = {}
        BY <2>1, <2>2, NothingIn
      <4> QED
        BY <4>2, <4>3
    <3> QED
      BY <2>1, <3>1, <3>2 DEF Objects
  <2>7. Refused'
    BY <2>1 DEF Refused
  <2>8. Lists'
    BY <1>1, <2>1, FileStays DEF Lists
  <2> QED
    BY <2>4, <2>5, <2>6, <2>7, <2>8 DEF CInv
<1>5. CASE NextClass("balancer", IF balancers = <<>> THEN "failed" ELSE "listen")
  <2> DEFINE r == sections["balancer"]
             then == IF balancers = <<>> THEN "failed" ELSE "listen"
  <2>1. /\ pc = "balancer" /\ pc' = then /\ next' = 1 /\ next > Len(r)
        /\ file \in Files /\ Written("balancer", r) /\ r \in Seq(Sect) /\ Len(r) \in Nat
        /\ next \in Nat /\ file' = file /\ sections' = sections /\ data' = data /\ proxy' = proxy
        /\ clients' = clients /\ servers' = servers /\ balancers' = balancers
        /\ NamesIn(r) = NamesOf("balancer")
    BY <1>2, <1>5, EndOf
  <2>2. /\ Took(r, Valid, next - 1, NamesIn(balancers))
        /\ All("client", clients) /\ All("server", servers)
    BY <1>1, <2>1 DEF Objects
  <2>3. NamesIn(balancers) = Valid
    <3>1. Valid \subseteq NamesIn(r)
      BY <2>1 DEF Valid
    <3> HIDE DEF r
    <3> QED
      BY <2>1, <2>2, <3>1, TookEnd
  <2>4. Types'
    BY <1>1, <2>1 DEF Types, Phases, Classes
  <2>5. Sections'
    BY <2>1, SectionsStay
  <2>6. Objects'
    <3>1. All("client", clients)' /\ All("server", servers)'
      BY <2>1, <2>2, FileStays DEF All
    <3>2. NamesIn(balancers)' = Valid'
      BY <2>1, <2>3, FileStays
    <3> QED
      BY <2>1, <3>1, <3>2 DEF Objects
  <2>7. Refused'
    <3>1. pc' = "failed" => Valid' = {}
      BY <2>1, <2>3, FileStays, NothingIn
    <3> QED
      BY <3>1 DEF Refused
  <2>8. Lists'
    BY <1>1, <2>1, FileStays DEF Lists
  <2> QED
    BY <2>4, <2>5, <2>6, <2>7, <2>8 DEF CInv
<1> QED
  BY <1>3, <1>4, <1>5, Zenon DEF LoadEnd


\* The listeners that are left are listeners.
LEMMA LeftListeners ==
    ASSUME NEW l \in Seq(Served), NEW ok
    PROVE  LET left == Among([j \in DOMAIN l |-> j], ok)
           IN [j \in DOMAIN left |-> l[left[j]]] \in Seq(Served)
<1> DEFINE V == 1 .. Len(l)
           q == [j \in DOMAIN l |-> j]
           left == Among(q, ok)
           N == Len(left)
<1>1. Len(l) \in Nat /\ DOMAIN l = V /\ \A i \in V : l[i] \in Served
  BY LenProperties, ElementOfSeq
<1>2. q \in Seq(V)
  <2>1. q = [j \in 1 .. Len(l) |-> j]
    BY <1>1
  <2> QED
    BY <1>1, <2>1
<1> HIDE DEF V, q
<1>3. left \in Seq(V)
  BY <1>2, AmongElements
<1> HIDE DEF left
<1>4. N \in Nat /\ DOMAIN left = 1 .. N /\ \A j \in 1 .. N : left[j] \in V
  BY <1>3, LenProperties, ElementOfSeq
<1>5. \A j \in 1 .. N : l[left[j]] \in Served
  BY <1>1, <1>4
<1> HIDE DEF N
<1>6. [j \in 1 .. N |-> l[left[j]]] \in Seq(Served)
  BY <1>4, <1>5
<1> QED
  BY <1>4, <1>6 DEF left, q

\* Dropping listeners changes no other option.
LEMMA ListenStep ==
    ASSUME CInv, Listen
    PROVE  CInv'
<1>1. PICK ok : /\ pc = "listen"
                /\ LET left == Among([j \in DOMAIN proxy.listeners |-> j], ok)
                   IN proxy' = [proxy EXCEPT !.listeners = [j \in DOMAIN left |-> @[left[j]]]]
                /\ pc' = IF ok = {} THEN "no listener" ELSE "running"
                /\ file' = file /\ next' = next /\ sections' = sections /\ data' = data
                /\ clients' = clients /\ servers' = servers /\ balancers' = balancers
  BY Zenon DEF Listen
<1> DEFINE l == proxy.listeners
           left == Among([j \in DOMAIN l |-> j], ok)
           new == [j \in DOMAIN left |-> l[left[j]]]
<1>2. proxy' = [proxy EXCEPT !.listeners = new]
  BY <1>1
<1>3. Types /\ Objects /\ Lists
  BY DEF CInv
<1>4. OptionsOK(proxy)
  BY <1>3 DEF Types
<1>5. new \in Seq(Served)
  <2>1. l \in Seq(Served)
    BY <1>4 DEF OptionsOK
  <2> QED
    BY <2>1, LeftListeners
<1> HIDE DEF new
<1>6. OptionsOK(proxy') /\ proxy'.info_enabled = proxy.info_enabled
  <2>1. proxy \in Options
    BY <1>4 DEF OptionsOK
  <2>2. /\ proxy' \in Options /\ proxy'.listeners = new
        /\ proxy'.info_enabled = proxy.info_enabled /\ proxy'.info_period = proxy.info_period
        /\ proxy'.status_period = proxy.status_period /\ proxy'.cache_timeout = proxy.cache_timeout
        /\ proxy'.conn_timeout = proxy.conn_timeout /\ proxy'.max_faults = proxy.max_faults
        /\ proxy'.socket_mode = proxy.socket_mode /\ proxy'.buffer_mode = proxy.buffer_mode
        /\ proxy'.max_buffer = proxy.max_buffer
    BY <1>2, <1>5, <2>1 DEF Options
  <2> QED
    BY <1>4, <1>5, <2>2 DEF OptionsOK
<1>7. Types'
  BY <1>1, <1>3, <1>6 DEF Types, Phases
<1>8. Sections'
  BY <1>1, SectionsStay
<1>9. Objects'
  <2>1. All("client", clients) /\ All("server", servers) /\ NamesIn(balancers) = Valid /\ balancers # <<>>
    BY <1>1, <1>3 DEF Objects
  <2>2. All("client", clients)' /\ All("server", servers)'
    BY <1>1, <2>1, FileStays DEF All
  <2>3. NamesIn(balancers)' = Valid' /\ balancers' # <<>>
    BY <1>1, <2>1, FileStays
  <2> QED
    BY <1>1, <2>2, <2>3 DEF Objects
<1>10. Refused'
  BY <1>1 DEF Refused
<1>11. Lists'
  BY <1>1, <1>3, FileStays DEF Lists
<1> QED
  BY <1>7, <1>8, <1>9, <1>10, <1>11 DEF CInv

\* Connections leave the configuration alone.
LEMMA ConfigStays ==
    ASSUME CInv, UNCHANGED configVars
    PROVE  CInv'
<1>1. /\ file' = file /\ pc' = pc /\ next' = next /\ sections' = sections /\ data' = data
      /\ proxy' = proxy /\ clients' = clients /\ servers' = servers /\ balancers' = balancers
  BY DEF configVars
<1>2. Types /\ Sections /\ Objects /\ Refused /\ Lists
  BY DEF CInv
<1>3. /\ \A c : NamesOf(c)' = NamesOf(c) /\ Usable(c)' = Usable(c)
      /\ \A c, q : Written(c, q)' <=> Written(c, q)
      /\ \A b, c, key : Meant(b, c, key)' = Meant(b, c, key)
      /\ Valid' = Valid
  BY <1>1, FileStays
<1>4. Types'
  BY <1>1, <1>2 DEF Types
<1>5. Sections'
  BY <1>1, <1>2, <1>3 DEF Sections
<1>6. Objects'
  <2>1. \A c : All(c, clients)' <=> All(c, clients)
    BY <1>1, <1>3 DEF All
  <2>2. \A c : All(c, servers)' <=> All(c, servers)
    BY <1>1, <1>3 DEF All
  <2> QED
    BY <1>1, <1>2, <1>3, <2>1, <2>2 DEF Objects
<1>7. Refused'
  BY <1>1, <1>2, <1>3 DEF Refused
<1>8. Lists'
  BY <1>1, <1>2, <1>3 DEF Lists
<1> QED
  BY <1>4, <1>5, <1>6, <1>7, <1>8 DEF CInv

\* Every step of the configuration keeps its invariant.
LEMMA ConfigStep ==
    ASSUME CInv, ConfigNext
    PROVE  CInv'
BY OptionsStep, NothingStep, ClientStep, ServerStep, BalancerStep, EndStep, ListenStep DEF ConfigNext

-----------------------------------------------------------------------------
(* The invariant of the whole. *)

BInv == BufInv(proxy.socket_mode, proxy.max_buffer) /\ (pc # "running" => channel = "none")

Inv == CInv /\ BInv

\* Before the first channel its buffers have their least size.
LEMMA BuffersStart ==
    ASSUME BuffersInit, NEW mode, NEW limit
    PROVE  BufInv(mode, limit) /\ channel = "none"
<1>1. /\ system = [s \in Ends |-> [d \in Directions |-> SysMin]]
      /\ mss = [s \in Ends |-> STANDARD_MSS]
      /\ set = [s \in Ends |-> FALSE]
      /\ size = [s \in Ends |-> STANDARD_BSS]
      /\ channel = "none"
  BY DEF BuffersInit
<1>2. SysMin \in Nat
  BY BuffersAssumption
<1>3. STANDARD_MSS \in Nat \ {0} /\ STANDARD_BSS \in Nat
  BY DEF STANDARD_MSS, STANDARD_BSS
<1>4. "source" \in Ends
  BY DEF Ends
<1>5. /\ system \in [Ends -> [Directions -> Nat]] /\ mss \in [Ends -> Nat \ {0}]
      /\ set \in [Ends -> BOOLEAN] /\ size \in [Ends -> Nat]
      /\ (\A s \in Ends : ~ set[s] /\ size[s] = STANDARD_BSS) /\ ~ set["source"]
  BY <1>1, <1>2, <1>3, <1>4
<1>6. \A s \in Ends : size[s] >= STANDARD_BSS
  BY <1>3, <1>5
<1> QED
  BY <1>1, <1>5, <1>6 DEF BufInv

\* Without a channel the options may change.
LEMMA BuffersStay ==
    ASSUME NEW mode, NEW limit, BufInv(mode, limit), UNCHANGED bufferVars,
           NEW m, NEW l, channel = "none" \/ (m = mode /\ l = limit)
    PROVE  BufInv(m, l)'
<1>1. /\ system' = system /\ mss' = mss /\ set' = set /\ size' = size /\ channel' = channel
  BY DEF bufferVars
<1>2. BufInv(m, l)
  <2>1. CASE m = mode /\ l = limit
    BY <2>1
  <2>2. CASE channel = "none"
    <3>1. ~ set["source"]
      BY <2>2 DEF BufInv, Ends
    <3> QED
      BY <3>1 DEF BufInv
  <2> QED
    BY <2>1, <2>2
<1> QED
  BY <1>1, <1>2 DEF BufInv


Fits ==
    channel = "open" /\ channel' = "connected" =>
        \A s \in Ends :
            /\ size'[s] >= size[s]
            /\ proxy.buffer_mode = ALIGN =>
                  /\ size'[s] >= system'[s]["recv"] \div 2
                  /\ size'[s] >= system'[Opposite(s)]["send"] \div 2
            /\ proxy.buffer_mode = MAXBUF => size'[s] = proxy.max_buffer

Settles ==
    channel = "open" /\ channel' = "open" /\ set["source"] =>
        \A d \in Directions :
            \/ system'["source"][d] = system["source"][d]
            \/ /\ system["source"][d] = 2 * SysMax
               /\ system'["source"][d] <= system["source"][d]
               /\ system'["source"][d] > system["source"][d] - 2 * mss["source"]

\* The invariant holds at first.
LEMMA SetupStart ==
    ASSUME Init
    PROVE  Inv
<1>1. CInv
  BY ConfigStart DEF Init
<1>2. BInv
  BY BuffersStart DEF Init, BInv
<1> QED
  BY <1>1, <1>2 DEF Inv

\* Loading keeps the invariant: there is no channel yet.
LEMMA LoadStep ==
    ASSUME Inv, Load
    PROVE  Inv' /\ Fits /\ Settles
<1>1. CInv /\ BInv /\ ConfigNext /\ UNCHANGED bufferVars
  BY DEF Inv, Load
<1>2. CInv'
  BY <1>1, ConfigStep
<1>3. pc # "running" /\ channel = "none" /\ channel' = channel
  <2>1. pc # "running"
    BY <1>1 DEF ConfigNext, LoadOptions, LoadNothing, LoadClient, LoadServer, LoadBalancer, LoadEnd,
                Loading, NextClass, Listen
  <2> QED
    BY <1>1, <2>1 DEF BInv, bufferVars
<1>4. BInv'
  <2>1. \A m, l : BufInv(m, l)'
    BY <1>1, <1>3, BuffersStay DEF BInv
  <2> QED
    BY <1>3, <2>1 DEF BInv
<1>5. Fits /\ Settles
  BY <1>3 DEF Fits, Settles
<1> QED
  BY <1>2, <1>4, <1>5 DEF Inv

\* A step of a connection keeps the invariant; buffers fit and settle.
LEMMA ConnectStep ==
    ASSUME Inv, Connect
    PROVE  Inv' /\ Fits /\ Settles
<1> DEFINE mode == proxy.socket_mode
           limit == proxy.max_buffer
<1>1. CInv /\ BufInv(mode, limit) /\ UNCHANGED configVars /\ pc = "running"
  BY DEF Inv, BInv, Connect
<1>2. CInv'
  BY <1>1, ConfigStays
<1>3. mode \in Nat /\ limit \in Nat /\ limit >= STANDARD_BSS /\ proxy.buffer_mode \in Nat
  <2>1. mode \in SYSTEM .. MAXBUF /\ proxy.buffer_mode \in SYSTEM .. MAXBUF
        /\ limit \in BUFFER_SIZE_MIN .. BUFFER_SIZE_MAX
    BY <1>1 DEF CInv, Types, OptionsOK
  <2> DEFINE buf == proxy.buffer_mode
  <2>2. /\ STANDARD_BSS = 8760 /\ SYSTEM = 0 /\ MAXBUF = 2
        /\ BUFFER_SIZE_MIN = 8760 /\ BUFFER_SIZE_MAX \in Int
    BY DEF SYSTEM, MAXBUF, BUFFER_SIZE_MIN, BUFFER_SIZE_MAX, STANDARD_BSS, STANDARD_MSS
  <2> HIDE DEF mode, limit, buf
  <2>3. mode \in Nat /\ buf \in Nat
    BY <2>1, <2>2 DEF buf
  <2>4. limit \in Nat /\ limit >= STANDARD_BSS
    BY <2>1, <2>2
  <2> QED
    BY <2>3, <2>4 DEF buf
<1>4. proxy' = proxy /\ pc' = pc
  BY <1>1 DEF configVars
<1>5. BufInv(mode, limit)' => BInv'
  BY <1>1, <1>4 DEF BInv
<1>6. CASE AcceptBuffers(mode, limit)
  <2> HIDE DEF mode, limit
  <2>1. \A x, y \in Nat : BufInv(x, y) /\ AcceptBuffers(x, y) => BufInv(x, y)'
    BY AcceptKeeps
  <2>2. channel = "none"
    BY <1>6 DEF AcceptBuffers
  <2>3. Fits /\ Settles
    BY <2>2 DEF Fits, Settles
  <2>4. BInv'
    BY <1>1, <1>3, <1>4, <1>6, <2>1 DEF BInv, mode, limit
  <2> QED
    BY <1>2, <2>3, <2>4 DEF Inv
<1>7. CASE FailoverBuffers(mode, limit)
  <2>1. \A x, y \in Nat : BufInv(x, y) /\ FailoverBuffers(x, y) =>
          /\ BufInv(x, y)'
          /\ set["source"] => \A d \in Directions :
                 \/ system'["source"][d] = system["source"][d]
                 \/ /\ system["source"][d] = 2 * SysMax
                    /\ system'["source"][d] <= system["source"][d]
                    /\ system'["source"][d] > system["source"][d] - 2 * mss["source"]
    BY FailoverKeeps
  <2>2. channel' = "open"
    BY <1>7 DEF FailoverBuffers
  <2>3. Fits
    BY <2>2 DEF Fits
  <2>4. Settles
    BY <1>1, <1>3, <1>7, <2>1 DEF Settles
  <2>5. BInv'
    BY <1>1, <1>3, <1>4, <1>7, <2>1 DEF BInv
  <2> QED
    BY <1>2, <2>3, <2>4, <2>5 DEF Inv
<1>8. CASE ConnectedBuffers(mode, proxy.buffer_mode, limit)
  <2> DEFINE buf == proxy.buffer_mode
  <2>1. \A x, z, y \in Nat : y >= STANDARD_BSS /\ BufInv(x, y) /\ ConnectedBuffers(x, z, y) =>
          /\ BufInv(x, y)'
          /\ \A s \in Ends :
                /\ size'[s] >= size[s]
                /\ z = 1 => /\ size'[s] >= Half(system'[s]["recv"])
                            /\ size'[s] >= Half(system'[Opposite(s)]["send"])
                /\ z = 2 => size'[s] = y
    BY ConnectedKeeps
  <2>2. channel' = "connected"
    BY <1>8 DEF ConnectedBuffers
  <2>3. Settles
    BY <2>2 DEF Settles
  <2>4. Fits
    BY <1>1, <1>3, <1>8, <2>1 DEF Fits, Half, ALIGN, MAXBUF
  <2>5. BInv'
    BY <1>1, <1>3, <1>4, <1>8, <2>1 DEF BInv
  <2> QED
    BY <1>2, <2>3, <2>4, <2>5 DEF Inv
<1>9. CASE \E s \in Ends : Grow(s)
  <2>1. PICK s \in Ends : Grow(s)
    BY <1>9
  <2>2. \A x, y \in Nat : BufInv(x, y) =>
          BufInv(x, y)' /\ (set["source"] => system'["source"] = system["source"])
    BY <2>1, GrowKeeps
  <2>3. channel' = channel
    BY <2>1 DEF Grow
  <2>4. Fits
    BY <2>3 DEF Fits
  <2>5. Settles
    BY <1>1, <1>3, <2>2 DEF Settles
  <2>6. BInv'
    BY <1>1, <1>3, <1>4, <2>2 DEF BInv
  <2> QED
    BY <1>2, <2>4, <2>5, <2>6 DEF Inv
<1> QED
  BY <1>6, <1>7, <1>8, <1>9 DEF Connect

\* A step that changes nothing keeps the invariant.
LEMMA StillStep ==
    ASSUME Inv, UNCHANGED vars
    PROVE  Inv'
<1>1. CInv' /\ UNCHANGED bufferVars /\ proxy' = proxy /\ pc' = pc /\ channel' = channel
  BY ConfigStays DEF Inv, vars, configVars, bufferVars
<1>2. BInv'
  <2>1. \A m, l : BufInv(m, l) => BufInv(m, l)'
    BY <1>1, BuffersStay
  <2> QED
    BY <1>1, <2>1 DEF Inv, BInv
<1> QED
  BY <1>1, <1>2 DEF Inv

\* In every state the sections are those of the file, and the objects those of the
\* sections that were looked at; options are within bounds (nrdpx_load_config), and
\* buffers are as the options and the sockets make them.
THEOREM SetupInvariance == Spec => []Inv
<1>1. Inv /\ [Next]_vars => Inv'
  BY LoadStep, ConnectStep, StillStep DEF Next
<1> QED
  BY <1>1, SetupStart, PTL DEF Spec

\* When a channel becomes connected its buffers do not shrink, and take what the
\* options promise (nrdpx_channel_t::set_connected and adjust_buffers).
THEOREM SetupBuffersFit == Spec => BuffersFit
<1>1. Inv /\ [Next]_vars => [Fits]_vars
  BY LoadStep, ConnectStep DEF Next
<1>2. Fits <=> (channel = "open" /\ channel' = "connected" =>
        \A s \in Ends :
            /\ size'[s] >= size[s]
            /\ proxy.buffer_mode = ALIGN =>
                  /\ size'[s] >= system'[s]["recv"] \div 2
                  /\ size'[s] >= system'[Opposite(s)]["send"] \div 2
            /\ proxy.buffer_mode = MAXBUF => size'[s] = proxy.max_buffer)
  BY DEF Fits
<1> QED
  BY <1>1, <1>2, SetupInvariance, PTL DEF Spec, BuffersFit

\* However often a connection fails over, aligning the sizes of its source again does
\* not wear them down (nrdpx_socket_adjust_buffers), for all sizes and segments.
THEOREM SetupAlignSettles == Spec => AlignSettles
<1>1. Inv /\ [Next]_vars => [Settles]_vars
  BY LoadStep, ConnectStep DEF Next
<1>2. Settles <=> (channel = "open" /\ channel' = "open" /\ set["source"] =>
        \A d \in Directions :
            \/ system'["source"][d] = system["source"][d]
            \/ /\ system["source"][d] = 2 * SysMax
               /\ system'["source"][d] <= system["source"][d]
               /\ system'["source"][d] > system["source"][d] - 2 * mss["source"])
  BY DEF Settles
<1> QED
  BY <1>1, <1>2, SetupInvariance, PTL DEF Spec, AlignSettles


\* The names of objects, as a set.
LEMMA NamesAre ==
    ASSUME NEW V, NEW s \in Seq(V)
    PROVE  ToSet(Names(s)) = NamesIn(s)
<1>1. Len(s) \in Nat /\ DOMAIN s = 1 .. Len(s)
  BY LenProperties
<1>2. Names(s) = [i \in 1 .. Len(s) |-> s[i].name]
  BY <1>1 DEF Names
<1>3. ToSet(Names(s)) = {s[i].name : i \in 1 .. Len(s)}
  BY <1>2 DEF ToSet
<1> QED
  BY <1>1, <1>3 DEF NamesIn

\* As many sections as names.
LEMMA CountIs ==
    ASSUME NEW r \in Seq(Sect), Distinct(r)
    PROVE  Len(r) = Cardinality(NamesIn(r))
<1> DEFINE N == Len(r)
           S == 1 .. N
           T == NamesIn(r)
           f == [i \in S |-> r[i].name]
<1>1. N \in Nat /\ DOMAIN r = S
  BY LenProperties
<1>2. IsFiniteSet(S) /\ Cardinality(S) = N
  <2>1. IsFiniteSet(1 .. N) /\ Cardinality(1 .. N) = IF 1 > N THEN 0 ELSE N - 1 + 1
    <3> HIDE DEF N
    <3> QED
      BY <1>1, FS_Interval
  <2> HIDE DEF N
  <2> QED
    BY <1>1, <2>1
<1>3. f \in [S -> T]
  BY <1>1 DEF NamesIn
<1>4. \A a, b \in S : f[a] = f[b] => a = b
  BY <1>1 DEF Distinct
<1>5. \A t \in T : \E i \in S : f[i] = t
  BY <1>1 DEF NamesIn
<1> HIDE DEF f, S, T, N
<1>6. f \in Bijection(S, T)
  BY <1>3, <1>4, <1>5, Fun_IsBij
<1>7. ExistsBijection(S, T)
  BY <1>6, Fun_ExistsBij
<1>8. Cardinality(T) = Cardinality(S)
  BY <1>2, <1>7, FS_Bijection
<1> QED
  BY <1>2, <1>8 DEF N, T

\* The invariant gives the types and bounds.
LEMMA TypesHold ==
    ASSUME Inv
    PROVE  TypeOK
<1>1. CInv /\ BInv /\ Types
  BY DEF Inv, CInv
<1>2. OptionsOK(proxy) /\ pc \in Phases
  BY <1>1 DEF Types
<1>3. \A l \in ToSet(proxy.listeners) : l.host # "" /\ l.port # 0
  <2>1. proxy.listeners \in Seq(Served)
    BY <1>2 DEF OptionsOK
  <2>2. ToSet(proxy.listeners) \subseteq Served
    BY <2>1, ToSetIs
  <2>3. \A l \in Served : l.host # "" /\ l.port # 0
    BY DEF Served
  <2> QED
    BY <2>2, <2>3
<1>4. \A c \in ToSet(clients) : c.sources # <<>> /\ c.max_slots >= 0
  <2>1. ToSet(clients) \subseteq Client
    BY <1>1, ToSetIs DEF Types
  <2>2. \A c \in Client : c.sources # <<>> /\ c.max_slots >= 0
    BY DEF Client
  <2> QED
    BY <2>1, <2>2
<1>5. \A s \in ToSet(servers) :
          /\ s.max_slots >= 1 /\ s.max_weight \in 1 .. 100 /\ s.check_mode \in 0 .. 3
          /\ ~ proxy.info_enabled => s.check_mode <= 1
  <2>1. servers \in Seq(Server) /\ \A i \in DOMAIN servers : ~ proxy.info_enabled => servers[i].check_mode <= 1
    BY <1>1 DEF Types
  <2>2. ToSet(servers) \subseteq Server /\ ToSet(servers) = {servers[j] : j \in 1 .. Len(servers)}
        /\ DOMAIN servers = 1 .. Len(servers)
    BY <2>1, ToSetIs
  <2>3. \A s \in Server : s.max_slots >= 1 /\ s.max_weight \in 1 .. 100 /\ s.check_mode \in 0 .. 3
    <3> SUFFICES ASSUME NEW s \in Server
                 PROVE  s.max_slots >= 1 /\ s.max_weight \in 1 .. 100 /\ s.check_mode \in 0 .. 3
      OBVIOUS
    <3>1. s.max_weight \in 1 .. 100 /\ s.check_mode \in 0 .. 3 /\ s.max_slots \in Nat \ {0}
      BY Zenon DEF Server
    <3> QED
      BY <3>1
  <2>4. \A s \in ToSet(servers) : ~ proxy.info_enabled => s.check_mode <= 1
    BY <2>1, <2>2
  <2> QED
    BY <2>2, <2>3, <2>4
<1>6. /\ \A s \in Ends : size[s] >= BUFFER_SIZE_MIN
      /\ channel \in {"none", "open", "connected"}
  <2>1. STANDARD_BSS = BUFFER_SIZE_MIN
    BY DEF STANDARD_BSS, STANDARD_MSS, BUFFER_SIZE_MIN
  <2> QED
    BY <1>1, <2>1 DEF BInv, BufInv
<1>7. /\ proxy.conn_timeout \in 10 .. 900
      /\ proxy.cache_timeout = 0 \/ proxy.cache_timeout >= 5
      /\ proxy.max_faults >= 1 /\ proxy.info_period >= 10 /\ proxy.status_period >= 60
      /\ proxy.socket_mode \in SYSTEM .. MAXBUF /\ proxy.buffer_mode \in SYSTEM .. MAXBUF
      /\ proxy.max_buffer \in BUFFER_SIZE_MIN .. BUFFER_SIZE_MAX
  BY <1>2 DEF OptionsOK
<1> QED
  BY <1>2, <1>3, <1>4, <1>5, <1>6, <1>7, Zenon DEF TypeOK, Phases

\* The invariant gives that sections are read as written.
LEMMA ReadHolds ==
    ASSUME CInv
    PROVE  ReadAsWritten
<1> SUFFICES ASSUME pc \notin {"options", "failed"}, NEW c \in Classes
             PROVE  /\ Len(sections[c]) = Cardinality(NamesOf(c))
                    /\ {sections[c][j].name : j \in DOMAIN sections[c]} = NamesOf(c)
                    /\ \A j \in DOMAIN sections[c], key \in Keys :
                          LET sc == sections[c][j]
                              l  == Settings(c, sc.name, key)
                          IN /\ Has(sc, key) <=> l # {}
                             /\ Has(sc, key) => sc.items[key] = file.lines[Max(l)].val
  BY DEF ReadAsWritten
<1> DEFINE r == sections[c]
<1>1. file \in Files /\ Written(c, r)
  BY DEF CInv, Types, Sections
<1>2. r \in Seq(Sect) /\ Distinct(r) /\ NamesIn(r) = NamesOf(c)
  BY <1>1 DEF Written
<1>3. Len(r) = Cardinality(NamesOf(c))
  <2> HIDE DEF r
  <2> QED
    BY <1>2, CountIs
<1>4. {r[j].name : j \in DOMAIN r} = NamesOf(c)
  BY <1>2 DEF NamesIn
<1>5. ASSUME NEW j \in DOMAIN r, NEW key
      PROVE  /\ Has(r[j], key) <=> Settings(c, r[j].name, key) # {}
             /\ Has(r[j], key) => r[j].items[key] = file.lines[Max(Settings(c, r[j].name, key))].val
  <2> DEFINE sc == r[j]
             L  == Settings(c, sc.name, key)
  <2> HIDE DEF r
  <2>1. /\ Has(sc, key) <=> L # {}
        /\ Has(sc, key) => sc.items[key] = file.lines[Max(L)].val
    BY <1>1, SectionIs
  <2> QED
    BY <2>1
<1> QED
  BY <1>3, <1>4, <1>5

\* The invariant gives that objects are loaded as meant.
LEMMA LoadedHolds ==
    ASSUME CInv
    PROVE  LoadedAsMeant
<1>1. Types /\ Sections /\ Objects /\ Refused /\ Lists
  BY DEF CInv
<1>2. /\ clients \in Seq(Client) /\ servers \in Seq(Server) /\ balancers \in Seq(Balancer)
  BY <1>1 DEF Types
<1>3. /\ ToSet(Names(clients)) = NamesIn(clients) /\ ToSet(Names(servers)) = NamesIn(servers)
      /\ ToSet(Names(balancers)) = NamesIn(balancers)
  BY <1>2, NamesAre
<1>4. ASSUME pc \in {"listen", "running"}
      PROVE  /\ ToSet(Names(balancers)) = Valid
             /\ \A b \in ToSet(balancers) :
                   /\ ToSet(b.clients) = Meant(b.name, "client", "clients")
                   /\ ToSet(b.servers) = Meant(b.name, "server", "servers")
             /\ ToSet(Names(clients)) = Usable("client")
             /\ ToSet(Names(servers)) = Usable("server")
             /\ NamesOf("proxy") # {} /\ Valid # {}
  <2>1. /\ All("client", clients) /\ All("server", servers)
        /\ NamesIn(balancers) = Valid /\ balancers # <<>>
    BY <1>1, <1>4 DEF Objects
  <2>2. /\ ToSet(balancers) = {balancers[j] : j \in 1 .. Len(balancers)}
        /\ DOMAIN balancers = 1 .. Len(balancers) /\ balancers[1] \in ToSet(balancers)
    BY <1>2, <2>1, ToSetIs
  <2>3. \A b \in ToSet(balancers) :
                   /\ ToSet(b.clients) = Meant(b.name, "client", "clients")
                   /\ ToSet(b.servers) = Meant(b.name, "server", "servers")
    BY <1>1, <2>2 DEF Lists
  <2>4. Valid # {}
    BY <2>1, <2>2 DEF NamesIn
  <2>5. NamesOf("proxy") # {}
    <3> DEFINE r == sections["proxy"]
    <3>1. Written("proxy", r) /\ r # <<>>
      BY <1>1, <1>4 DEF Sections, Classes
    <3> HIDE DEF r
    <3>2. r \in Seq(Sect) /\ NamesIn(r) = NamesOf("proxy")
      BY <3>1 DEF Written
    <3>3. 1 \in DOMAIN r
      BY <3>1, <3>2, EmptySeq, LenProperties
    <3> QED
      BY <3>2, <3>3 DEF NamesIn
  <2> QED
    BY <1>3, <2>1, <2>3, <2>4, <2>5 DEF All
<1>5. pc = "failed" => NamesOf("proxy") = {} \/ Valid = {}
  BY <1>1 DEF Refused
<1> QED
  BY <1>4, <1>5 DEF LoadedAsMeant, Valid

\* The invariant gives that sources are matched by their first bits.
LEMMA MatchesHold ==
    ASSUME CInv
    PROVE  MatchesSources
<1> SUFFICES ASSUME NEW c \in ToSet(clients), NEW a \in Address
             PROVE  (\E net \in ToSet(c.sources) : InCidr(a, net)) <=>
                    (\E net \in ToSet(c.sources) : SamePrefix(a, net))
  BY DEF MatchesSources
<1>1. c \in Client
  <2>1. ToSet(clients) \subseteq Client
    BY ToSetIs DEF CInv, Types
  <2> QED
    BY <2>1
<1>2. ToSet(c.sources) \subseteq NetRange
  <2>1. c.sources \in Seq(NetRange)
    BY <1>1 DEF Client
  <2> QED
    BY <2>1, ToSetIs
<1>3. \A net \in NetRange : net.addr \in Address /\ net.pref \in 0 .. Full(net.addr.family)
  BY DEF NetRange
<1>4. \A net \in ToSet(c.sources) : InCidr(a, net) <=> SamePrefix(a, net)
  BY <1>2, <1>3, PrefixIsSame
<1> QED
  BY <1>4

\* Options, clients and servers are within the bounds other modules assume, for every
\* file that can be written (nrdpx_load_config).
THEOREM SetupTypes == Spec => []TypeOK
BY TypesHold, SetupInvariance, PTL

\* Whatever the order of sections and items in a file, each name has one section, and
\* each key the value of the last line that sets it (nrdpx_config_t).
THEOREM SetupReadAsWritten == Spec => []ReadAsWritten
<1>1. Inv => ReadAsWritten
  BY ReadHolds DEF Inv
<1> QED
  BY <1>1, SetupInvariance, PTL

\* The proxy has exactly the balancers, clients and servers the file means, and is
\* refused exactly for the lack of them (nrdpx_load_config).
THEOREM SetupLoadedAsMeant == Spec => []LoadedAsMeant
<1>1. Inv => LoadedAsMeant
  BY LoadedHolds DEF Inv
<1> QED
  BY <1>1, SetupInvariance, PTL

\* A client group is matched exactly by the addresses that begin like one of its
\* sources, for words of every width (is_addr_in_cidr).
THEOREM SetupMatchesSources == Spec => []MatchesSources
<1>1. Inv => MatchesSources
  BY MatchesHold DEF Inv
<1> QED
  BY <1>1, SetupInvariance, PTL
=============================================================================
