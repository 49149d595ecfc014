------------------------- MODULE DescDMAJobsProofs -------------------------
(***************************************************************************)
(* What the operations of a bank of descriptor DMA engines preserve, for   *)
(* every ring length and every number of engines: the jobs stay one after  *)
(* the other on the ring (JobsContiguous) whatever the order in which the  *)
(* engines finish.                                                         *)
(***************************************************************************)
EXTENDS DescDMAJobs, FiniteSetTheorems, SequenceTheorems, TLAPS

-----------------------------------------------------------------------------
(* Arithmetic. *)

(* Every non-empty set of naturals has a least element. *)
LEMMA LeastNat ==
    ASSUME NEW S \in SUBSET Nat, S # {}
    PROVE  \E m \in S : \A x \in S : m <= x
<1>1. PICK m \in S : \A x \in S : ~ (<<x, m>> \in OpToRel(<, Nat))
  BY WFMin, NatLessThanWellFounded
<1>2. ASSUME NEW x \in S PROVE m <= x
  <2>1. ~ (x < m)
    BY <1>1 DEF OpToRel
  <2> QED
    BY <2>1
<1> QED
  BY <1>2

(* Division with remainder. *)
LEMMA DivMod ==
    ASSUME NEW L \in Nat \ {0}, NEW a \in Nat
    PROVE  /\ (a % L) \in 0 .. (L - 1)
           /\ (a \div L) \in Nat
           /\ a = (L * (a \div L)) + (a % L)
OBVIOUS

LEMMA ModUnique ==
    ASSUME NEW L \in Nat \ {0}, NEW q \in Nat, NEW r \in 0 .. (L - 1)
    PROVE  ((L * q) + r) % L = r
OBVIOUS

(* A remainder may be taken before an addition. *)
LEMMA ModAdd ==
    ASSUME NEW L \in Nat \ {0}, NEW a \in Nat, NEW b \in Nat
    PROVE  ((a % L) + b) % L = (a + b) % L
<1> DEFINE q == a \div L
           r == a % L
           p == (r + b) \div L
           s == (r + b) % L
<1>1. a = (L * q) + r /\ q \in Nat /\ r \in 0 .. (L - 1)
  BY DivMod
<1>2. r + b \in Nat
  BY <1>1
<1>3. r + b = (L * p) + s /\ p \in Nat /\ s \in 0 .. (L - 1)
  BY <1>2, DivMod
<1> HIDE DEF q, r, p, s
<1>4. a + b = (L * (q + p)) + s
  BY <1>1, <1>3
<1>5. q + p \in Nat
  BY <1>1, <1>3
<1>6. ((L * (q + p)) + s) % L = s
  BY <1>3, <1>5, ModUnique
<1> QED
  BY <1>4, <1>6 DEF r, s

(* The conditional subtraction of the code is the remainder as long as the *)
(* sum does not pass the end of the ring.                                  *)
LEMMA WrapIsMod ==
    ASSUME NEW a \in Slots, NEW n \in Nat, a + n <= DescLen
    PROVE  Wrap(a + n) = (a + n) % DescLen /\ Wrap(a + n) \in Slots
<1> USE DescLenAssumption DEF Slots
<1>1. CASE a + n = DescLen
  <2>1. ((DescLen * 1) + 0) % DescLen = 0
    BY ModUnique
  <2>2. (a + n) = (DescLen * 1) + 0
    BY <1>1
  <2> QED
    BY <1>1, <2>1, <2>2 DEF Wrap
<1>2. CASE a + n < DescLen
  <2>1. ((DescLen * 0) + (a + n)) % DescLen = a + n
    BY <1>2, ModUnique
  <2>2. (a + n) = (DescLen * 0) + (a + n)
    OBVIOUS
  <2> QED
    BY <1>2, <2>1, <2>2 DEF Wrap
<1> QED
  BY <1>1, <1>2

(* One round of the ring names each slot once. *)
LEMMA ModFar ==
    ASSUME NEW L \in Nat \ {0}, NEW a \in Nat, NEW n \in 1 .. L - 1
    PROVE  (a + n) % L # a % L
<1> DEFINE q == a \div L
           r == a % L
<1>1. a = (L * q) + r /\ q \in Nat /\ r \in 0 .. (L - 1)
  BY DivMod
<1> HIDE DEF q, r
<1>2. CASE r + n < L
  <2>1. ((L * q) + (r + n)) % L = r + n
    BY <1>1, <1>2, ModUnique
  <2>2. a + n = (L * q) + (r + n)
    BY <1>1
  <2> QED
    BY <1>1, <2>1, <2>2 DEF r
<1>3. CASE ~ (r + n < L)
  <2>1. q + 1 \in Nat /\ (r + n) - L \in 0 .. (L - 1)
    BY <1>1, <1>3
  <2>2. ((L * (q + 1)) + ((r + n) - L)) % L = (r + n) - L
    BY <2>1, ModUnique
  <2>3. a + n = (L * (q + 1)) + ((r + n) - L)
    BY <1>1
  <2> QED
    BY <1>1, <2>2, <2>3 DEF r
<1> QED
  BY <1>2, <1>3

LEMMA ModWindow ==
    ASSUME NEW L \in Nat \ {0}, NEW w \in Nat, NEW a \in w .. w + L - 1,
           NEW b \in w .. w + L - 1, a % L = b % L
    PROVE  a = b
<1>1. a \in Nat /\ b \in Nat
  OBVIOUS
<1>2. ~ (a < b)
  <2>1. SUFFICES ASSUME a < b PROVE FALSE
    OBVIOUS
  <2>2. b - a \in 1 .. L - 1 /\ a + (b - a) = b
    BY <1>1, <2>1
  <2>3. (a + (b - a)) % L # a % L
    BY <1>1, <2>2, ModFar
  <2> QED
    BY <2>2, <2>3
<1>3. ~ (b < a)
  <2>1. SUFFICES ASSUME b < a PROVE FALSE
    OBVIOUS
  <2>2. a - b \in 1 .. L - 1 /\ b + (a - b) = a
    BY <1>1, <2>1
  <2>3. (b + (a - b)) % L # b % L
    BY <1>1, <2>2, ModFar
  <2> QED
    BY <2>2, <2>3
<1> QED
  BY <1>1, <1>2, <1>3

(* ... and every slot. *)
LEMMA ModCovers ==
    ASSUME NEW L \in Nat \ {0}, NEW w \in Nat, NEW s \in 0 .. L - 1
    PROVE  \E b \in w .. w + L - 1 : b % L = s
<1> DEFINE q == w \div L
           r == w % L
<1>1. w = (L * q) + r /\ q \in Nat /\ r \in 0 .. (L - 1)
  BY DivMod
<1> HIDE DEF q, r
<1>2. CASE r <= s
  <2>1. ((L * q) + s) % L = s
    BY <1>1, ModUnique
  <2>2. (L * q) + s = w + (s - r)
    BY <1>1
  <2>3. w + (s - r) \in w .. w + L - 1
    BY <1>1, <1>2
  <2> QED
    BY <2>1, <2>2, <2>3
<1>3. CASE ~ (r <= s)
  <2>1. q + 1 \in Nat
    BY <1>1
  <2>2. ((L * (q + 1)) + s) % L = s
    BY <2>1, ModUnique
  <2>3. (L * (q + 1)) + s = w + ((s - r) + L)
    BY <1>1
  <2>4. w + ((s - r) + L) \in w .. w + L - 1
    BY <1>1, <1>3
  <2> QED
    BY <2>2, <2>3, <2>4
<1> QED
  BY <1>2, <1>3

(* A sum that stays within the ring is not reduced. *)
LEMMA ModWithin ==
    ASSUME NEW L \in Nat \ {0}, NEW a \in Nat, NEW n \in Nat, (a % L) + n < L
    PROVE  (a + n) % L = (a % L) + n
<1> DEFINE q == a \div L
           r == a % L
<1>1. a = (L * q) + r /\ q \in Nat /\ r \in 0 .. (L - 1)
  BY DivMod
<1>2. r + n < L
  OBVIOUS
<1> HIDE DEF q, r
<1>3. ((L * q) + (r + n)) % L = r + n
  BY <1>1, <1>2, ModUnique
<1>4. a + n = (L * q) + (r + n)
  BY <1>1
<1> QED
  BY <1>3, <1>4 DEF r

-----------------------------------------------------------------------------
(* Counting the descriptors of the queued jobs. *)

(* No job, no descriptor. *)
LEMMA AheadZero ==
    ASSUME NEW j
    PROVE  Ahead(j, 0) = 0
<1>1. {p \in (1 .. 0) \X (1 .. DescLen) : p[2] <= j.num[j.queue[p[1]]]} = {}
  OBVIOUS
<1> QED
  BY <1>1, FS_EmptySet DEF Ahead

(* One more job adds its descriptors. *)
LEMMA AheadStep ==
    ASSUME NEW j, NEW k \in Nat, j.num[j.queue[k + 1]] \in 0 .. DescLen
    PROVE  /\ Ahead(j, k) \in Nat
           /\ Ahead(j, k + 1) = Ahead(j, k) + j.num[j.queue[k + 1]]
<1> USE DescLenAssumption
<1> DEFINE S(i) == {p \in (1 .. i) \X (1 .. DescLen) : p[2] <= j.num[j.queue[p[1]]]}
           n    == j.num[j.queue[k + 1]]
           N    == {k + 1} \X (1 .. n)
<1>0. ASSUME NEW i \in Nat PROVE IsFiniteSet(1 .. i) /\ Cardinality(1 .. i) = i
  <2>1. 1 \in Int /\ i \in Int
    OBVIOUS
  <2>2. IsFiniteSet(1 .. i) /\ Cardinality(1 .. i) = IF 1 > i THEN 0 ELSE i - 1 + 1
    BY <2>1, FS_Interval
  <2> QED
    BY <2>2
<1>1. IsFiniteSet((1 .. k) \X (1 .. DescLen))
  BY <1>0, FS_Product
<1>2. IsFiniteSet(S(k))
  BY <1>1, FS_Subset
<1>3. IsFiniteSet(N) /\ Cardinality(N) = n
  <2>1. IsFiniteSet({k + 1}) /\ Cardinality({k + 1}) = 1
    BY FS_Singleton
  <2>2. IsFiniteSet(1 .. n) /\ Cardinality(1 .. n) = n
    BY <1>0
  <2>3. IsFiniteSet(N) /\ Cardinality(N) = Cardinality({k + 1}) * Cardinality(1 .. n)
    BY <2>1, <2>2, FS_Product
  <2> QED
    BY <2>1, <2>2, <2>3
<1>4. S(k + 1) = S(k) \cup N
  <2>1. ASSUME NEW p \in S(k + 1) PROVE p \in S(k) \cup N
    <3>1. p[1] \in 1 .. k + 1 /\ p[2] \in 1 .. DescLen /\ p = <<p[1], p[2]>>
      OBVIOUS
    <3>2. CASE p[1] = k + 1
      <4>1. p[2] \in 1 .. n
        BY <3>1, <3>2
      <4> QED
        BY <3>1, <3>2, <4>1
    <3>3. CASE p[1] # k + 1
      <4>1. p[1] \in 1 .. k
        BY <3>1, <3>3
      <4> QED
        BY <3>1, <4>1
    <3> QED
      BY <3>2, <3>3
  <2>2. ASSUME NEW p \in S(k) PROVE p \in S(k + 1)
    <3>1. p[1] \in 1 .. k + 1 /\ p[2] \in 1 .. DescLen /\ p = <<p[1], p[2]>>
      OBVIOUS
    <3> QED
      BY <3>1
  <2>3. ASSUME NEW p \in N PROVE p \in S(k + 1)
    <3>1. p[1] = k + 1 /\ p[2] \in 1 .. n /\ p = <<p[1], p[2]>>
      OBVIOUS
    <3>2. p[1] \in 1 .. k + 1 /\ p[2] \in 1 .. DescLen
      BY <3>1
    <3> QED
      BY <3>1, <3>2
  <2> QED
    BY <2>1, <2>2, <2>3
<1>5. S(k) \cap N = {}
  OBVIOUS
<1>6. Cardinality(S(k) \cap N) = 0
  BY <1>5, FS_EmptySet
<1>7. Cardinality(S(k + 1)) = Cardinality(S(k)) + Cardinality(N) - Cardinality(S(k) \cap N)
  BY <1>2, <1>3, <1>4, FS_Union
<1>8. Cardinality(S(k)) \in Nat
  BY <1>2, FS_CardinalityType
<1>9. Ahead(j, k) = Cardinality(S(k)) /\ Ahead(j, k + 1) = Cardinality(S(k + 1))
  BY DEF Ahead
<1>10. ASSUME NEW a \in Nat, NEW b \in Nat, NEW c, c = a + b - 0 PROVE c = a + b
  BY <1>10
<1> HIDE DEF S, N, n
<1>11. n \in Nat
  BY DEF n
<1>12. Cardinality(S(k + 1)) = Cardinality(S(k)) + n - 0
  BY <1>3, <1>6, <1>7
<1>13. Cardinality(S(k + 1)) = Cardinality(S(k)) + n
  BY <1>8, <1>10, <1>11, <1>12
<1> QED
  BY <1>8, <1>9, <1>13, Zenon DEF n

(* The m jobs after the first k1 of j1 and after the first k2 of j2 are    *)
(* equally long.                                                           *)
SameNums(j1, k1, j2, k2, m) ==
    \A i \in 1 .. m : /\ j1.num[j1.queue[k1 + i]] \in 0 .. DescLen
                      /\ j2.num[j2.queue[k2 + i]] = j1.num[j1.queue[k1 + i]]

(* They hold as many descriptors, wherever one stops counting. *)
SameAhead(j1, k1, j2, k2, m) ==
    \A i \in 0 .. m : /\ Ahead(j1, k1 + i) \in Nat
                      /\ Ahead(j2, k2 + i) \in Nat
                      /\ Ahead(j1, k1 + i) - Ahead(j1, k1)
                           = Ahead(j2, k2 + i) - Ahead(j2, k2)
                      /\ Ahead(j1, k1) <= Ahead(j1, k1 + i)

(* Two stretches of jobs of the same lengths hold as many descriptors.     *)
LEMMA AheadAgree ==
    ASSUME NEW j1, NEW k1 \in Nat, NEW j2, NEW k2 \in Nat, NEW m \in Nat,
           SameNums(j1, k1, j2, k2, m),
           Ahead(j1, k1) \in Nat, Ahead(j2, k2) \in Nat
    PROVE  SameAhead(j1, k1, j2, k2, m)
<1> DEFINE Good(i) == /\ Ahead(j1, k1 + i) \in Nat
                      /\ Ahead(j2, k2 + i) \in Nat
                      /\ Ahead(j1, k1 + i) - Ahead(j1, k1)
                           = Ahead(j2, k2 + i) - Ahead(j2, k2)
                      /\ Ahead(j1, k1) <= Ahead(j1, k1 + i)
           Bad == {i \in 0 .. m : ~ Good(i)}
<1>1. SUFFICES ASSUME Bad # {} PROVE FALSE
  BY DEF SameAhead
<1>2. PICK i \in Bad : \A x \in Bad : i <= x
  <2>1. Bad \in SUBSET Nat
    OBVIOUS
  <2> QED
    BY <1>1, <2>1, LeastNat
<1>3. i # 0
  <2>1. Good(0)
    OBVIOUS
  <2> QED
    BY <2>1
<1>4. i - 1 \in 0 .. m /\ Good(i - 1)
  <2>1. i - 1 \in 0 .. m /\ ~ (i <= i - 1)
    BY <1>3
  <2>2. i - 1 \notin Bad
    BY <1>2, <2>1
  <2> QED
    BY <2>1, <2>2
<1>5. i \in 1 .. m
  BY <1>3
<1> DEFINE n == j1.num[j1.queue[k1 + i]]
<1>6. n \in 0 .. DescLen /\ j2.num[j2.queue[k2 + i]] = n
  BY <1>5 DEF SameNums
<1> HIDE DEF n
<1>7. Ahead(j1, k1 + i) = Ahead(j1, k1 + (i - 1)) + n
  <2>1. k1 + (i - 1) \in Nat /\ (k1 + (i - 1)) + 1 = k1 + i
    BY <1>5
  <2>2. Ahead(j1, (k1 + (i - 1)) + 1)
          = Ahead(j1, k1 + (i - 1)) + j1.num[j1.queue[(k1 + (i - 1)) + 1]]
    BY <1>6, <2>1, AheadStep DEF n
  <2> QED
    BY <2>1, <2>2 DEF n
<1>8. Ahead(j2, k2 + i) = Ahead(j2, k2 + (i - 1)) + n
  <2>1. k2 + (i - 1) \in Nat /\ (k2 + (i - 1)) + 1 = k2 + i
    BY <1>5
  <2>2. Ahead(j2, (k2 + (i - 1)) + 1)
          = Ahead(j2, k2 + (i - 1)) + j2.num[j2.queue[(k2 + (i - 1)) + 1]]
    BY <1>6, <2>1, AheadStep DEF n
  <2> QED
    BY <1>6, <2>1, <2>2
<1>9. Good(i)
  BY <1>4, <1>5, <1>6, <1>7, <1>8, DescLenAssumption
<1> QED
  BY <1>9

(* The common case: the same queue lengths from the front.                 *)
LEMMA AheadSame ==
    ASSUME NEW j1, NEW j2, NEW m \in Nat, SameNums(j1, 0, j2, 0, m)
    PROVE  \A i \in 0 .. m : Ahead(j1, i) \in Nat /\ Ahead(j2, i) = Ahead(j1, i)
<1>1. Ahead(j1, 0) = 0 /\ Ahead(j2, 0) = 0
  BY AheadZero
<1>2. 0 \in Nat /\ Ahead(j1, 0) \in Nat /\ Ahead(j2, 0) \in Nat
  BY <1>1
<1>3. SameAhead(j1, 0, j2, 0, m)
  BY <1>2, AheadAgree
<1> QED
  BY <1>1, <1>3 DEF SameAhead

(* And the case of a queue without the first k jobs of another.            *)
LEMMA AheadShift ==
    ASSUME NEW j1, NEW k \in Nat, NEW j2, NEW m \in Nat, Ahead(j1, k) \in Nat,
           SameNums(j1, k, j2, 0, m)
    PROVE  \A i \in 0 .. m : /\ Ahead(j2, i) \in Nat
                             /\ Ahead(j1, k) + Ahead(j2, i) = Ahead(j1, k + i)
<1>1. Ahead(j2, 0) = 0
  BY AheadZero
<1>2. 0 \in Nat /\ Ahead(j2, 0) \in Nat
  BY <1>1
<1>3. SameAhead(j1, k, j2, 0, m)
  BY <1>2, AheadAgree
<1> QED
  BY <1>1, <1>3 DEF SameAhead

(* In a well-typed bank the counts are naturals, and each job adds its own.*)
LEMMA AheadTyped ==
    ASSUME NEW T, NEW j \in JobsType(T)
    PROVE  /\ \A i \in 1 .. Len(j.queue) : /\ j.queue[i] \in DescEngines
                                           /\ j.num[j.queue[i]] \in 0 .. DescLen
           /\ \A i \in 0 .. Len(j.queue) : Ahead(j, i) \in Nat
           /\ \A i \in 1 .. Len(j.queue) :
                  Ahead(j, i) = Ahead(j, i - 1) + j.num[j.queue[i]]
<1>1. Len(j.queue) \in Nat /\ j.queue \in Seq(DescEngines)
  BY DEF JobsType
<1>2. ASSUME NEW i \in 1 .. Len(j.queue)
      PROVE  j.queue[i] \in DescEngines /\ j.num[j.queue[i]] \in 0 .. DescLen
  <2>1. j.queue[i] \in DescEngines
    BY <1>1, ElementOfSeq
  <2> QED
    BY <2>1 DEF JobsType
<1>3. SameNums(j, 0, j, 0, Len(j.queue))
  BY <1>1, <1>2 DEF SameNums
<1>5. \A i \in 0 .. Len(j.queue) : Ahead(j, i) \in Nat
  BY <1>1, <1>3, AheadSame
<1>6. ASSUME NEW i \in 1 .. Len(j.queue)
      PROVE  Ahead(j, i) = Ahead(j, i - 1) + j.num[j.queue[i]]
  <2>1. i - 1 \in Nat /\ (i - 1) + 1 = i
    BY <1>1
  <2>2. j.num[j.queue[(i - 1) + 1]] \in 0 .. DescLen
    BY <1>2, <2>1
  <2>3. Ahead(j, (i - 1) + 1) = Ahead(j, i - 1) + j.num[j.queue[(i - 1) + 1]]
    BY <2>1, <2>2, AheadStep
  <2> QED
    BY <2>1, <2>3
<1> QED
  BY <1>2, <1>5, <1>6

-----------------------------------------------------------------------------
(* Register. *)

(* The scan for a free engine finds one whenever there is one. *)
LEMMA FreeEngineFound ==
    ASSUME NEW j, hasFreeEngine(j)
    PROVE  getFreeEngine(j) \in DescEngines /\ ~ j.working[getFreeEngine(j)]
<1> DEFINE F == {e \in DescEngines : ~ j.working[e]}
<1>1. F \in SUBSET Nat /\ F # {}
  BY NumDescEnginesAssumption DEF hasFreeEngine, DescEngines
<1>2. PICK e \in F : \A f \in F : e <= f
  BY <1>1, LeastNat
<1>3. \A f \in DescEngines : f < e => j.working[f]
  BY <1>2, NumDescEnginesAssumption DEF DescEngines
<1>4. \E f \in DescEngines : ~ j.working[f] /\ \A g \in DescEngines : g < f => j.working[g]
  BY <1>2, <1>3
<1> QED
  BY <1>4 DEF getFreeEngine

LEMMA RegisterType ==
    ASSUME NEW T, NEW j \in JobsType(T), NEW n \in 1 .. DescLen, NEW b \in Seq(T),
           hasFreeEngine(j), j.pnt + n <= DescLen
    PROVE  Register(j, n, b) \in JobsType(T)
<1> DEFINE e == getFreeEngine(j)
<1>1. e \in DescEngines
  BY FreeEngineFound
<1>2. Append(j.queue, e) \in Seq(DescEngines)
  BY <1>1 DEF JobsType
<1>3. Wrap(j.pnt + n) \in Slots
  BY WrapIsMod, DescLenAssumption DEF JobsType
<1>4. j.ing + n \in Nat
  BY DescLenAssumption DEF JobsType
<1> HIDE DEF e
<1>5. "delay" \in Stages
  BY DEF Stages
<1> QED
  BY <1>1, <1>2, <1>3, <1>4, <1>5, DescLenAssumption DEF Register, JobsType, e

(* A new job starts where the last one ends. *)
LEMMA RegisterContiguous ==
    ASSUME NEW T, NEW j \in JobsType(T), NEW n \in 1 .. DescLen, NEW b \in Seq(T),
           NEW start \in Slots,
           hasFreeEngine(j), j.pnt + n <= DescLen, JobsContiguous(j, start)
    PROVE  JobsContiguous(Register(j, n, b), start)
<1> DEFINE e == getFreeEngine(j)
           r == Register(j, n, b)
           len == Len(j.queue)
<1>1. e \in DescEngines /\ ~ j.working[e]
  BY FreeEngineFound
<1>2. /\ r.queue = Append(j.queue, e)
      /\ r.working = [j.working EXCEPT ![e] = TRUE]
      /\ r.done = [j.done EXCEPT ![e] = FALSE]
      /\ r.base = [j.base EXCEPT ![e] = j.pnt]
      /\ r.num = [j.num EXCEPT ![e] = n]
      /\ r.ev = [j.ev EXCEPT ![e] = "delay"]
      /\ r.pnt = Wrap(j.pnt + n)
      /\ r.ing = j.ing + n
  BY DEF Register
<1>3. /\ j.queue \in Seq(DescEngines) /\ len \in Nat
      /\ j.working \in [DescEngines -> BOOLEAN] /\ j.done \in [DescEngines -> BOOLEAN]
      /\ j.base \in [DescEngines -> Slots] /\ j.num \in [DescEngines -> 0 .. DescLen]
      /\ j.ev \in [DescEngines -> Stages] /\ j.pnt \in Slots /\ j.ing \in Nat
  BY DEF JobsType
<1> HIDE DEF e, r
<1>4. /\ Len(r.queue) = len + 1 /\ r.queue[len + 1] = e
      /\ \A i \in 1 .. len : r.queue[i] = j.queue[i]
      /\ \A i \in 1 .. Len(r.queue) : i \in 1 .. len \/ i = len + 1
      /\ \A i \in 1 .. len : i \in 1 .. Len(r.queue)
      /\ len + 1 \in 1 .. Len(r.queue)
  <2>1. /\ Len(r.queue) = len + 1 /\ r.queue[len + 1] = e
        /\ \A i \in 1 .. len : r.queue[i] = j.queue[i]
    BY <1>1, <1>2, <1>3
  <2> QED
    BY <1>3, <2>1
<1>5. \A i \in 1 .. len : j.queue[i] \in DescEngines /\ j.queue[i] # e
  BY <1>1, <1>3 DEF JobsContiguous
<1>6. \A i \in 0 .. len : Ahead(r, i) = Ahead(j, i) /\ Ahead(j, i) \in Nat
  <2>1. \A i \in 1 .. len : /\ j.num[j.queue[i]] \in 0 .. DescLen
                            /\ r.num[r.queue[i]] = j.num[j.queue[i]]
    BY <1>1, <1>2, <1>3, <1>4, <1>5
  <2>2. SameNums(j, 0, r, 0, len)
    BY <1>3, <2>1 DEF SameNums
  <2> QED
    BY <1>3, <2>2, AheadSame
<1>7. r.num[e] = n /\ r.base[e] = j.pnt
  BY <1>1, <1>2, <1>3
<1>8. Ahead(r, len + 1) = j.ing + n
  <2>1. Ahead(r, len + 1) = Ahead(r, len) + n
    <3>1. r.num[r.queue[len + 1]] = n /\ r.num[r.queue[len + 1]] \in 0 .. DescLen
      BY <1>4, <1>7, DescLenAssumption
    <3>2. Ahead(r, len + 1) = Ahead(r, len) + r.num[r.queue[len + 1]]
      BY <1>3, <3>1, AheadStep
    <3> QED
      BY <3>1, <3>2
  <2>2. Ahead(r, len) = j.ing
    BY <1>3, <1>6 DEF JobsContiguous
  <2> QED
    BY <2>1, <2>2
<1>9. ASSUME NEW i \in 1 .. Len(r.queue)
      PROVE  /\ r.base[r.queue[i]] = (start + Ahead(r, i - 1)) % DescLen
             /\ r.num[r.queue[i]] > 0 /\ r.base[r.queue[i]] + r.num[r.queue[i]] <= DescLen
             /\ \A k \in 1 .. Len(r.queue) : r.queue[k] = r.queue[i] => k = i
  <2>1. CASE i = len + 1
    <3>1. Ahead(r, i - 1) = j.ing
      BY <1>3, <1>6, <2>1 DEF JobsContiguous
    <3>2. j.pnt = (start + j.ing) % DescLen
      BY DEF JobsContiguous
    <3>3. \A k \in 1 .. Len(r.queue) : r.queue[k] = e => k = i
      BY <1>4, <1>5, <2>1
    <3>4. r.queue[i] = e
      BY <1>4, <2>1
    <3> QED
      BY <1>7, <3>1, <3>2, <3>3, <3>4, DescLenAssumption
  <2>2. CASE i # len + 1
    <3>1. i \in 1 .. len /\ i - 1 \in 0 .. len
      BY <1>3, <1>4, <2>2
    <3>2. r.queue[i] = j.queue[i] /\ j.queue[i] # e /\ j.queue[i] \in DescEngines
      BY <1>4, <1>5, <3>1
    <3>3. r.base[r.queue[i]] = j.base[j.queue[i]] /\ r.num[r.queue[i]] = j.num[j.queue[i]]
      <4> DEFINE f == j.queue[i]
      <4>1. r.queue[i] = f /\ f # e /\ f \in DescEngines
        BY <3>2
      <4> HIDE DEF f
      <4>2. r.base[f] = j.base[f] /\ r.num[f] = j.num[f]
        BY <1>1, <1>2, <1>3, <4>1
      <4> QED
        BY <4>1, <4>2 DEF f
    <3>4. Ahead(r, i - 1) = Ahead(j, i - 1)
      BY <1>6, <3>1
    <3>5. /\ j.base[j.queue[i]] = (start + Ahead(j, i - 1)) % DescLen
          /\ j.num[j.queue[i]] > 0 /\ j.base[j.queue[i]] + j.num[j.queue[i]] <= DescLen
          /\ \A k \in 1 .. len : j.queue[k] = j.queue[i] => k = i
      BY <3>1 DEF JobsContiguous
    <3>6. \A k \in 1 .. Len(r.queue) : r.queue[k] = r.queue[i] => k = i
      BY <1>3, <1>4, <3>2, <3>5
    <3> QED
      BY <3>3, <3>4, <3>5, <3>6
  <2> QED
    BY <2>1, <2>2
<1>10. r.ing = Ahead(r, Len(r.queue))
  BY <1>2, <1>4, <1>8
<1>11. r.pnt = (start + r.ing) % DescLen
  <2>1. r.pnt = (j.pnt + n) % DescLen
    BY <1>2, <1>3, WrapIsMod
  <2>2. j.pnt = (start + j.ing) % DescLen
    BY DEF JobsContiguous
  <2>3. start + j.ing \in Nat /\ n \in Nat
    BY <1>3, DescLenAssumption DEF Slots
  <2>4. (((start + j.ing) % DescLen) + n) % DescLen = ((start + j.ing) + n) % DescLen
    BY <2>3, ModAdd, DescLenAssumption
  <2>5. (start + j.ing) + n = start + (j.ing + n)
    BY <1>3, <2>3, DescLenAssumption DEF Slots
  <2> QED
    BY <1>2, <2>1, <2>2, <2>4, <2>5
<1>12. ASSUME NEW f \in DescEngines
       PROVE  /\ r.working[f] <=> \E i \in 1 .. Len(r.queue) : r.queue[i] = f
              /\ r.ev[f] # "idle" <=> r.working[f] /\ ~ r.done[f]
              /\ r.done[f] => r.working[f]
  <2>1. /\ j.working[f] <=> \E i \in 1 .. len : j.queue[i] = f
        /\ j.ev[f] # "idle" <=> j.working[f] /\ ~ j.done[f]
        /\ j.done[f] => j.working[f]
    BY DEF JobsContiguous
  <2>2. CASE f = e
    BY <1>1, <1>2, <1>3, <1>4, <2>2
  <2>3. CASE f # e
    <3>1. r.working[f] = j.working[f] /\ r.ev[f] = j.ev[f] /\ r.done[f] = j.done[f]
      BY <1>1, <1>2, <1>3, <2>3
    <3>2. (\E i \in 1 .. Len(r.queue) : r.queue[i] = f) <=> \E i \in 1 .. len : j.queue[i] = f
      BY <1>3, <1>4, <2>3
    <3> QED
      BY <2>1, <3>1, <3>2
  <2> QED
    BY <2>2, <2>3
<1>13. ~ r.done[Head(r.queue)]
  <2>1. CASE len = 0
    <3>1. Head(r.queue) = e
      BY <1>3, <1>4, <2>1
    <3> QED
      BY <1>1, <1>2, <1>3, <3>1
  <2>2. CASE len # 0
    <3>1. Head(r.queue) = j.queue[1] /\ Head(j.queue) = j.queue[1] /\ j.queue # <<>>
      BY <1>3, <1>4, <2>2
    <3>2. ~ j.done[j.queue[1]]
      BY <3>1 DEF JobsContiguous
    <3>3. j.queue[1] # e /\ j.queue[1] \in DescEngines
      BY <1>3, <1>5, <2>2
    <3> QED
      BY <1>1, <1>2, <1>3, <3>1, <3>2, <3>3
  <2> QED
    BY <2>1, <2>2
<1>14. JobsContiguous(r, start)
  BY <1>9, <1>10, <1>11, <1>12, <1>13 DEF JobsContiguous
<1> QED
  BY <1>14 DEF r

-----------------------------------------------------------------------------
(* Issue and Beat. *)

LEMMA IssueKeeps ==
    ASSUME NEW T, NEW j \in JobsType(T), NEW start \in Slots, NEW e \in DescEngines,
           JobsContiguous(j, start), TransfersAgree(j), j.ev[e] = "delay"
    PROVE  /\ Issue(j, e) \in JobsType(T)
           /\ JobsContiguous(Issue(j, e), start)
           /\ TransfersAgree(Issue(j, e))
<1> DEFINE r == Issue(j, e)
<1>1. /\ r.queue = j.queue /\ r.working = j.working /\ r.done = j.done
      /\ r.base = j.base /\ r.num = j.num /\ r.moved = j.moved
      /\ r.pnt = j.pnt /\ r.ing = j.ing
      /\ r.ev = [j.ev EXCEPT ![e] = "dma"]
  BY DEF Issue, JobsType
<1>2. r \in JobsType(T)
  BY DEF Issue, JobsType, Stages
<1> HIDE DEF r
<1>3. \A i : Ahead(r, i) = Ahead(j, i)
  BY <1>1 DEF Ahead
<1>4. j.ev \in [DescEngines -> Stages]
  BY DEF JobsType
<1>5. JobsContiguous(r, start)
  BY <1>1, <1>3, <1>4 DEF JobsContiguous
<1>6. TransfersAgree(r)
  <2>1. j.moved[e] = 0
    BY DEF TransfersAgree
  <2>2. j.num[e] > 0
    BY DEF JobsContiguous
  <2> QED
    BY <1>1, <1>4, <2>1, <2>2 DEF TransfersAgree
<1> QED
  BY <1>2, <1>5, <1>6 DEF r

LEMMA BeatKeeps ==
    ASSUME NEW T, NEW j \in JobsType(T), NEW start \in Slots, NEW e \in DescEngines,
           JobsContiguous(j, start), TransfersAgree(j), j.ev[e] = "dma"
    PROVE  /\ Beat(j, e) \in JobsType(T)
           /\ JobsContiguous(Beat(j, e), start)
           /\ TransfersAgree(Beat(j, e))
<1> DEFINE r == Beat(j, e)
<1>1. /\ r.queue = j.queue /\ r.working = j.working /\ r.done = j.done
      /\ r.base = j.base /\ r.num = j.num
      /\ r.pnt = j.pnt /\ r.ing = j.ing
      /\ r.moved = [j.moved EXCEPT ![e] = j.moved[e] + 1]
      /\ r.ev = [j.ev EXCEPT ![e] = IF j.moved[e] + 1 = j.num[e] THEN "event" ELSE "dma"]
  BY DEF Beat, JobsType
<1>2. r \in JobsType(T)
  <2>1. [j.moved EXCEPT ![e] = j.moved[e] + 1] \in [DescEngines -> Nat]
    BY DEF JobsType
  <2>2. [j.ev EXCEPT ![e] = IF j.moved[e] + 1 = j.num[e] THEN "event" ELSE "dma"]
          \in [DescEngines -> Stages]
    BY DEF JobsType, Stages
  <2> QED
    BY <2>1, <2>2, Zenon DEF Beat, JobsType
<1> HIDE DEF r
<1>3. \A i : Ahead(r, i) = Ahead(j, i)
  BY <1>1 DEF Ahead
<1>4. /\ j.ev \in [DescEngines -> Stages] /\ j.moved \in [DescEngines -> Nat]
      /\ j.num \in [DescEngines -> 0 .. DescLen]
  BY DEF JobsType
<1>5. JobsContiguous(r, start)
  <2>1. \A f \in DescEngines : r.ev[f] # "idle" <=> j.ev[f] # "idle"
    BY <1>1, <1>4
  <2> QED
    BY <1>1, <1>3, <2>1 DEF JobsContiguous
<1>6. TransfersAgree(r)
  BY <1>1, <1>4, DescLenAssumption DEF TransfersAgree
<1> QED
  BY <1>2, <1>5, <1>6 DEF r

-----------------------------------------------------------------------------
(* Complete. *)

(* The counts grow along the queue. *)
LEMMA AheadMono ==
    ASSUME NEW T, NEW j \in JobsType(T), NEW a \in Nat, NEW b \in Nat,
           a <= b, b <= Len(j.queue)
    PROVE  Ahead(j, a) <= Ahead(j, b)
<1>1. SameNums(j, a, j, a, b - a)
  <2> SUFFICES ASSUME NEW i \in 1 .. b - a PROVE j.num[j.queue[a + i]] \in 0 .. DescLen
    BY DEF SameNums
  <2>1. a + i \in 1 .. Len(j.queue)
    BY DEF JobsType
  <2> QED
    BY <2>1, AheadTyped
<1>2. Ahead(j, a) \in Nat
  <2>1. a \in 0 .. Len(j.queue)
    BY DEF JobsType
  <2> QED
    BY <2>1, AheadTyped
<1>3. b - a \in Nat
  OBVIOUS
<1>4. SameAhead(j, a, j, a, b - a)
  BY <1>1, <1>2, <1>3, AheadAgree
<1>5. b - a \in 0 .. b - a /\ a + (b - a) = b
  OBVIOUS
<1> QED
  BY <1>4, <1>5 DEF SameAhead

(* The completion event of engine e is due. *)
Completing(j, e) == j.ev[e] = "event"

(* Which jobs a completion retires: none unless the oldest has finished,   *)
(* and then every finished job up to the first unfinished one.             *)
LEMMA RetiredJobsFound ==
    ASSUME NEW T, NEW j \in JobsType(T), NEW start \in Slots, NEW e \in DescEngines,
           JobsContiguous(j, start), Completing(j, e)
    PROVE  /\ j.queue # <<>>
           /\ RetiredJobs(j, e) \in 0 .. Len(j.queue)
           /\ RetiredJobs(j, e) = 0 => j.queue[1] # e
           /\ RetiredJobs(j, e) > 0 => j.queue[1] = e
           /\ \A i \in 2 .. RetiredJobs(j, e) : j.done[j.queue[i]]
           /\ RetiredJobs(j, e) > 0 /\ RetiredJobs(j, e) < Len(j.queue)
                 => ~ j.done[j.queue[RetiredJobs(j, e) + 1]]
<1> DEFINE len == Len(j.queue)
<1>1. j.working[e]
  BY DEF JobsContiguous, Completing
<1>2. PICK i0 \in 1 .. len : j.queue[i0] = e
  BY <1>1 DEF JobsContiguous
<1>3. len \in Nat /\ len > 0 /\ j.queue # <<>> /\ Head(j.queue) = j.queue[1]
  BY <1>2 DEF JobsType
<1>4. CASE Head(j.queue) # e
  <2>1. RetiredJobs(j, e) = 0
    BY <1>4 DEF RetiredJobs
  <2> QED
    BY <1>3, <1>4, <2>1
<1>5. CASE Head(j.queue) = e
  <2> DEFINE S == {k \in 1 .. len : k = len \/ ~ j.done[j.queue[k + 1]]}
             P(k) == /\ \A i \in 2 .. k : j.done[j.queue[i]]
                     /\ k < len => ~ j.done[j.queue[k + 1]]
  <2>1. S \in SUBSET Nat /\ S # {}
    BY <1>3
  <2>2. PICK m \in S : \A x \in S : m <= x
    BY <2>1, LeastNat
  <2>3. ASSUME NEW i \in 2 .. m PROVE j.done[j.queue[i]]
    <3>1. i - 1 \in 1 .. len /\ ~ (m <= i - 1) /\ (i - 1) + 1 = i
      BY <1>3, <2>2
    <3>2. i - 1 \notin S
      BY <2>2, <3>1
    <3> QED
      BY <3>1, <3>2
  <2>4. m \in 1 .. len /\ P(m)
    BY <2>2, <2>3
  <2>5. RetiredJobs(j, e) = CHOOSE k \in 1 .. len : P(k)
    BY <1>5 DEF RetiredJobs
  <2>6. RetiredJobs(j, e) \in 1 .. len /\ P(RetiredJobs(j, e))
    BY <2>4, <2>5
  <2> QED
    BY <1>3, <1>5, <2>6
<1> QED
  BY <1>4, <1>5

(* The jobs behind the retired ones keep their engines and their lengths.  *)
LEMMA CompleteQueue ==
    ASSUME NEW T, NEW j \in JobsType(T), NEW start \in Slots, NEW e \in DescEngines,
           JobsContiguous(j, start), Completing(j, e)
    PROVE  LET k == RetiredJobs(j, e)
               r == Complete(j, e)
           IN  /\ r.queue \in Seq(DescEngines)
               /\ Len(r.queue) = Len(j.queue) - k
               /\ \A i \in 1 .. Len(r.queue) :
                     /\ k + i \in 1 .. Len(j.queue)
                     /\ r.queue[i] = j.queue[k + i]
                     /\ j.queue[k + i] \notin {j.queue[m] : m \in 1 .. k}
               /\ \A i \in 0 .. Len(r.queue) :
                     /\ Ahead(r, i) \in Nat
                     /\ Ahead(j, k) + Ahead(r, i) = Ahead(j, k + i)
<1> DEFINE k == RetiredJobs(j, e)
           r == Complete(j, e)
           len == Len(j.queue)
           gone == {j.queue[m] : m \in 1 .. k}
<1>1. k \in 0 .. len
  BY RetiredJobsFound
<1>2. /\ r.queue = SubSeq(j.queue, k + 1, len)
      /\ r.num = [f \in DescEngines |-> IF f \in gone THEN 0 ELSE j.num[f]]
  BY DEF Complete
<1>3. j.queue \in Seq(DescEngines) /\ len \in Nat /\ j.num \in [DescEngines -> 0 .. DescLen]
  BY DEF JobsType
<1> HIDE DEF r, k
<1>4. /\ r.queue \in Seq(DescEngines)
      /\ Len(r.queue) = len - k
      /\ \A i \in 1 .. len - k : r.queue[i] = j.queue[k + i]
  <2>1. \A i \in k + 1 .. len : j.queue[i] \in DescEngines
    BY <1>1, <1>3
  <2>2. k + 1 \in Int /\ len \in Int
    BY <1>1, <1>3
  <2>3. /\ SubSeq(j.queue, k + 1, len) \in Seq(DescEngines)
        /\ Len(SubSeq(j.queue, k + 1, len)) = IF k + 1 <= len THEN len - (k + 1) + 1 ELSE 0
        /\ \A i \in 1 .. len - (k + 1) + 1 :
              SubSeq(j.queue, k + 1, len)[i] = j.queue[(k + 1) + i - 1]
    BY <2>1, <2>2, SubSeqProperties
  <2>4. len - (k + 1) + 1 = len - k /\ \A i \in 1 .. len - k : (k + 1) + i - 1 = k + i
    BY <1>1, <1>3
  <2> QED
    BY <1>1, <1>2, <1>3, <2>3, <2>4
<1>5. ASSUME NEW i \in 1 .. len - k
      PROVE  k + i \in 1 .. len /\ j.queue[k + i] \notin gone
  <2>1. k + i \in 1 .. len
    BY <1>1, <1>3
  <2>2. ASSUME NEW m \in 1 .. k PROVE j.queue[m] # j.queue[k + i]
    <3>1. m \in 1 .. len /\ m # k + i
      <4>1. k \in Nat /\ len \in Nat /\ k <= len
        BY <1>1, <1>3
      <4> HIDE DEF len, k
      <4> QED
        BY <4>1
    <3>2. \A x \in 1 .. len : j.queue[x] = j.queue[k + i] => x = k + i
      BY <2>1 DEF JobsContiguous
    <3> QED
      BY <3>1, <3>2
  <2> QED
    BY <2>1, <2>2
<1>6. \A i \in 0 .. len - k : /\ Ahead(r, i) \in Nat
                              /\ Ahead(j, k) + Ahead(r, i) = Ahead(j, k + i)
  <2>1. ASSUME NEW i \in 1 .. len - k
        PROVE  /\ j.num[j.queue[k + i]] \in 0 .. DescLen
               /\ r.num[r.queue[i]] = j.num[j.queue[k + i]]
    <3>1. /\ j.queue[k + i] \in DescEngines /\ r.queue[i] = j.queue[k + i]
          /\ j.queue[k + i] \notin gone
      BY SMTT(30), <1>3, <1>4, <1>5
    <3>2. r.num[j.queue[k + i]] = j.num[j.queue[k + i]]
      BY <1>2, <3>1, Zenon
    <3>3. j.num[j.queue[k + i]] \in 0 .. DescLen
      BY <1>3, <3>1
    <3> QED
      BY <3>1, <3>2, <3>3
  <2>2. k \in Nat /\ len - k \in Nat /\ k \in 0 .. len
    BY <1>1, <1>3
  <2>3. Ahead(j, k) \in Nat
    BY <2>2, AheadTyped
  <2> DEFINE rest == len - k
  <2>4. SameNums(j, k, r, 0, rest)
    <3> SUFFICES ASSUME NEW i \in 1 .. len - k
                 PROVE  /\ j.num[j.queue[k + i]] \in 0 .. DescLen
                        /\ r.num[r.queue[0 + i]] = j.num[j.queue[k + i]]
      BY Zenon DEF SameNums
    <3>1. 0 + i = i
      BY <2>2
    <3> QED
      BY <2>1, <3>1, Zenon
  <2>5. rest \in Nat
    BY <2>2
  <2> HIDE DEF rest, len, gone
  <2>6. \A i \in 0 .. rest : /\ Ahead(r, i) \in Nat
                             /\ Ahead(j, k) + Ahead(r, i) = Ahead(j, k + i)
    BY <2>2, <2>3, <2>4, <2>5, AheadShift
  <2> QED
    BY <2>6 DEF rest
<1>7. /\ \A i \in 1 .. Len(r.queue) : /\ k + i \in 1 .. len
                                      /\ r.queue[i] = j.queue[k + i]
                                      /\ j.queue[k + i] \notin gone
      /\ \A i \in 0 .. Len(r.queue) : /\ Ahead(r, i) \in Nat
                                      /\ Ahead(j, k) + Ahead(r, i) = Ahead(j, k + i)
  BY <1>4, <1>5, <1>6
<1> QED
  BY <1>4, <1>7 DEF k, r

LEMMA RetiredDescsBound ==
    ASSUME NEW T, NEW j \in JobsType(T), NEW start \in Slots, NEW e \in DescEngines,
           JobsContiguous(j, start), Completing(j, e)
    PROVE  RetiredDescs(j, e) \in Nat /\ RetiredDescs(j, e) <= j.ing
<1>0. Len(j.queue) \in Nat
  BY DEF JobsType
<1>1. RetiredJobs(j, e) \in 0 .. Len(j.queue) /\ Len(j.queue) \in Nat
  BY <1>0, RetiredJobsFound
<1>2. Ahead(j, RetiredJobs(j, e)) \in Nat
  BY <1>1, AheadTyped
<1>3. RetiredJobs(j, e) \in Nat /\ RetiredJobs(j, e) <= Len(j.queue) /\ Len(j.queue) <= Len(j.queue)
  BY <1>1
<1>4. Ahead(j, RetiredJobs(j, e)) <= Ahead(j, Len(j.queue))
  BY <1>1, <1>3, AheadMono
<1>5. j.ing = Ahead(j, Len(j.queue))
  BY DEF JobsContiguous
<1> QED
  BY <1>2, <1>4, <1>5 DEF RetiredDescs

LEMMA CompleteType ==
    ASSUME NEW T, NEW j \in JobsType(T), NEW start \in Slots, NEW e \in DescEngines,
           JobsContiguous(j, start), Completing(j, e)
    PROVE  Complete(j, e) \in JobsType(T)
<1> DEFINE gone == {j.queue[m] : m \in 1 .. RetiredJobs(j, e)}
<1>1. SubSeq(j.queue, RetiredJobs(j, e) + 1, Len(j.queue)) \in Seq(DescEngines)
  BY CompleteQueue DEF Complete
<1>2. j.ing - RetiredDescs(j, e) \in Nat
  <2>1. RetiredDescs(j, e) \in Nat /\ RetiredDescs(j, e) <= j.ing
    BY RetiredDescsBound
  <2>2. j.ing \in Nat
    BY DEF JobsType
  <2> QED
    BY <2>1, <2>2
<1> HIDE DEF gone
<1>3. /\ [f \in DescEngines |-> j.working[f] /\ f \notin gone] \in [DescEngines -> BOOLEAN]
      /\ [f \in DescEngines |-> (j.done[f] \/ f = e) /\ f \notin gone] \in [DescEngines -> BOOLEAN]
  OBVIOUS
<1>4. /\ [f \in DescEngines |-> IF f \in gone THEN 0 ELSE j.base[f]] \in [DescEngines -> Slots]
      /\ [f \in DescEngines |-> IF f \in gone THEN 0 ELSE j.num[f]] \in [DescEngines -> 0 .. DescLen]
  BY DescLenAssumption DEF JobsType, Slots
<1>5. [f \in DescEngines |-> IF f \in gone THEN <<>> ELSE j.buf[f]] \in [DescEngines -> Seq(T)]
  BY DEF JobsType
<1>6. /\ [j.ev EXCEPT ![e] = "idle"] \in [DescEngines -> Stages]
      /\ [j.moved EXCEPT ![e] = 0] \in [DescEngines -> Nat]
      /\ j.pnt \in Slots
  BY DEF JobsType, Stages
<1> QED
  BY <1>1, <1>2, <1>3, <1>4, <1>5, <1>6, Zenon DEF Complete, JobsType, gone

(* A completion moves the start of the jobs past the descriptors it        *)
(* retires, and the jobs behind them still lie one after the other.        *)
LEMMA CompleteContiguous ==
    ASSUME NEW T, NEW j \in JobsType(T), NEW start \in Slots, NEW e \in DescEngines,
           JobsContiguous(j, start), Completing(j, e)
    PROVE  JobsContiguous(Complete(j, e), (start + RetiredDescs(j, e)) % DescLen)
<1> DEFINE k == RetiredJobs(j, e)
           r == Complete(j, e)
           d == RetiredDescs(j, e)
           s == (start + d) % DescLen
           gone == {j.queue[x] : x \in 1 .. k}
<1>1. /\ r.queue \in Seq(DescEngines)
      /\ Len(r.queue) = Len(j.queue) - k
      /\ \A i \in 1 .. Len(r.queue) : /\ k + i \in 1 .. Len(j.queue)
                                      /\ r.queue[i] = j.queue[k + i]
                                      /\ j.queue[k + i] \notin gone
      /\ \A i \in 0 .. Len(r.queue) : /\ Ahead(r, i) \in Nat
                                      /\ Ahead(j, k) + Ahead(r, i) = Ahead(j, k + i)
  BY CompleteQueue
<1>2. /\ k \in 0 .. Len(j.queue)
      /\ k = 0 => j.queue[1] # e
      /\ k > 0 => j.queue[1] = e
      /\ \A i \in 2 .. k : j.done[j.queue[i]]
      /\ k > 0 /\ k < Len(j.queue) => ~ j.done[j.queue[k + 1]]
  BY RetiredJobsFound
<1>3. d = Ahead(j, k) /\ d \in Nat /\ d <= j.ing
  BY RetiredDescsBound DEF RetiredDescs
<1>4. /\ r.working = [f \in DescEngines |-> j.working[f] /\ f \notin gone]
      /\ r.done = [f \in DescEngines |-> (j.done[f] \/ f = e) /\ f \notin gone]
      /\ r.base = [f \in DescEngines |-> IF f \in gone THEN 0 ELSE j.base[f]]
      /\ r.num = [f \in DescEngines |-> IF f \in gone THEN 0 ELSE j.num[f]]
      /\ r.ev = [j.ev EXCEPT ![e] = "idle"]
      /\ r.pnt = j.pnt /\ r.ing = j.ing - d
  BY DEF Complete
<1>5. /\ j.queue \in Seq(DescEngines) /\ Len(j.queue) \in Nat
      /\ j.ev \in [DescEngines -> Stages] /\ j.ing \in Nat
  BY DEF JobsType
<1>6. start \in Nat /\ DescLen \in Nat \ {0}
  BY DescLenAssumption DEF Slots
<1> HIDE DEF k, r, d, s, gone
<1>7. ASSUME NEW a \in Nat PROVE (s + a) % DescLen = (start + (d + a)) % DescLen
  <2>1. start + d \in Nat /\ (start + d) + a = start + (d + a)
    BY <1>3, <1>6
  <2>2. (((start + d) % DescLen) + a) % DescLen = ((start + d) + a) % DescLen
    BY <1>6, <2>1, ModAdd
  <2> QED
    BY <2>1, <2>2 DEF s
<1>8. ASSUME NEW i \in 1 .. Len(r.queue)
      PROVE  /\ r.base[r.queue[i]] = (s + Ahead(r, i - 1)) % DescLen
             /\ r.num[r.queue[i]] > 0 /\ r.base[r.queue[i]] + r.num[r.queue[i]] <= DescLen
             /\ \A x \in 1 .. Len(r.queue) : r.queue[x] = r.queue[i] => x = i
  <2>1. k + i \in 1 .. Len(j.queue) /\ r.queue[i] = j.queue[k + i] /\ j.queue[k + i] \notin gone
    BY <1>1
  <2>2. j.queue[k + i] \in DescEngines
    BY <1>5, <2>1
  <2>3. r.base[r.queue[i]] = j.base[j.queue[k + i]] /\ r.num[r.queue[i]] = j.num[j.queue[k + i]]
    BY <1>4, <2>1, <2>2
  <2>4. /\ j.base[j.queue[k + i]] = (start + Ahead(j, (k + i) - 1)) % DescLen
        /\ j.num[j.queue[k + i]] > 0
        /\ j.base[j.queue[k + i]] + j.num[j.queue[k + i]] <= DescLen
        /\ \A x \in 1 .. Len(j.queue) : j.queue[x] = j.queue[k + i] => x = k + i
    BY <2>1 DEF JobsContiguous
  <2>5. (k + i) - 1 = k + (i - 1) /\ i - 1 \in 0 .. Len(r.queue)
    BY <1>1, <1>2, <1>5
  <2>6. Ahead(r, i - 1) \in Nat /\ d + Ahead(r, i - 1) = Ahead(j, k + (i - 1))
    BY <1>1, <1>3, <2>5
  <2>7. (s + Ahead(r, i - 1)) % DescLen = (start + (d + Ahead(r, i - 1))) % DescLen
    BY <1>7, <2>6
  <2>8. ASSUME NEW x \in 1 .. Len(r.queue), r.queue[x] = r.queue[i] PROVE x = i
    <3>1. k + x \in 1 .. Len(j.queue) /\ r.queue[x] = j.queue[k + x]
      BY <1>1
    <3>2. k + x = k + i
      BY <2>1, <2>4, <2>8, <3>1
    <3> QED
      BY <1>1, <1>2, <1>5, <3>2
  <2> QED
    BY <2>3, <2>4, <2>5, <2>6, <2>7, <2>8
<1>9. r.ing = Ahead(r, Len(r.queue))
  <2>1. Len(r.queue) \in 0 .. Len(r.queue) /\ k + Len(r.queue) = Len(j.queue)
    BY <1>1, <1>2, <1>5
  <2>2. Ahead(r, Len(r.queue)) \in Nat /\ d + Ahead(r, Len(r.queue)) = Ahead(j, Len(j.queue))
    BY <1>1, <1>3, <2>1
  <2>3. j.ing = Ahead(j, Len(j.queue))
    BY DEF JobsContiguous
  <2> QED
    BY <1>3, <1>4, <1>5, <2>2, <2>3
<1>10. r.pnt = (s + r.ing) % DescLen
  <2>1. r.ing \in Nat /\ d + r.ing = j.ing
    BY <1>3, <1>4, <1>5
  <2>2. j.pnt = (start + j.ing) % DescLen
    BY DEF JobsContiguous
  <2>3. (s + r.ing) % DescLen = (start + (d + r.ing)) % DescLen
    BY <1>7, <2>1
  <2> QED
    BY <1>4, <2>1, <2>2, <2>3
<1>11. ASSUME NEW f \in DescEngines
       PROVE  /\ r.working[f] <=> \E i \in 1 .. Len(r.queue) : r.queue[i] = f
              /\ r.ev[f] # "idle" <=> r.working[f] /\ ~ r.done[f]
              /\ r.done[f] => r.working[f]
  <2>1. /\ j.working[f] <=> \E i \in 1 .. Len(j.queue) : j.queue[i] = f
        /\ j.ev[f] # "idle" <=> j.working[f] /\ ~ j.done[f]
        /\ j.done[f] => j.working[f]
    BY DEF JobsContiguous
  <2>2. j.working[e] /\ ~ j.done[e]
    BY DEF JobsContiguous, Completing
  <2>3. /\ r.working[f] <=> j.working[f] /\ f \notin gone
        /\ r.done[f] <=> (j.done[f] \/ f = e) /\ f \notin gone
        /\ r.ev[f] = IF f = e THEN "idle" ELSE j.ev[f]
    BY <1>4, <1>5
  <2>4. ASSUME j.working[f], f \notin gone
        PROVE  \E i \in 1 .. Len(r.queue) : r.queue[i] = f
    <3>1. PICK x \in 1 .. Len(j.queue) : j.queue[x] = f
      BY <2>1, <2>4
    <3>2. x \notin 1 .. k
      BY <2>4, <3>1 DEF gone
    <3>3. x - k \in 1 .. Len(r.queue) /\ k + (x - k) = x
      BY <1>1, <1>2, <1>5, <3>2
    <3> QED
      BY <1>1, <3>1, <3>3
  <2>5. ASSUME NEW i \in 1 .. Len(r.queue), r.queue[i] = f
        PROVE  j.working[f] /\ f \notin gone
    BY <1>1, <2>1, <2>5
  <2>6. ASSUME f \in gone, f # e PROVE j.done[f]
    <3>1. PICK x \in 1 .. k : j.queue[x] = f
      BY <2>6 DEF gone
    <3>2. k > 0 /\ j.queue[1] = e
      BY <1>2, <1>5
    <3>3. x \in 2 .. k
      BY <1>2, <1>5, <2>6, <3>1, <3>2
    <3> QED
      BY <1>2, <3>1, <3>3
  <2>7. r.working[f] <=> \E i \in 1 .. Len(r.queue) : r.queue[i] = f
    BY <2>3, <2>4, <2>5
  <2>8. r.ev[f] # "idle" <=> r.working[f] /\ ~ r.done[f]
    BY <2>1, <2>2, <2>3, <2>6
  <2>9. r.done[f] => r.working[f]
    BY <2>1, <2>2, <2>3
  <2> QED
    BY <2>7, <2>8, <2>9
<1>12. ASSUME r.queue # <<>> PROVE ~ r.done[Head(r.queue)]
  <2>1. 1 \in 1 .. Len(r.queue) /\ Head(r.queue) = r.queue[1]
    BY <1>1, <1>12
  <2>2. /\ k + 1 \in 1 .. Len(j.queue) /\ r.queue[1] = j.queue[k + 1]
        /\ j.queue[k + 1] \in DescEngines
    BY <1>1, <1>5, <2>1
  <2>5. r.done[Head(r.queue)] => j.done[j.queue[k + 1]] \/ j.queue[k + 1] = e
    <3>1. \A f \in DescEngines : r.done[f] => j.done[f] \/ f = e
      BY <1>4
    <3>2. Head(r.queue) = j.queue[k + 1]
      BY <2>1, <2>2
    <3> QED
      BY <2>2, <3>1, <3>2
  <2>3. CASE k = 0
    <3>1. j.queue # <<>> /\ Head(j.queue) = j.queue[1] /\ j.queue[1] # e
      BY <1>2, <1>5, <2>2, <2>3
    <3>2. ~ j.done[j.queue[1]]
      BY <3>1 DEF JobsContiguous
    <3> QED
      BY <2>3, <2>5, <3>1, <3>2
  <2>4. CASE k # 0
    <3>1. k > 0 /\ k < Len(j.queue) /\ 1 \in 1 .. Len(j.queue) /\ 1 # k + 1
      BY <1>2, <1>5, <2>2, <2>4
    <3>2. ~ j.done[j.queue[k + 1]] /\ j.queue[1] = e
      BY <1>2, <3>1
    <3>3. j.queue[k + 1] # e
      BY <2>2, <3>1, <3>2 DEF JobsContiguous
    <3> QED
      BY <2>5, <3>2, <3>3
  <2> QED
    BY <2>3, <2>4
<1>13. JobsContiguous(r, s)
  BY <1>8, <1>9, <1>10, <1>11, <1>12 DEF JobsContiguous
<1> QED
  BY <1>13 DEF r, s, d

-----------------------------------------------------------------------------
(* The transfers and their buffers. *)

LEMMA RegisterTransfers ==
    ASSUME NEW T, NEW j \in JobsType(T), NEW n \in 1 .. DescLen, NEW b \in Seq(T),
           hasFreeEngine(j), TransfersAgree(j)
    PROVE  TransfersAgree(Register(j, n, b))
<1> DEFINE e == getFreeEngine(j)
           r == Register(j, n, b)
<1>1. e \in DescEngines
  BY FreeEngineFound
<1>2. /\ r.num = [j.num EXCEPT ![e] = n]
      /\ r.ev = [j.ev EXCEPT ![e] = "delay"]
      /\ r.moved = [j.moved EXCEPT ![e] = 0]
  BY DEF Register
<1>3. /\ j.num \in [DescEngines -> 0 .. DescLen] /\ j.ev \in [DescEngines -> Stages]
      /\ j.moved \in [DescEngines -> Nat]
  BY DEF JobsType
<1> HIDE DEF e, r
<1>4. TransfersAgree(r)
  BY <1>1, <1>2, <1>3 DEF TransfersAgree
<1> QED
  BY <1>4 DEF r

LEMMA CompleteTransfers ==
    ASSUME NEW T, NEW j \in JobsType(T), NEW start \in Slots, NEW e \in DescEngines,
           JobsContiguous(j, start), Completing(j, e), TransfersAgree(j)
    PROVE  TransfersAgree(Complete(j, e))
<1> DEFINE k == RetiredJobs(j, e)
           r == Complete(j, e)
           gone == {j.queue[x] : x \in 1 .. k}
<1>1. /\ k \in 0 .. Len(j.queue)
      /\ k > 0 => j.queue[1] = e
      /\ \A i \in 2 .. k : j.done[j.queue[i]]
  BY RetiredJobsFound
<1>2. /\ r.num = [f \in DescEngines |-> IF f \in gone THEN 0 ELSE j.num[f]]
      /\ r.ev = [j.ev EXCEPT ![e] = "idle"]
      /\ r.moved = [j.moved EXCEPT ![e] = 0]
  BY DEF Complete
<1>3. /\ j.num \in [DescEngines -> 0 .. DescLen] /\ j.ev \in [DescEngines -> Stages]
      /\ j.moved \in [DescEngines -> Nat] /\ Len(j.queue) \in Nat
  BY DEF JobsType
<1> HIDE DEF k, r, gone
<1>4. ASSUME NEW f \in DescEngines, f # e, f \in gone PROVE j.ev[f] = "idle"
  <2>1. PICK x \in 1 .. k : j.queue[x] = f
    BY <1>4 DEF gone
  <2>2. x \in 2 .. k
    BY <1>1, <1>3, <1>4, <2>1
  <2>3. j.done[f]
    BY <1>1, <2>1, <2>2
  <2> QED
    BY <2>3 DEF JobsContiguous
<1>5. ASSUME NEW f \in DescEngines
      PROVE  /\ r.ev[f] = "delay" => r.moved[f] = 0
             /\ r.ev[f] = "dma"   => r.moved[f] < r.num[f]
             /\ r.ev[f] = "event" => r.moved[f] = r.num[f]
  <2>1. CASE f = e
    BY <1>2, <1>3, <2>1
  <2>2. CASE f # e
    <3>1. /\ j.ev[f] = "delay" => j.moved[f] = 0
          /\ j.ev[f] = "dma"   => j.moved[f] < j.num[f]
          /\ j.ev[f] = "event" => j.moved[f] = j.num[f]
      BY DEF TransfersAgree
    <3>2. r.ev[f] = j.ev[f] /\ r.moved[f] = j.moved[f]
      BY <1>2, <1>3, <2>2
    <3>3. f \notin gone => r.num[f] = j.num[f]
      BY <1>2
    <3> QED
      BY <1>4, <2>2, <3>1, <3>2, <3>3
  <2> QED
    BY <2>1, <2>2
<1>6. TransfersAgree(r)
  BY <1>5 DEF TransfersAgree
<1> QED
  BY <1>6 DEF r

(* A function on an initial segment of the naturals is a sequence. *)
LEMMA FcnIsSeq ==
    ASSUME NEW S, NEW n \in Nat, NEW f \in [1 .. n -> S]
    PROVE  f \in Seq(S) /\ Len(f) = n
OBVIOUS

(* Every job that is retired has been transferred completely. *)
LEMMA RetiredBufType ==
    ASSUME NEW T, NEW j \in JobsType(T), NEW start \in Slots, NEW e \in DescEngines,
           JobsContiguous(j, start), Completing(j, e),
           \A i \in 1 .. RetiredJobs(j, e) : Len(j.buf[j.queue[i]]) = j.num[j.queue[i]]
    PROVE  RetiredBuf(j, e) \in Seq(T) /\ Len(RetiredBuf(j, e)) = RetiredDescs(j, e)
<1> DEFINE k == RetiredJobs(j, e)
           d == RetiredDescs(j, e)
           job(x) == CHOOSE i \in 1 .. k : Ahead(j, i - 1) < x /\ x <= Ahead(j, i)
<1>1. k \in 0 .. Len(j.queue) /\ Len(j.queue) \in Nat
  <2>1. Len(j.queue) \in Nat
    BY DEF JobsType
  <2> QED
    BY <2>1, RetiredJobsFound
<1>2. d = Ahead(j, k) /\ d \in Nat
  BY RetiredDescsBound DEF RetiredDescs
<1>3. /\ \A i \in 1 .. Len(j.queue) : j.queue[i] \in DescEngines /\ j.num[j.queue[i]] \in 0 .. DescLen
      /\ \A i \in 0 .. Len(j.queue) : Ahead(j, i) \in Nat
      /\ \A i \in 1 .. Len(j.queue) : Ahead(j, i) = Ahead(j, i - 1) + j.num[j.queue[i]]
  BY AheadTyped
<1>4. Ahead(j, 0) = 0
  BY AheadZero
<1>5. j.buf \in [DescEngines -> Seq(T)]
  BY DEF JobsType
<1>6. \A i \in 1 .. k : Len(j.buf[j.queue[i]]) = j.num[j.queue[i]]
  OBVIOUS
<1> HIDE DEF k, d, job
<1>7. ASSUME NEW x \in 1 .. d PROVE j.buf[j.queue[job(x)]][x - Ahead(j, job(x) - 1)] \in T
  <2> DEFINE S == {i \in 0 .. k : x <= Ahead(j, i)}
  <2>1. S \in SUBSET Nat /\ k \in S
    BY <1>1, <1>2
  <2>2. PICK i \in S : \A y \in S : i <= y
    BY <2>1, LeastNat
  <2>3. i \in 0 .. k /\ x <= Ahead(j, i)
    BY <2>2
  <2>4. i # 0
    BY <1>2, <1>4, <2>3
  <2>5. i \in 1 .. k /\ i - 1 \in 0 .. k /\ ~ (i <= i - 1)
    BY <1>1, <2>3, <2>4
  <2>6. ~ (x <= Ahead(j, i - 1))
    BY <2>2, <2>5
  <2>7. Ahead(j, i - 1) \in Nat
    BY <1>1, <1>3, <2>5
  <2>8. \E y \in 1 .. k : Ahead(j, y - 1) < x /\ x <= Ahead(j, y)
    BY <1>2, <2>3, <2>5, <2>6, <2>7
  <2>9. job(x) \in 1 .. k /\ Ahead(j, job(x) - 1) < x /\ x <= Ahead(j, job(x))
    BY <2>8 DEF job
  <2> DEFINE y == job(x)
  <2> HIDE DEF y
  <2>10. y \in 1 .. k /\ Ahead(j, y - 1) < x /\ x <= Ahead(j, y)
    BY <2>9 DEF y
  <2>11. y \in 1 .. Len(j.queue) /\ y - 1 \in 0 .. Len(j.queue)
    BY <1>1, <2>10
  <2>12. Ahead(j, y - 1) \in Nat /\ Ahead(j, y) = Ahead(j, y - 1) + j.num[j.queue[y]]
         /\ j.num[j.queue[y]] \in 0 .. DescLen /\ j.queue[y] \in DescEngines
    BY <1>3, <2>11
  <2>13. x - Ahead(j, y - 1) \in 1 .. j.num[j.queue[y]]
    BY <1>2, <2>10, <2>12, DescLenAssumption
  <2>14. j.buf[j.queue[y]] \in Seq(T) /\ Len(j.buf[j.queue[y]]) = j.num[j.queue[y]]
    BY <1>5, <1>6, <2>10, <2>12
  <2>15. j.buf[j.queue[y]][x - Ahead(j, y - 1)] \in T
    BY <2>13, <2>14, ElementOfSeq
  <2> QED
    BY <2>15 DEF y
<1>8. RetiredBuf(j, e) = [x \in 1 .. d |-> j.buf[j.queue[job(x)]][x - Ahead(j, job(x) - 1)]]
  BY DEF RetiredBuf, d, job, k
<1>9. RetiredBuf(j, e) \in [1 .. d -> T]
  BY <1>7, <1>8
<1>10. RetiredBuf(j, e) \in Seq(T) /\ Len(RetiredBuf(j, e)) = d
  BY <1>2, <1>9, FcnIsSeq
<1> QED
  BY <1>10 DEF d

-----------------------------------------------------------------------------
(* What the jobs hold, and how far memory has got.  The descriptors of the *)
(* ring are numbered through all its rounds; W gives the descriptor of     *)
(* each number.                                                            *)

(* The buffers of the jobs hold the descriptors W from number start on. *)
BufsInOrder(j, start, W) ==
    \A i \in 1 .. Len(j.queue) : \A x \in 1 .. Len(j.buf[j.queue[i]]) :
        j.buf[j.queue[i]][x] = W[start + (Ahead(j, i - 1) + (x - 1))]

(* How many descriptors of engine e's job memory has performed. *)
Got(j, e) == IF j.done[e] THEN j.num[e] ELSE j.moved[e]

(* Memory has performed the transfer of descriptor b. *)
Reached(j, start, b) ==
    \/ b < start
    \/ \E i \in 1 .. Len(j.queue) : \E x \in 1 .. Got(j, j.queue[i]) :
          b = start + (Ahead(j, i - 1) + (x - 1))

(* A registered job is the last one, and the others are as they were. *)
LEMMA RegisterQueue ==
    ASSUME NEW T, NEW j \in JobsType(T), NEW n \in 1 .. DescLen, NEW b \in Seq(T),
           NEW start \in Slots, hasFreeEngine(j), JobsContiguous(j, start)
    PROVE  LET r   == Register(j, n, b)
               len == Len(j.queue)
           IN  /\ len \in Nat /\ Len(r.queue) = len + 1
               /\ \A i \in 1 .. len :
                     /\ r.queue[i] = j.queue[i]
                     /\ r.buf[r.queue[i]] = j.buf[j.queue[i]]
                     /\ Got(r, r.queue[i]) = Got(j, j.queue[i])
               /\ r.buf[r.queue[len + 1]] = b
               /\ Got(r, r.queue[len + 1]) = 0
               /\ \A i \in 0 .. len : Ahead(r, i) = Ahead(j, i) /\ Ahead(j, i) \in Nat
               /\ Ahead(j, len) = j.ing
<1> DEFINE e == getFreeEngine(j)
           r == Register(j, n, b)
           len == Len(j.queue)
<1>1. e \in DescEngines /\ ~ j.working[e]
  BY FreeEngineFound
<1>2. /\ r.queue = Append(j.queue, e)
      /\ r.done = [j.done EXCEPT ![e] = FALSE]
      /\ r.num = [j.num EXCEPT ![e] = n]
      /\ r.buf = [j.buf EXCEPT ![e] = b]
      /\ r.moved = [j.moved EXCEPT ![e] = 0]
  BY DEF Register
<1>3. /\ j.queue \in Seq(DescEngines) /\ len \in Nat
      /\ j.done \in [DescEngines -> BOOLEAN] /\ j.num \in [DescEngines -> 0 .. DescLen]
      /\ j.buf \in [DescEngines -> Seq(T)] /\ j.moved \in [DescEngines -> Nat]
  BY DEF JobsType
<1> HIDE DEF e, r
<1>4. /\ Len(r.queue) = len + 1 /\ r.queue[len + 1] = e
      /\ \A i \in 1 .. len : r.queue[i] = j.queue[i]
  BY <1>1, <1>2, <1>3
<1>5. \A i \in 1 .. len : j.queue[i] \in DescEngines /\ j.queue[i] # e
  <2>1. \A i \in 1 .. len : j.queue[i] \in DescEngines
    BY AheadTyped
  <2>2. \A f \in DescEngines : j.working[f] <=> \E i \in 1 .. len : j.queue[i] = f
    BY Zenon DEF JobsContiguous
  <2> QED
    BY <1>1, <2>1, <2>2, Zenon
<1>6. ASSUME NEW f \in DescEngines, f # e
      PROVE  /\ r.done[f] = j.done[f] /\ r.num[f] = j.num[f] /\ r.buf[f] = j.buf[f]
             /\ r.moved[f] = j.moved[f]
  BY <1>1, <1>2, <1>3, <1>6
<1>7. /\ r.done[e] = FALSE /\ r.buf[e] = b /\ r.moved[e] = 0
  BY <1>1, <1>2, <1>3
<1>8. \A i \in 1 .. len : /\ r.buf[r.queue[i]] = j.buf[j.queue[i]]
                          /\ r.num[r.queue[i]] = j.num[j.queue[i]]
                          /\ Got(r, r.queue[i]) = Got(j, j.queue[i])
  <2> SUFFICES ASSUME NEW i \in 1 .. len
               PROVE  /\ r.buf[r.queue[i]] = j.buf[j.queue[i]]
                      /\ r.num[r.queue[i]] = j.num[j.queue[i]]
                      /\ Got(r, r.queue[i]) = Got(j, j.queue[i])
    BY Zenon
  <2> DEFINE f == j.queue[i]
  <2>1. r.queue[i] = f /\ f \in DescEngines /\ f # e
    BY <1>4, <1>5, Zenon
  <2> HIDE DEF f
  <2>2. /\ r.done[f] = j.done[f] /\ r.num[f] = j.num[f] /\ r.buf[f] = j.buf[f]
        /\ r.moved[f] = j.moved[f]
    BY <1>6, <2>1, Zenon
  <2>3. Got(r, f) = Got(j, f)
    BY <2>2, Zenon DEF Got
  <2> QED
    BY <2>1, <2>2, <2>3, Zenon DEF f
<1>9. Got(r, e) = 0
  BY <1>7 DEF Got
<1>10. \A i \in 0 .. len : Ahead(r, i) = Ahead(j, i) /\ Ahead(j, i) \in Nat
  <2>1. \A i \in 1 .. len : j.num[j.queue[i]] \in 0 .. DescLen
    BY <1>3, <1>5
  <2>2. SameNums(j, 0, r, 0, len)
    BY <1>3, <1>8, <2>1 DEF SameNums
  <2> QED
    BY <1>3, <2>2, AheadSame
<1>11. Ahead(j, len) = j.ing
  BY DEF JobsContiguous
<1>12. r.buf[r.queue[len + 1]] = b /\ Got(r, r.queue[len + 1]) = 0
  BY <1>4, <1>7, <1>9
<1> QED
  BY <1>3, <1>4, <1>8, <1>10, <1>11, <1>12, Zenon DEF r

LEMMA RegisterBufs ==
    ASSUME NEW T, NEW j \in JobsType(T), NEW n \in 1 .. DescLen, NEW b \in Seq(T),
           NEW start \in Slots, hasFreeEngine(j), JobsContiguous(j, start),
           NEW s \in Nat, NEW W, BufsInOrder(j, s, W),
           \A x \in 1 .. Len(b) : b[x] = W[s + (j.ing + (x - 1))]
    PROVE  BufsInOrder(Register(j, n, b), s, W)
<1> DEFINE r == Register(j, n, b)
           len == Len(j.queue)
<1>1. /\ len \in Nat /\ Len(r.queue) = len + 1
      /\ \A i \in 1 .. len : r.buf[r.queue[i]] = j.buf[j.queue[i]]
      /\ r.buf[r.queue[len + 1]] = b
      /\ \A i \in 0 .. len : Ahead(r, i) = Ahead(j, i) /\ Ahead(j, i) \in Nat
      /\ Ahead(j, len) = j.ing
  BY RegisterQueue
<1> HIDE DEF r
<1>2. ASSUME NEW i \in 1 .. Len(r.queue), NEW x \in 1 .. Len(r.buf[r.queue[i]])
      PROVE  r.buf[r.queue[i]][x] = W[s + (Ahead(r, i - 1) + (x - 1))]
  <2>1. i - 1 \in 0 .. len /\ Ahead(r, i - 1) = Ahead(j, i - 1)
    BY <1>1
  <2>2. CASE i = len + 1
    <3>1. Ahead(j, i - 1) = j.ing /\ r.buf[r.queue[i]] = b
      BY <1>1, <2>2
    <3> QED
      BY <2>1, <3>1
  <2>3. CASE i # len + 1
    <3>1. i \in 1 .. len
      BY <1>1, <2>3
    <3>2. r.buf[r.queue[i]] = j.buf[j.queue[i]]
      BY <1>1, <3>1
    <3> QED
      BY <2>1, <3>1, <3>2 DEF BufsInOrder
  <2> QED
    BY <2>2, <2>3
<1>3. BufsInOrder(r, s, W)
  BY <1>2 DEF BufsInOrder
<1> QED
  BY <1>3 DEF r

LEMMA RegisterReached ==
    ASSUME NEW T, NEW j \in JobsType(T), NEW n \in 1 .. DescLen, NEW b \in Seq(T),
           NEW start \in Slots, hasFreeEngine(j), JobsContiguous(j, start),
           NEW s \in Nat, NEW p \in Nat
    PROVE  Reached(Register(j, n, b), s, p) <=> Reached(j, s, p)
<1> DEFINE r == Register(j, n, b)
           len == Len(j.queue)
           Done(q, i) == \E x \in 1 .. Got(q, q.queue[i]) : p = s + (Ahead(q, i - 1) + (x - 1))
<1>1. /\ len \in Nat /\ Len(r.queue) = len + 1
      /\ \A i \in 1 .. len : Got(r, r.queue[i]) = Got(j, j.queue[i])
      /\ Got(r, r.queue[len + 1]) = 0
      /\ \A i \in 0 .. len : Ahead(r, i) = Ahead(j, i)
  BY RegisterQueue
<1> HIDE DEF r
<1>2. ASSUME NEW i \in 1 .. len PROVE Done(r, i) <=> Done(j, i)
  <2>1. i - 1 \in 0 .. len
    BY <1>1
  <2> QED
    BY <1>1, <2>1, Zenon
<1>3. ~ Done(r, len + 1)
  BY <1>1
<1>4. /\ \A i \in 1 .. Len(r.queue) : i \in 1 .. len \/ i = len + 1
      /\ \A i \in 1 .. len : i \in 1 .. Len(r.queue)
  BY <1>1
<1>5. /\ Reached(r, s, p) <=> (p < s \/ \E i \in 1 .. Len(r.queue) : Done(r, i))
      /\ Reached(j, s, p) <=> (p < s \/ \E i \in 1 .. len : Done(j, i))
  BY Zenon DEF Reached
<1> HIDE DEF Done
<1> QED
  BY <1>2, <1>3, <1>4, <1>5, Zenon DEF r

(* The delay event and an answer of memory leave the queue as it is. *)
LEMMA SameQueue ==
    ASSUME NEW j, NEW r, r.queue = j.queue, r.num = j.num, NEW k
    PROVE  Ahead(r, k) = Ahead(j, k)
BY Zenon DEF Ahead

LEMMA IssueSame ==
    ASSUME NEW T, NEW j \in JobsType(T), NEW e \in DescEngines, NEW s, NEW W, NEW p
    PROVE  /\ BufsInOrder(j, s, W) => BufsInOrder(Issue(j, e), s, W)
           /\ Reached(Issue(j, e), s, p) <=> Reached(j, s, p)
<1> DEFINE r == Issue(j, e)
<1>1. /\ r.queue = j.queue /\ r.num = j.num /\ r.buf = j.buf /\ r.done = j.done
      /\ r.moved = j.moved
  BY DEF Issue, JobsType
<1> HIDE DEF r
<1>2. \A k : Ahead(r, k) = Ahead(j, k)
  BY <1>1, SameQueue
<1>3. \A f : Got(r, f) = Got(j, f)
  BY <1>1, Zenon DEF Got
<1>4. BufsInOrder(j, s, W) => BufsInOrder(r, s, W)
  BY <1>1, <1>2, Zenon DEF BufsInOrder
<1>5. Reached(r, s, p) <=> Reached(j, s, p)
  BY <1>1, <1>2, <1>3, Zenon DEF Reached
<1> QED
  BY <1>4, <1>5 DEF r

(* The job of an engine with an event due. *)
LEMMA JobFound ==
    ASSUME NEW T, NEW j \in JobsType(T), NEW start \in Slots, NEW e \in DescEngines,
           JobsContiguous(j, start), j.ev[e] # "idle"
    PROVE  /\ j.working[e] /\ ~ j.done[e]
           /\ \E i \in 1 .. Len(j.queue) :
                 /\ j.queue[i] = e
                 /\ \A k \in 1 .. Len(j.queue) : j.queue[k] = e => k = i
                 /\ j.base[e] = (start + Ahead(j, i - 1)) % DescLen
                 /\ j.base[e] + j.num[e] <= DescLen
<1>1. j.working[e] /\ ~ j.done[e]
  BY DEF JobsContiguous
<1>2. PICK i \in 1 .. Len(j.queue) : j.queue[i] = e
  BY <1>1 DEF JobsContiguous
<1>3. /\ \A k \in 1 .. Len(j.queue) : j.queue[k] = e => k = i
      /\ j.base[e] = (start + Ahead(j, i - 1)) % DescLen
      /\ j.base[e] + j.num[e] <= DescLen
  BY <1>2 DEF JobsContiguous
<1> QED
  BY <1>1, <1>2, <1>3

(* An answer of memory reaches one more descriptor. *)
LEMMA BeatReached ==
    ASSUME NEW T, NEW j \in JobsType(T), NEW r, NEW start \in Slots, NEW e \in DescEngines,
           JobsContiguous(j, start), j.ev[e] = "dma",
           r.queue = j.queue, r.num = j.num, r.done = j.done,
           r.moved = [j.moved EXCEPT ![e] = @ + 1],
           NEW i \in 1 .. Len(j.queue), j.queue[i] = e, NEW s \in Nat, NEW p \in Nat
    PROVE  Reached(r, s, p) <=> Reached(j, s, p) \/ p = s + (Ahead(j, i - 1) + j.moved[e])
<1> DEFINE Done(q, k) == \E x \in 1 .. Got(q, q.queue[k]) : p = s + (Ahead(q, k - 1) + (x - 1))
           m == j.moved[e]
           a == Ahead(j, i - 1)
<1>1. /\ ~ j.done[e]
      /\ \A k \in 1 .. Len(j.queue) : j.queue[k] = e => k = i
  BY JobFound
<1>2. m \in Nat /\ r.moved[e] = m + 1
      /\ \A f \in DescEngines : f # e => r.moved[f] = j.moved[f]
  BY DEF JobsType
<1>3. \A k \in 1 .. Len(j.queue) : j.queue[k] \in DescEngines
  BY AheadTyped
<1>4. a \in Nat
  <2>1. Len(j.queue) \in Nat
    BY DEF JobsType
  <2>2. i - 1 \in 0 .. Len(j.queue)
    BY <2>1
  <2> QED
    BY <2>2, AheadTyped
<1>5. \A k : Ahead(r, k) = Ahead(j, k)
  BY SameQueue
<1>6. ASSUME NEW k \in 1 .. Len(j.queue), k # i PROVE Done(r, k) <=> Done(j, k)
  <2>1. j.queue[k] \in DescEngines /\ j.queue[k] # e
    BY <1>1, <1>3, <1>6, Zenon
  <2>2. Got(r, r.queue[k]) = Got(j, j.queue[k])
    BY <1>2, <2>1, Zenon DEF Got
  <2> QED
    BY <1>5, <2>2, Zenon
<1>7. Done(r, i) <=> Done(j, i) \/ p = s + (a + m)
  <2>1. Got(r, r.queue[i]) = m + 1 /\ Got(j, j.queue[i]) = m
    BY <1>1, <1>2, Zenon DEF Got
  <2> HIDE DEF m, a
  <2>2. Done(r, i) <=> \E x \in 1 .. m + 1 : p = s + (a + (x - 1))
    BY <1>5, <2>1, Zenon DEF a
  <2>3. Done(j, i) <=> \E x \in 1 .. m : p = s + (a + (x - 1))
    BY <2>1, Zenon DEF a
  <2>4. (\E x \in 1 .. m + 1 : p = s + (a + (x - 1)))
           <=> ((\E x \in 1 .. m : p = s + (a + (x - 1))) \/ p = s + (a + m))
    <3>1. m + 1 \in 1 .. m + 1 /\ (m + 1) - 1 = m
      BY <1>2
    <3>2. \A x \in 1 .. m : x \in 1 .. m + 1
      BY <1>2
    <3>3. \A x \in 1 .. m + 1 : x \in 1 .. m \/ x = m + 1
      BY <1>2
    <3> QED
      BY <3>1, <3>2, <3>3, Zenon
  <2> QED
    BY <2>2, <2>3, <2>4
<1>8. /\ Reached(r, s, p) <=> (p < s \/ \E k \in 1 .. Len(j.queue) : Done(r, k))
      /\ Reached(j, s, p) <=> (p < s \/ \E k \in 1 .. Len(j.queue) : Done(j, k))
  BY Zenon DEF Reached
<1> HIDE DEF Done
<1> QED
  BY <1>6, <1>7, <1>8, Zenon DEF a, m

(* The buffers after an answer of memory to a write-back, and to a fetch. *)
LEMMA BeatSame ==
    ASSUME NEW T, NEW j \in JobsType(T), NEW e \in DescEngines
    PROVE  LET r == Beat(j, e) IN
           /\ r.queue = j.queue /\ r.num = j.num /\ r.done = j.done /\ r.buf = j.buf
           /\ r.ing = j.ing /\ r.moved = [j.moved EXCEPT ![e] = @ + 1]
<1> QED
  BY DEF Beat, JobsType

LEMMA BeatBufs ==
    ASSUME NEW T, NEW j \in JobsType(T), NEW e \in DescEngines, NEW s, NEW W,
           BufsInOrder(j, s, W)
    PROVE  BufsInOrder(Beat(j, e), s, W)
<1> DEFINE r == Beat(j, e)
<1>1. r.queue = j.queue /\ r.num = j.num /\ r.buf = j.buf
  BY BeatSame
<1> HIDE DEF r
<1>2. \A k : Ahead(r, k) = Ahead(j, k)
  BY <1>1, SameQueue
<1>3. BufsInOrder(r, s, W)
  BY <1>1, <1>2, Zenon DEF BufsInOrder
<1> QED
  BY <1>3 DEF r

(* d is the next descriptor of engine e's transfer, the i-th job. *)
NextOf(j, s, e, i, W, d) == d = W[s + (Ahead(j, i - 1) + j.moved[e])]

LEMMA FetchBeatBufs ==
    ASSUME NEW T, NEW j \in JobsType(T), NEW e \in DescEngines, NEW s \in Nat, NEW W, NEW d \in T,
           NEW start \in Slots, JobsContiguous(j, start), j.ev[e] = "dma",
           NEW i \in 1 .. Len(j.queue), j.queue[i] = e,
           Len(j.buf[e]) = j.moved[e], NextOf(j, s, e, i, W, d),
           BufsInOrder(j, s, W)
    PROVE  /\ BufsInOrder(FetchBeat(j, e, d), s, W)
           /\ FetchBeat(j, e, d).ing = j.ing
<1> DEFINE r == FetchBeat(j, e, d)
           m == j.moved[e]
<1>0. d = W[s + (Ahead(j, i - 1) + m)]
  BY DEF NextOf
<1>1. /\ r.queue = j.queue /\ r.num = j.num /\ r.ing = j.ing
      /\ r.buf = [j.buf EXCEPT ![e] = Append(j.buf[e], d)]
  BY DEF FetchBeat, Beat, JobsType
<1>2. j.buf \in [DescEngines -> Seq(T)] /\ j.buf[e] \in Seq(T) /\ m \in Nat
  BY DEF JobsType
<1> HIDE DEF r
<1>3. \A k : Ahead(r, k) = Ahead(j, k)
  BY <1>1, SameQueue
<1>4. r.buf[e] = Append(j.buf[e], d) /\ \A f \in DescEngines : f # e => r.buf[f] = j.buf[f]
  BY <1>1, <1>2
<1>5. /\ Len(r.buf[e]) = m + 1 /\ r.buf[e][m + 1] = d
      /\ \A x \in 1 .. m : r.buf[e][x] = j.buf[e][x]
  BY <1>2, <1>4
<1>6. \A k \in 1 .. Len(j.queue) : j.queue[k] \in DescEngines /\ (j.queue[k] = e => k = i)
  <2>1. \A k \in 1 .. Len(j.queue) : j.queue[k] \in DescEngines
    BY AheadTyped
  <2>2. \A k \in 1 .. Len(j.queue) : j.queue[k] = e => k = i
    BY JobFound
  <2> QED
    BY <2>1, <2>2
<1>7. ASSUME NEW k \in 1 .. Len(r.queue), NEW x \in 1 .. Len(r.buf[r.queue[k]])
      PROVE  r.buf[r.queue[k]][x] = W[s + (Ahead(r, k - 1) + (x - 1))]
  <2>1. CASE k = i
    <3>1. r.queue[k] = e /\ Ahead(r, k - 1) = Ahead(j, i - 1) /\ x \in 1 .. m + 1
      BY <1>1, <1>3, <1>5, <2>1
    <3>2. CASE x = m + 1
      <4>1. x - 1 = m
        BY <1>2, <3>2
      <4> QED
        <5>1. r.buf[r.queue[k]][x] = d
          BY <1>5, <3>1, <3>2
        <5>2. W[s + (Ahead(r, k - 1) + (x - 1))] = d
          BY <1>0, <3>1, <4>1, Zenon
        <5> QED
          BY <5>1, <5>2, Zenon
    <3>3. CASE x # m + 1
      <4>1. x \in 1 .. m
        BY <1>2, <3>1, <3>3
      <4>2. j.buf[e][x] = W[s + (Ahead(j, i - 1) + (x - 1))]
        <5>1. x \in 1 .. Len(j.buf[j.queue[i]])
          BY <4>1
        <5>2. j.buf[j.queue[i]][x] = W[s + (Ahead(j, i - 1) + (x - 1))]
          BY <5>1, Zenon DEF BufsInOrder
        <5> QED
          BY <5>2
      <4> QED
        BY <1>5, <3>1, <4>1, <4>2
    <3> QED
      BY <3>2, <3>3
  <2>2. CASE k # i
    <3> DEFINE f == j.queue[k]
    <3>0. r.queue[k] = f /\ k \in 1 .. Len(j.queue)
      BY <1>1
    <3>4. f \in DescEngines /\ f # e
      BY <1>6, <2>2, <3>0, Zenon
    <3> HIDE DEF f
    <3>5. r.buf[f] = j.buf[f]
      BY <1>4, <3>4, Zenon
    <3>1. r.queue[k] = j.queue[k] /\ r.buf[r.queue[k]] = j.buf[j.queue[k]]
      BY <3>0, <3>5 DEF f
    <3>2. k \in 1 .. Len(j.queue) /\ x \in 1 .. Len(j.buf[j.queue[k]])
      BY <1>1, <3>1
    <3>3. j.buf[j.queue[k]][x] = W[s + (Ahead(j, k - 1) + (x - 1))]
      BY <3>2, Zenon DEF BufsInOrder
    <3> QED
      BY <1>3, <3>1, <3>3
  <2> QED
    BY <2>1, <2>2
<1>8. BufsInOrder(r, s, W)
  BY <1>7 DEF BufsInOrder
<1> QED
  BY <1>1, <1>8 DEF r

(* A descriptor that a transfer has reached lies before the bank's pointer. *)
LEMMA GotBound ==
    ASSUME NEW T, NEW j \in JobsType(T), NEW start \in Slots, JobsContiguous(j, start),
           TransfersAgree(j), NEW i \in 1 .. Len(j.queue)
    PROVE  /\ Got(j, j.queue[i]) \in Nat /\ Got(j, j.queue[i]) <= j.num[j.queue[i]]
           /\ Ahead(j, i - 1) \in Nat /\ Ahead(j, i) \in Nat
           /\ Ahead(j, i) = Ahead(j, i - 1) + j.num[j.queue[i]]
           /\ j.ing \in Nat /\ Ahead(j, i) <= j.ing
           /\ j.num[j.queue[i]] \in Nat
<1> DEFINE e == j.queue[i]
<1>0. Len(j.queue) \in Nat /\ j.ing \in Nat
  BY DEF JobsType
<1>1. i \in 0 .. Len(j.queue) /\ i - 1 \in 0 .. Len(j.queue) /\ i \in Nat /\ i <= Len(j.queue)
  BY <1>0
<1>2. /\ e \in DescEngines /\ j.num[e] \in 0 .. DescLen
      /\ Ahead(j, i) = Ahead(j, i - 1) + j.num[e]
      /\ Ahead(j, i - 1) \in Nat /\ Ahead(j, i) \in Nat
  BY <1>1, AheadTyped
<1>3. Ahead(j, i) <= Ahead(j, Len(j.queue))
  BY <1>0, <1>1, AheadMono
<1>4. j.ing = Ahead(j, Len(j.queue))
  BY DEF JobsContiguous
<1>5. j.num[e] \in Nat
  BY <1>2, DescLenAssumption
<1>6. Got(j, e) \in Nat /\ Got(j, e) <= j.num[e]
  <2> HIDE DEF e
  <2>1. CASE j.done[e]
    BY <1>5, <2>1 DEF Got
  <2>2. CASE ~ j.done[e]
    <3>1. j.working[e]
      BY <1>2 DEF JobsContiguous, e
    <3>2. j.ev[e] # "idle" /\ j.ev[e] \in Stages /\ j.moved[e] \in Nat
      BY <1>2, <2>2, <3>1 DEF JobsContiguous, JobsType
    <3>3. j.ev[e] \in {"delay", "dma", "event"}
      BY <3>2 DEF Stages
    <3>4. j.moved[e] <= j.num[e]
      BY <1>2, <1>5, <3>2, <3>3 DEF TransfersAgree
    <3> QED
      BY <2>2, <3>2, <3>4 DEF Got
  <2> QED
    BY <2>1, <2>2
<1> QED
  BY <1>0, <1>2, <1>3, <1>4, <1>5, <1>6

LEMMA ReachedBound ==
    ASSUME NEW T, NEW j \in JobsType(T), NEW start \in Slots, JobsContiguous(j, start),
           TransfersAgree(j), NEW s \in Nat, NEW p \in Nat, Reached(j, s, p)
    PROVE  p < s + j.ing
<1>0. j.ing \in Nat
  BY DEF JobsType
<1>1. CASE p < s
  BY <1>0, <1>1
<1>2. CASE \E i \in 1 .. Len(j.queue) : \E x \in 1 .. Got(j, j.queue[i]) :
              p = s + (Ahead(j, i - 1) + (x - 1))
  <2>0. PICK i \in 1 .. Len(j.queue) : \E x \in 1 .. Got(j, j.queue[i]) :
              p = s + (Ahead(j, i - 1) + (x - 1))
    BY <1>2
  <2>1. PICK x \in 1 .. Got(j, j.queue[i]) : p = s + (Ahead(j, i - 1) + (x - 1))
    BY <2>0
  <2>2. /\ Got(j, j.queue[i]) \in Nat /\ Got(j, j.queue[i]) <= j.num[j.queue[i]]
        /\ Ahead(j, i - 1) \in Nat /\ Ahead(j, i) = Ahead(j, i - 1) + j.num[j.queue[i]]
        /\ Ahead(j, i) <= j.ing /\ j.num[j.queue[i]] \in Nat
    BY GotBound
  <2> DEFINE g == Got(j, j.queue[i])
             a == Ahead(j, i - 1)
             b == Ahead(j, i)
             n == j.num[j.queue[i]]
  <2>3. /\ g \in Nat /\ g <= n /\ a \in Nat /\ b = a + n /\ b <= j.ing /\ n \in Nat
        /\ x \in 1 .. g /\ p = s + (a + (x - 1))
    BY <2>1, <2>2
  <2> HIDE DEF g, a, b, n
  <2> QED
    BY <1>0, <2>3
<1> QED
  BY <1>1, <1>2 DEF Reached

(* What a transfer has not reached, nothing has. *)
LEMMA NotReached ==
    ASSUME NEW T, NEW j \in JobsType(T), NEW start \in Slots, JobsContiguous(j, start),
           TransfersAgree(j), NEW s \in Nat,
           NEW i \in 1 .. Len(j.queue), NEW x \in Nat,
           Got(j, j.queue[i]) < x, x <= j.num[j.queue[i]]
    PROVE  ~ Reached(j, s, s + (Ahead(j, i - 1) + (x - 1)))
<1> DEFINE p == s + (Ahead(j, i - 1) + (x - 1))
           n == j.num[j.queue[i]]
<1>0. Len(j.queue) \in Nat
  BY DEF JobsType
<1>1. /\ Got(j, j.queue[i]) \in Nat /\ Ahead(j, i - 1) \in Nat
      /\ Ahead(j, i) = Ahead(j, i - 1) + n /\ n \in Nat
  BY GotBound
<1>2. ~ (p < s)
  BY <1>1
<1>3. ASSUME NEW k \in 1 .. Len(j.queue), NEW y \in 1 .. Got(j, j.queue[k])
      PROVE  p # s + (Ahead(j, k - 1) + (y - 1))
  <2>1. /\ Got(j, j.queue[k]) \in Nat /\ Got(j, j.queue[k]) <= j.num[j.queue[k]]
        /\ Ahead(j, k - 1) \in Nat /\ Ahead(j, k) = Ahead(j, k - 1) + j.num[j.queue[k]]
        /\ Ahead(j, k) \in Nat /\ j.num[j.queue[k]] \in Nat
    BY GotBound
  <2> DEFINE gk == Got(j, j.queue[k])
             ak == Ahead(j, k - 1)
             bk == Ahead(j, k)
             nk == j.num[j.queue[k]]
             g  == Got(j, j.queue[i])
             a  == Ahead(j, i - 1)
             b  == Ahead(j, i)
  <2>5. /\ gk \in Nat /\ gk <= nk /\ ak \in Nat /\ bk = ak + nk /\ nk \in Nat /\ y \in 1 .. gk
        /\ g \in Nat /\ g < x /\ x <= n /\ a \in Nat /\ b = a + n /\ n \in Nat
        /\ p = s + (a + (x - 1))
    BY <1>1, <2>1
  <2>6. SUFFICES p # s + (ak + (y - 1))
    OBVIOUS
  <2> HIDE DEF n, p, gk, ak, bk, nk, g, a, b
  <2>2. CASE k < i
    <3>1. k \in Nat /\ i - 1 \in Nat /\ k <= i - 1 /\ i - 1 <= Len(j.queue)
      BY <1>0, <2>2
    <3>2. bk <= a
      BY <3>1, AheadMono DEF bk, a
    <3> QED
      BY <2>5, <3>2
  <2>3. CASE k > i
    <3>1. k - 1 \in Nat /\ i \in Nat /\ i <= k - 1 /\ k - 1 <= Len(j.queue)
      BY <1>0, <2>3
    <3>2. b <= ak
      BY <3>1, AheadMono DEF b, ak
    <3> QED
      BY <2>5, <3>2
  <2>4. CASE k = i
    <3>1. gk = g /\ ak = a
      BY <2>4 DEF gk, ak, g, a
    <3> QED
      BY <2>5, <3>1
  <2> QED
    BY <1>0, <2>2, <2>3, <2>4
<1> HIDE DEF p
<1>4. ~ Reached(j, s, p)
  BY <1>2, <1>3 DEF Reached
<1> QED
  BY <1>4 DEF p

(* Each descriptor of the first k jobs is in one of them. *)
LEMMA JobOfDesc ==
    ASSUME NEW T, NEW j \in JobsType(T), NEW k \in 0 .. Len(j.queue), NEW x \in Nat \ {0},
           x <= Ahead(j, k)
    PROVE  \E i \in 1 .. k : Ahead(j, i - 1) < x /\ x <= Ahead(j, i)
<1> DEFINE S == {i \in 0 .. k : x <= Ahead(j, i)}
<1>1. Len(j.queue) \in Nat
  BY DEF JobsType
<1>2. S \in SUBSET Nat /\ k \in S
  BY <1>1
<1>3. PICK i \in S : \A y \in S : i <= y
  BY <1>2, LeastNat
<1>4. i \in 0 .. k /\ x <= Ahead(j, i)
  BY <1>3
<1>5. i # 0
  BY <1>4, AheadZero
<1>6. i \in 1 .. k /\ i - 1 \in 0 .. k /\ i - 1 \in 0 .. Len(j.queue) /\ ~ (i <= i - 1)
  BY <1>1, <1>4, <1>5
<1>7. ~ (x <= Ahead(j, i - 1))
  BY <1>3, <1>6
<1>8. Ahead(j, i - 1) \in Nat
  BY <1>6, AheadTyped
<1>9. Ahead(j, i - 1) < x
  BY <1>7, <1>8
<1> QED
  BY <1>4, <1>6, <1>9

(* All of a retired job has been transferred. *)
LEMMA RetiredGot ==
    ASSUME NEW T, NEW j \in JobsType(T), NEW start \in Slots, NEW e \in DescEngines,
           JobsContiguous(j, start), TransfersAgree(j), Completing(j, e)
    PROVE  /\ Got(j, e) = j.num[e]
           /\ \A i \in 1 .. RetiredJobs(j, e) : Got(j, j.queue[i]) = j.num[j.queue[i]]
<1>1. Got(j, e) = j.num[e]
  BY DEF Got, TransfersAgree, Completing
<1>2. /\ RetiredJobs(j, e) \in 0 .. Len(j.queue)
      /\ RetiredJobs(j, e) > 0 => j.queue[1] = e
      /\ \A i \in 2 .. RetiredJobs(j, e) : j.done[j.queue[i]]
  BY RetiredJobsFound
<1>3. Len(j.queue) \in Nat
  BY DEF JobsType
<1>4. ASSUME NEW i \in 1 .. RetiredJobs(j, e) PROVE Got(j, j.queue[i]) = j.num[j.queue[i]]
  <2>1. CASE i = 1
    BY <1>1, <1>2, <1>3, <2>1
  <2>2. CASE i # 1
    <3>1. j.done[j.queue[i]]
      BY <1>2, <1>3, <2>2
    <3> QED
      BY <3>1 DEF Got
  <2> QED
    BY <2>1, <2>2
<1> QED
  BY <1>1, <1>4

(* The jobs that stay have the same buffers and have got as far. *)
LEMMA CompleteJobs ==
    ASSUME NEW T, NEW j \in JobsType(T), NEW start \in Slots, NEW e \in DescEngines,
           JobsContiguous(j, start), TransfersAgree(j), Completing(j, e)
    PROVE  LET k == RetiredJobs(j, e)
               r == Complete(j, e)
           IN  /\ k \in Nat /\ Len(j.queue) \in Nat /\ Len(r.queue) = Len(j.queue) - k
               /\ \A i \in 1 .. Len(r.queue) :
                     /\ k + i \in 1 .. Len(j.queue)
                     /\ r.buf[r.queue[i]] = j.buf[j.queue[k + i]]
                     /\ Got(r, r.queue[i]) = Got(j, j.queue[k + i])
                     /\ Ahead(r, i - 1) \in Nat
                     /\ RetiredDescs(j, e) + Ahead(r, i - 1) = Ahead(j, (k + i) - 1)
<1> DEFINE k == RetiredJobs(j, e)
           r == Complete(j, e)
           gone == {j.queue[m] : m \in 1 .. k}
<1>0. Len(j.queue) \in Nat /\ k \in Nat /\ k <= Len(j.queue)
  <2>1. Len(j.queue) \in Nat
    BY DEF JobsType
  <2>2. k \in 0 .. Len(j.queue)
    BY RetiredJobsFound
  <2> QED
    BY <2>1, <2>2
<1>1. /\ Len(r.queue) = Len(j.queue) - k
      /\ \A i \in 1 .. Len(r.queue) : /\ k + i \in 1 .. Len(j.queue)
                                      /\ r.queue[i] = j.queue[k + i]
                                      /\ j.queue[k + i] \notin gone
      /\ \A i \in 0 .. Len(r.queue) : /\ Ahead(r, i) \in Nat
                                      /\ Ahead(j, k) + Ahead(r, i) = Ahead(j, k + i)
  BY CompleteQueue
<1>2. /\ r.done = [f \in DescEngines |-> (j.done[f] \/ f = e) /\ f \notin gone]
      /\ r.num = [f \in DescEngines |-> IF f \in gone THEN 0 ELSE j.num[f]]
      /\ r.buf = [f \in DescEngines |-> IF f \in gone THEN <<>> ELSE j.buf[f]]
      /\ r.moved = [j.moved EXCEPT ![e] = 0]
  BY DEF Complete
<1>3. Got(j, e) = j.num[e]
  BY RetiredGot
<1>4. j.moved \in [DescEngines -> Nat] /\ j.done \in [DescEngines -> BOOLEAN]
  BY DEF JobsType
<1>5. \A i \in 1 .. Len(j.queue) : j.queue[i] \in DescEngines
  BY AheadTyped
<1> HIDE DEF r, k, gone
<1>6. ASSUME NEW f \in DescEngines, f \notin gone
      PROVE  r.buf[f] = j.buf[f] /\ Got(r, f) = Got(j, f)
  <2>1. r.buf[f] = j.buf[f] /\ r.num[f] = j.num[f]
    BY <1>2, <1>6, Zenon
  <2>2. CASE f = e
    <3>1. r.done[f]
      BY <1>2, <1>6, <2>2, Zenon
    <3>2. Got(r, f) = r.num[f]
      BY <3>1 DEF Got
    <3> QED
      BY <1>3, <2>1, <2>2, <3>2
  <2>3. CASE f # e
    <3>1. r.done[f] = j.done[f] /\ r.moved[f] = j.moved[f]
      BY <1>2, <1>4, <1>6, <2>3
    <3> QED
      BY <2>1, <3>1, Zenon DEF Got
  <2> QED
    BY <2>2, <2>3
<1>7. ASSUME NEW i \in 1 .. Len(r.queue)
      PROVE  /\ k + i \in 1 .. Len(j.queue)
             /\ r.buf[r.queue[i]] = j.buf[j.queue[k + i]]
             /\ Got(r, r.queue[i]) = Got(j, j.queue[k + i])
             /\ Ahead(r, i - 1) \in Nat
             /\ RetiredDescs(j, e) + Ahead(r, i - 1) = Ahead(j, (k + i) - 1)
  <2>1. k + i \in 1 .. Len(j.queue) /\ r.queue[i] = j.queue[k + i] /\ j.queue[k + i] \notin gone
    BY <1>1
  <2>2. j.queue[k + i] \in DescEngines
    BY <1>5, <2>1
  <2>3. i - 1 \in 0 .. Len(r.queue) /\ k + (i - 1) = (k + i) - 1
    BY <1>0, <1>1
  <2>4. Ahead(r, i - 1) \in Nat /\ Ahead(j, k) + Ahead(r, i - 1) = Ahead(j, k + (i - 1))
    BY <1>1, <2>3
  <2>5. RetiredDescs(j, e) = Ahead(j, k)
    BY DEF RetiredDescs, k
  <2>6. r.buf[j.queue[k + i]] = j.buf[j.queue[k + i]] /\ Got(r, j.queue[k + i]) = Got(j, j.queue[k + i])
    BY <1>6, <2>1, <2>2
  <2> QED
    BY <2>1, <2>3, <2>4, <2>5, <2>6
<1> QED
  BY <1>0, <1>1, <1>7 DEF k, r

LEMMA CompleteBufs ==
    ASSUME NEW T, NEW j \in JobsType(T), NEW start \in Slots, NEW e \in DescEngines,
           JobsContiguous(j, start), TransfersAgree(j), Completing(j, e),
           NEW s \in Nat, NEW W, BufsInOrder(j, s, W)
    PROVE  BufsInOrder(Complete(j, e), s + RetiredDescs(j, e), W)
<1> DEFINE k == RetiredJobs(j, e)
           r == Complete(j, e)
           n == RetiredDescs(j, e)
<1>1. n \in Nat
  BY RetiredDescsBound
<1>2. \A i \in 1 .. Len(r.queue) :
          /\ k + i \in 1 .. Len(j.queue)
          /\ r.buf[r.queue[i]] = j.buf[j.queue[k + i]]
          /\ Ahead(r, i - 1) \in Nat
          /\ n + Ahead(r, i - 1) = Ahead(j, (k + i) - 1)
  BY CompleteJobs
<1>3. j.queue \in Seq(DescEngines) /\ j.buf \in [DescEngines -> Seq(T)]
  BY DEF JobsType
<1> HIDE DEF k, r, n
<1>4. ASSUME NEW i \in 1 .. Len(r.queue), NEW x \in 1 .. Len(r.buf[r.queue[i]])
      PROVE  r.buf[r.queue[i]][x] = W[(s + n) + (Ahead(r, i - 1) + (x - 1))]
  <2>1. /\ k + i \in 1 .. Len(j.queue) /\ r.buf[r.queue[i]] = j.buf[j.queue[k + i]]
        /\ Ahead(r, i - 1) \in Nat /\ n + Ahead(r, i - 1) = Ahead(j, (k + i) - 1)
    BY <1>2
  <2>2. j.buf[j.queue[k + i]][x] = W[s + (Ahead(j, (k + i) - 1) + (x - 1))]
    BY <2>1, Zenon DEF BufsInOrder
  <2>3. x \in Int
    <3>1. Len(j.buf[j.queue[k + i]]) \in Nat
      BY <1>3, <2>1
    <3> QED
      BY <2>1, <3>1
  <2> DEFINE a == Ahead(r, i - 1)
             b == Ahead(j, (k + i) - 1)
  <2>4. a \in Nat /\ n + a = b
    BY <2>1
  <2> HIDE DEF a, b
  <2>5. (s + n) + (a + (x - 1)) = s + (b + (x - 1))
    BY <1>1, <2>3, <2>4
  <2> QED
    BY <2>1, <2>2, <2>5, Zenon DEF a, b
<1>5. BufsInOrder(r, s + n, W)
  BY <1>4 DEF BufsInOrder
<1> QED
  BY <1>5 DEF r, n

(* A completion changes which jobs there are, not what memory has done. *)
LEMMA CompleteReached ==
    ASSUME NEW T, NEW j \in JobsType(T), NEW start \in Slots, NEW e \in DescEngines,
           JobsContiguous(j, start), TransfersAgree(j), Completing(j, e),
           NEW s \in Nat, NEW p \in Nat
    PROVE  Reached(Complete(j, e), s + RetiredDescs(j, e), p) <=> Reached(j, s, p)
<1> DEFINE k == RetiredJobs(j, e)
           r == Complete(j, e)
           n == RetiredDescs(j, e)
<1>1. n \in Nat /\ n = Ahead(j, k)
  BY RetiredDescsBound DEF RetiredDescs
<1>2. /\ k \in Nat /\ Len(j.queue) \in Nat /\ Len(r.queue) = Len(j.queue) - k
      /\ \A i \in 1 .. Len(r.queue) :
            /\ k + i \in 1 .. Len(j.queue)
            /\ Got(r, r.queue[i]) = Got(j, j.queue[k + i])
            /\ Ahead(r, i - 1) \in Nat
            /\ n + Ahead(r, i - 1) = Ahead(j, (k + i) - 1)
  BY CompleteJobs
<1>3. k \in 0 .. Len(j.queue) /\ \A i \in 1 .. k : Got(j, j.queue[i]) = j.num[j.queue[i]]
  BY RetiredJobsFound, RetiredGot
<1> HIDE DEF k, r, n
<1>4. ASSUME NEW i \in 1 .. Len(r.queue), NEW x \in Int
      PROVE  (s + n) + (Ahead(r, i - 1) + (x - 1)) = s + (Ahead(j, (k + i) - 1) + (x - 1))
  <2> DEFINE a == Ahead(r, i - 1)
             b == Ahead(j, (k + i) - 1)
  <2>1. a \in Nat /\ n + a = b
    BY <1>2
  <2> HIDE DEF a, b
  <2>2. (s + n) + (a + (x - 1)) = s + (b + (x - 1))
    BY <1>1, <2>1
  <2> QED
    BY <2>2 DEF a, b
<1>5. ASSUME Reached(r, s + n, p) PROVE Reached(j, s, p)
  <2>1. CASE p < s
    BY <2>1 DEF Reached
  <2>2. CASE ~ (p < s) /\ p < s + n
    <3> DEFINE y == (p - s) + 1
    <3>1. y \in Nat \ {0} /\ y <= Ahead(j, k)
      BY <1>1, <2>2
    <3>2. PICK i \in 1 .. k : Ahead(j, i - 1) < y /\ y <= Ahead(j, i)
      BY <1>3, <3>1, JobOfDesc
    <3>3. i \in 1 .. Len(j.queue)
      BY <1>2, <1>3
    <3> DEFINE a == Ahead(j, i - 1)
               b == Ahead(j, i)
               g == Got(j, j.queue[i])
               x == y - a
    <3>4. a \in Nat /\ b = a + g /\ g \in Nat /\ a < y /\ y <= b
      BY <1>3, <3>2, <3>3, GotBound
    <3> HIDE DEF a, b, g
    <3>5. x \in 1 .. g /\ p = s + (a + (x - 1))
      BY <2>2, <3>4
    <3> QED
      BY <3>3, <3>5 DEF Reached, a, g
  <2>3. CASE \E i \in 1 .. Len(r.queue) : \E x \in 1 .. Got(r, r.queue[i]) :
                p = (s + n) + (Ahead(r, i - 1) + (x - 1))
    <3>1. PICK i \in 1 .. Len(r.queue) : \E x \in 1 .. Got(r, r.queue[i]) :
                p = (s + n) + (Ahead(r, i - 1) + (x - 1))
      BY <2>3
    <3>2. PICK x \in 1 .. Got(r, r.queue[i]) : p = (s + n) + (Ahead(r, i - 1) + (x - 1))
      BY <3>1
    <3>3. k + i \in 1 .. Len(j.queue) /\ Got(r, r.queue[i]) = Got(j, j.queue[k + i])
      BY <1>2
    <3>4. Got(j, j.queue[k + i]) \in Nat
      BY <3>3, GotBound
    <3>5. x \in 1 .. Got(j, j.queue[k + i]) /\ x \in Int
      BY <3>3, <3>4
    <3>6. p = s + (Ahead(j, (k + i) - 1) + (x - 1))
      BY <1>4, <3>2, <3>5
    <3> QED
      BY <3>3, <3>5, <3>6, Zenon DEF Reached
  <2>4. (~ (p < s) /\ p < s + n) \/ p < s \/ ~ (p < s + n)
    OBVIOUS
  <2> QED
    BY <1>5, <2>1, <2>2, <2>3, <2>4, Zenon DEF Reached
<1>6. ASSUME Reached(j, s, p) PROVE Reached(r, s + n, p)
  <2>1. CASE p < s
    <3>1. p < s + n
      BY <1>1, <2>1
    <3> QED
      BY <3>1 DEF Reached
  <2>2. CASE \E i \in 1 .. Len(j.queue) : \E x \in 1 .. Got(j, j.queue[i]) :
                p = s + (Ahead(j, i - 1) + (x - 1))
    <3>1. PICK i \in 1 .. Len(j.queue) : \E x \in 1 .. Got(j, j.queue[i]) :
                p = s + (Ahead(j, i - 1) + (x - 1))
      BY <2>2
    <3>2. PICK x \in 1 .. Got(j, j.queue[i]) : p = s + (Ahead(j, i - 1) + (x - 1))
      BY <3>1
    <3> DEFINE a == Ahead(j, i - 1)
               b == Ahead(j, i)
               g == Got(j, j.queue[i])
               m == j.num[j.queue[i]]
    <3>3. /\ a \in Nat /\ b = a + m /\ m \in Nat /\ g \in Nat /\ g <= m
          /\ x \in 1 .. g /\ p = s + (a + (x - 1)) /\ b \in Nat
      BY <3>2, GotBound
    <3>4. CASE i <= k
      <4>1. i \in Nat /\ k \in Nat /\ i <= k /\ k <= Len(j.queue)
        BY <1>2, <1>3, <3>4
      <4>2. b <= n
        BY <1>1, <4>1, AheadMono
      <4> HIDE DEF a, b, g, m
      <4>3. p < s + n
        BY <1>1, <3>3, <4>2
      <4> QED
        BY <4>3 DEF Reached
    <3>5. CASE ~ (i <= k)
      <4> DEFINE c == i - k
      <4>1. c \in 1 .. Len(r.queue) /\ k + c = i
        BY <1>2, <3>5
      <4> HIDE DEF c
      <4>2. Got(r, r.queue[c]) = Got(j, j.queue[i])
        BY <1>2, <4>1
      <4>3. x \in Int
        BY <3>3
      <4>4. (s + n) + (Ahead(r, c - 1) + (x - 1)) = s + (Ahead(j, i - 1) + (x - 1))
        BY <1>4, <4>1, <4>3
      <4> QED
        BY <3>2, <4>1, <4>2, <4>4, Zenon DEF Reached
    <3> QED
      BY <3>4, <3>5
  <2> QED
    BY <1>6, <2>1, <2>2, Zenon DEF Reached
<1>7. Reached(r, s + n, p) <=> Reached(j, s, p)
  BY <1>5, <1>6
<1> QED
  BY <1>7 DEF r, n

(* The descriptors of the retired jobs come in order. *)
LEMMA RetiredBufOrder ==
    ASSUME NEW T, NEW j \in JobsType(T), NEW start \in Slots, NEW e \in DescEngines,
           JobsContiguous(j, start), TransfersAgree(j), Completing(j, e),
           \A i \in 1 .. RetiredJobs(j, e) : Len(j.buf[j.queue[i]]) = j.num[j.queue[i]],
           NEW s \in Nat, NEW W, BufsInOrder(j, s, W),
           NEW x \in 1 .. RetiredDescs(j, e)
    PROVE  RetiredBuf(j, e)[x] = W[s + (x - 1)]
<1> DEFINE k == RetiredJobs(j, e)
           i == CHOOSE y \in 1 .. k : Ahead(j, y - 1) < x /\ x <= Ahead(j, y)
<1>1. RetiredDescs(j, e) \in Nat /\ RetiredDescs(j, e) = Ahead(j, k)
  BY RetiredDescsBound DEF RetiredDescs
<1>2. k \in 0 .. Len(j.queue) /\ Len(j.queue) \in Nat
  <2>1. Len(j.queue) \in Nat
    BY DEF JobsType
  <2> QED
    BY <2>1, RetiredJobsFound
<1>3. x \in Nat \ {0} /\ x <= Ahead(j, k)
  BY <1>1
<1>4. \E y \in 1 .. k : Ahead(j, y - 1) < x /\ x <= Ahead(j, y)
  BY <1>2, <1>3, JobOfDesc
<1>5. i \in 1 .. k /\ Ahead(j, i - 1) < x /\ x <= Ahead(j, i)
  BY <1>4
<1>6. RetiredBuf(j, e)[x] = j.buf[j.queue[i]][x - Ahead(j, i - 1)]
  BY DEF RetiredBuf
<1> HIDE DEF i
<1>7. i \in 1 .. Len(j.queue) /\ Len(j.buf[j.queue[i]]) = j.num[j.queue[i]]
  BY <1>2, <1>5
<1> DEFINE a == Ahead(j, i - 1)
           b == Ahead(j, i)
           m == j.num[j.queue[i]]
           y == x - a
<1>8. a \in Nat /\ m \in Nat /\ b = a + m /\ a < x /\ x <= b
  BY <1>5, <1>7, GotBound
<1> HIDE DEF a, b, m
<1>9. y \in 1 .. m /\ a + (y - 1) = x - 1
  BY <1>3, <1>8
<1>10. j.buf[j.queue[i]][y] = W[s + (a + (y - 1))]
  <2>1. y \in 1 .. Len(j.buf[j.queue[i]])
    BY <1>7, <1>9 DEF m
  <2> HIDE DEF y
  <2> QED
    BY <1>7, <2>1, Zenon DEF BufsInOrder, a
<1> QED
  BY <1>6, <1>9, <1>10 DEF a

=============================================================================
