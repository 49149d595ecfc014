-------------------------- MODULE IGbETxRingProofs --------------------------
(***************************************************************************)
(* What the transmit path does with the contents of ring, caches and       *)
(* engines, for packets of one descriptor each: a status goes back to the  *)
(* slot it came from, the driver frees no buffer that is still to be read, *)
(* and every packet leaves at most once, intact, and overtaken by fewer    *)
(* packets than there are engines.  For every ring length, cache size, FIFO*)
(* size, number of packet engines and set of lengths.                      *)
(***************************************************************************)
EXTENDS IGbETxProofs

-----------------------------------------------------------------------------
(* The line of packets.  n packets have been taken from the ring; o are the*)
(* numbers of those that went to the FIFO, in the order they did, and w[e] *)
(* is the number of the one engine e reads or holds, or 0.                 *)

(* The packets of the FIFO are different, and one overtook another only if *)
(* the two were in the engines together. *)
OutOK(n, o) ==
    \A j \in 1 .. Len(o) :
        /\ o[j] \in 1 .. n
        /\ \A i \in 1 .. j - 1 : o[i] # o[j] /\ o[i] < o[j] + NumDMAEngines

(* An engine has a packet of its own, and fewer packets than there are     *)
(* engines were taken after it. *)
HeldOK(n, o, w) ==
    \A e \in PktEngines : w[e] # 0 =>
        /\ w[e] \in 1 .. n /\ n < w[e] + NumDMAEngines
        /\ \A f \in PktEngines : w[f] = w[e] => f = e
        /\ \A i \in 1 .. Len(o) : o[i] # w[e]

(* No packet is lost. *)
NoneLost(n, o, w) ==
    \A p \in 1 .. n : (\E i \in 1 .. Len(o) : o[i] = p) \/ (\E e \in PktEngines : w[e] = p)

LineOK(n, o, w) == OutOK(n, o) /\ HeldOK(n, o, w) /\ NoneLost(n, o, w)

(* Engine e's packet joins the FIFO. *)
LEMMA LinePush ==
    ASSUME NEW n \in Nat, NEW o \in Seq(Nat), NEW w \in [PktEngines -> Nat], LineOK(n, o, w),
           NEW e \in PktEngines, w[e] # 0,
           NEW p \in Seq(Nat), Len(p) = Len(o) + 1, p[Len(o) + 1] = w[e],
           \A i \in 1 .. Len(o) : p[i] = o[i],
           NEW v \in [PktEngines -> Nat], v[e] = 0, \A f \in PktEngines \ {e} : v[f] = w[f]
    PROVE  LineOK(n, p, v)
<1> DEFINE len == Len(o)
<1>1. /\ OutOK(n, o) /\ HeldOK(n, o, w) /\ NoneLost(n, o, w)
      /\ len \in Nat /\ NumDMAEngines \in Nat \ {0}
  BY NumDMAEnginesAssumption DEF LineOK
<1>2. /\ w[e] \in 1 .. n /\ n < w[e] + NumDMAEngines
      /\ \A f \in PktEngines : w[f] = w[e] => f = e
      /\ \A i \in 1 .. len : o[i] # w[e]
  BY <1>1 DEF HeldOK
<1>3. \A i \in 1 .. len : o[i] \in 1 .. n
  BY <1>1 DEF OutOK
<1> HIDE DEF len
<1>4. OutOK(n, p)
  <2> SUFFICES ASSUME NEW j \in 1 .. len + 1
               PROVE  /\ p[j] \in 1 .. n
                      /\ \A i \in 1 .. j - 1 : p[i] # p[j] /\ p[i] < p[j] + NumDMAEngines
    BY DEF OutOK, len
  <2>1. CASE j \in 1 .. len
    <3>1. p[j] = o[j] /\ \A i \in 1 .. j - 1 : p[i] = o[i]
      BY <1>1, <2>1 DEF len
    <3>2. /\ o[j] \in 1 .. n
          /\ \A i \in 1 .. j - 1 : o[i] # o[j] /\ o[i] < o[j] + NumDMAEngines
      BY <1>1, <2>1 DEF OutOK, len
    <3> QED
      BY <3>1, <3>2
  <2>2. CASE j = len + 1
    <3>1. p[j] = w[e] /\ \A i \in 1 .. j - 1 : i \in 1 .. len /\ p[i] = o[i]
      BY <1>1, <2>2 DEF len
    <3>2. \A i \in 1 .. len : o[i] # w[e] /\ o[i] < w[e] + NumDMAEngines
      BY <1>1, <1>2, <1>3
    <3> QED
      BY <1>2, <3>1, <3>2
  <2> QED
    BY <1>1, <2>1, <2>2
<1>5. HeldOK(n, p, v)
  <2> SUFFICES ASSUME NEW f \in PktEngines, v[f] # 0
               PROVE  /\ v[f] \in 1 .. n /\ n < v[f] + NumDMAEngines
                      /\ \A g \in PktEngines : v[g] = v[f] => g = f
                      /\ \A i \in 1 .. len + 1 : p[i] # v[f]
    BY DEF HeldOK, len
  <2>1. f # e /\ v[f] = w[f]
    OBVIOUS
  <2>2. /\ w[f] \in 1 .. n /\ n < w[f] + NumDMAEngines
        /\ \A g \in PktEngines : w[g] = w[f] => g = f
        /\ \A i \in 1 .. len : o[i] # w[f]
    BY <1>1, <2>1 DEF HeldOK, len
  <2>3. \A g \in PktEngines : v[g] = v[f] => g = f
    BY <2>1, <2>2
  <2>4. \A i \in 1 .. len + 1 : p[i] # v[f]
    <3>1. p[len + 1] # v[f]
      BY <1>2, <2>1 DEF len
    <3>2. \A i \in 1 .. len : p[i] # v[f]
      BY <2>1, <2>2 DEF len
    <3> QED
      BY <1>1, <3>1, <3>2
  <2> QED
    BY <2>1, <2>2, <2>3, <2>4
<1>6. NoneLost(n, p, v)
  <2> SUFFICES ASSUME NEW q \in 1 .. n
               PROVE  (\E i \in 1 .. len + 1 : p[i] = q) \/ (\E f \in PktEngines : v[f] = q)
    BY DEF NoneLost, len
  <2>1. CASE \E i \in 1 .. len : o[i] = q
    BY <1>1, <2>1 DEF len
  <2>2. CASE \E f \in PktEngines : w[f] = q
    <3>1. PICK f \in PktEngines : w[f] = q
      BY <2>2
    <3>2. CASE f = e
      <4>1. p[len + 1] = q /\ len + 1 \in 1 .. len + 1
        BY <1>1, <3>1, <3>2 DEF len
      <4> QED
        BY <4>1
    <3>3. CASE f # e
      BY <3>1, <3>3
    <3> QED
      BY <3>2, <3>3
  <2> QED
    BY <1>1, <2>1, <2>2 DEF NoneLost, len
<1> QED
  BY <1>4, <1>5, <1>6 DEF LineOK

(* Engine e takes the next packet.  No engine holds a packet that is ready,*)
(* so that those in the engines are still in process. *)
LEMMA LineTake ==
    ASSUME NEW n \in Nat, NEW o \in Seq(Nat), NEW w \in [PktEngines -> Nat], LineOK(n, o, w),
           NEW e \in PktEngines, w[e] = 0,
           \A f \in PktEngines : w[f] # 0 => n + 1 < w[f] + NumDMAEngines,
           NEW v \in [PktEngines -> Nat], v[e] = n + 1, \A f \in PktEngines \ {e} : v[f] = w[f]
    PROVE  LineOK(n + 1, o, v)
<1> DEFINE len == Len(o)
<1>1. /\ OutOK(n, o) /\ HeldOK(n, o, w) /\ NoneLost(n, o, w)
      /\ len \in Nat /\ NumDMAEngines \in Nat \ {0}
  BY NumDMAEnginesAssumption DEF LineOK
<1>2. \A i \in 1 .. len : o[i] \in 1 .. n
  BY <1>1 DEF OutOK
<1> HIDE DEF len
<1>3. OutOK(n + 1, o)
  <2>1. \A j \in 1 .. len : o[j] \in 1 .. n + 1
    BY <1>2
  <2> QED
    BY <1>1, <2>1 DEF OutOK, len
<1>4. HeldOK(n + 1, o, v)
  <2> SUFFICES ASSUME NEW f \in PktEngines, v[f] # 0
               PROVE  /\ v[f] \in 1 .. n + 1 /\ n + 1 < v[f] + NumDMAEngines
                      /\ \A g \in PktEngines : v[g] = v[f] => g = f
                      /\ \A i \in 1 .. len : o[i] # v[f]
    BY DEF HeldOK, len
  <2>1. \A g \in PktEngines : w[g] # 0 => w[g] \in 1 .. n
    BY <1>1 DEF HeldOK
  <2>2. CASE f = e
    <3>1. \A g \in PktEngines : v[g] = v[f] => g = f
      BY <2>1, <2>2
    <3>2. v[f] = n + 1 /\ n + 1 \in 1 .. n + 1 /\ n + 1 < (n + 1) + NumDMAEngines
      BY <1>1, <2>2
    <3>3. \A i \in 1 .. len : o[i] # n + 1
      BY <1>2
    <3> QED
      BY <3>1, <3>2, <3>3
  <2>3. CASE f # e
    <3>1. v[f] = w[f] /\ n + 1 < w[f] + NumDMAEngines
      BY <2>3
    <3>2. /\ w[f] \in 1 .. n
          /\ \A g \in PktEngines : w[g] = w[f] => g = f
          /\ \A i \in 1 .. len : o[i] # w[f]
      BY <1>1, <3>1 DEF HeldOK, len
    <3>3. \A g \in PktEngines : v[g] = v[f] => g = f
      BY <2>3, <3>1, <3>2
    <3>4. v[f] \in 1 .. n + 1
      BY <3>1, <3>2
    <3> QED
      BY <3>1, <3>2, <3>3, <3>4
  <2> QED
    BY <2>2, <2>3
<1>5. NoneLost(n + 1, o, v)
  <2> SUFFICES ASSUME NEW p \in 1 .. n + 1
               PROVE  (\E i \in 1 .. len : o[i] = p) \/ (\E f \in PktEngines : v[f] = p)
    BY DEF NoneLost, len
  <2>1. CASE p = n + 1
    BY <2>1
  <2>2. CASE p # n + 1
    <3>1. p \in 1 .. n
      BY <2>2
    <3>2. CASE \E f \in PktEngines : w[f] = p
      <4>1. PICK f \in PktEngines : w[f] = p
        BY <3>2
      <4>2. f # e /\ v[f] = p
        BY <3>1, <4>1
      <4> QED
        BY <4>2
    <3> QED
      BY <1>1, <3>1, <3>2 DEF NoneLost, len
  <2> QED
    BY <2>1, <2>2
<1> QED
  BY <1>3, <1>4, <1>5 DEF LineOK

(* The k-th packet of the FIFO leaves after those before it: a smaller one *)
(* that is still to come is overtaken by fewer packets than there are      *)
(* engines. *)
LEMMA LineSend ==
    ASSUME NEW n \in Nat, NEW o \in Seq(Nat), NEW w \in [PktEngines -> Nat], LineOK(n, o, w),
           NEW k \in 1 .. Len(o), NEW q \in 1 .. o[k] - 1, \A i \in 1 .. k - 1 : o[i] # q,
           NEW S, \A r \in S : \E i \in 1 .. k : o[i] = r
    PROVE  Cardinality({r \in S : r > q}) <= NumDMAEngines - 1
<1> DEFINE len == Len(o)
           above == {r \in S : r > q}
<1>1. /\ OutOK(n, o) /\ HeldOK(n, o, w) /\ NoneLost(n, o, w)
      /\ len \in Nat /\ NumDMAEngines \in Nat \ {0} /\ k \in 1 .. len
  BY NumDMAEnginesAssumption DEF LineOK
<1>2. \A i \in 1 .. len : o[i] \in 1 .. n
  BY <1>1 DEF OutOK
<1>3. q \in 1 .. n /\ q \in Nat /\ q < o[k]
  BY <1>1, <1>2
<1>4. \A i \in 1 .. k : i \in 1 .. len /\ o[i] < q + NumDMAEngines
  <2> SUFFICES ASSUME NEW i \in 1 .. k PROVE i \in 1 .. len /\ o[i] < q + NumDMAEngines
    OBVIOUS
  <2>1. i \in 1 .. len
    BY <1>1
  <2>2. CASE \E e \in PktEngines : w[e] = q
    <3>1. n < q + NumDMAEngines
      <4>1. PICK e \in PktEngines : w[e] = q
        BY <2>2
      <4>2. w[e] # 0
        BY <1>3, <4>1
      <4>3. n < w[e] + NumDMAEngines
        BY <1>1, <4>2 DEF HeldOK
      <4> QED
        BY <4>1, <4>3
    <3>2. o[i] \in 1 .. n
      BY <1>2, <2>1
    <3> QED
      BY <1>1, <1>3, <2>1, <3>1, <3>2
  <2>3. CASE \E m \in 1 .. len : o[m] = q
    <3>1. PICK m \in 1 .. len : o[m] = q
      BY <2>3
    <3>2. m # k /\ ~ (m \in 1 .. k - 1)
      BY <1>3, <3>1
    <3>3. i \in 1 .. m - 1
      <4> HIDE DEF len
      <4> QED
        BY <1>1, <3>2
    <3> QED
      BY <1>1, <2>1, <3>1, <3>3 DEF OutOK
  <2> QED
    BY <1>1, <1>3, <2>2, <2>3 DEF NoneLost
<1>5. above \subseteq (q + 1) .. (q + (NumDMAEngines - 1))
  <2> SUFFICES ASSUME NEW r \in S, r > q
               PROVE  r \in (q + 1) .. (q + (NumDMAEngines - 1))
    OBVIOUS
  <2>1. PICK i \in 1 .. k : o[i] = r
    OBVIOUS
  <2>2. r \in Nat /\ r < q + NumDMAEngines
    BY <1>2, <1>4, <2>1
  <2> QED
    BY <1>1, <1>3, <2>2
<1> DEFINE N == NumDMAEngines - 1
           T == (q + 1) .. (q + N)
<1>6. N \in Nat
  BY <1>1
<1> HIDE DEF above, N
<1>7. IsFiniteSet(T) /\ Cardinality(T) = N
  <2>1. q + 1 \in Int /\ q + N \in Int
    BY <1>3, <1>6
  <2>2. /\ IsFiniteSet(T)
        /\ Cardinality(T) = IF q + 1 > q + N THEN 0 ELSE (q + N) - (q + 1) + 1
    BY <2>1, FS_Interval
  <2> HIDE DEF T
  <2> QED
    BY <1>3, <1>6, <2>2
<1>8. Cardinality(above) <= N
  <2>1. above \in SUBSET T
    BY <1>5 DEF N
  <2> HIDE DEF T
  <2> QED
    BY <1>7, <2>1, FS_Subset
<1> QED
  BY <1>8 DEF above, N

-----------------------------------------------------------------------------
(* What left, what the link has and what the FIFO holds, in one line. *)
Wire(s, l, f) == (s \o (IF l = NULL THEN <<>> ELSE <<l>>)) \o f

LEMMA WireType ==
    ASSUME NEW s \in Seq(Frame), NEW l \in Frame \cup {NULL}, NEW f \in Seq(Frame)
    PROVE  /\ Wire(s, l, f) \in Seq(Frame)
           /\ Len(s) \in Nat /\ Len(s) <= Len(Wire(s, l, f))
           /\ \A i \in 1 .. Len(s) : Wire(s, l, f)[i] = s[i]
           /\ l # NULL => /\ Len(s) + 1 \in 1 .. Len(Wire(s, l, f))
                          /\ Wire(s, l, f)[Len(s) + 1] = l
<1> DEFINE m == IF l = NULL THEN <<>> ELSE <<l>>
           a == s \o m
           w == a \o f
<1>1. /\ m \in Seq(Frame) /\ Len(m) \in Nat /\ (l # NULL => Len(m) = 1 /\ m[1] = l)
      /\ Len(s) \in Nat /\ Len(f) \in Nat
  OBVIOUS
<1> HIDE DEF m
<1>2. /\ a \in Seq(Frame) /\ Len(a) = Len(s) + Len(m)
      /\ \A i \in 1 .. Len(s) + Len(m) : a[i] = IF i <= Len(s) THEN s[i] ELSE m[i - Len(s)]
  BY <1>1, ConcatProperties
<1> HIDE DEF a
<1>3. /\ w \in Seq(Frame) /\ Len(w) = Len(a) + Len(f)
      /\ \A i \in 1 .. Len(a) + Len(f) : w[i] = IF i <= Len(a) THEN a[i] ELSE f[i - Len(a)]
  <2>1. a \in Seq(Frame) /\ f \in Seq(Frame)
    BY <1>2
  <2> QED
    BY <2>1, ConcatProperties, Zenon
<1>4. Wire(s, l, f) = w
  BY DEF Wire, a, m
<1> HIDE DEF w
<1>5. \A i \in 1 .. Len(a) : w[i] = a[i]
  BY <1>1, <1>2, <1>3
<1>6. \A i \in 1 .. Len(s) : w[i] = s[i]
  BY <1>1, <1>2, <1>5
<1>7. ASSUME l # NULL
      PROVE  Len(s) + 1 \in 1 .. Len(w) /\ w[Len(s) + 1] = l
  <2>1. Len(s) + 1 \in 1 .. Len(a) /\ a[Len(s) + 1] = m[1]
    <3> DEFINE x == Len(s)
    <3>1. /\ x \in Nat /\ Len(m) = 1 /\ Len(a) = x + 1
          /\ \A i \in 1 .. x + 1 : a[i] = IF i <= x THEN s[i] ELSE m[i - x]
      BY <1>1, <1>2, <1>7
    <3> HIDE DEF x
    <3>2. x + 1 \in 1 .. x + 1 /\ ~ (x + 1 <= x) /\ (x + 1) - x = 1
      BY <3>1
    <3>3. a[x + 1] = m[1]
      BY <3>1, <3>2
    <3> QED
      BY <3>1, <3>2, <3>3 DEF x
  <2> QED
    BY <1>1, <1>2, <1>3, <1>5, <1>7, <2>1
<1>8. Len(s) <= Len(w)
  BY <1>1, <1>2, <1>3
<1> QED
  BY <1>1, <1>3, <1>4, <1>6, <1>7, <1>8

LEMMA WireFront ==
    \A s \in Seq(Frame) : \A l \in Frame \cup {NULL} : \A f \in Seq(Frame) :
        /\ Len(s) \in Nat /\ Len(s) <= Len(Wire(s, l, f))
        /\ \A i \in 1 .. Len(s) : Wire(s, l, f)[i] = s[i]
<1> SUFFICES ASSUME NEW s \in Seq(Frame), NEW l \in Frame \cup {NULL}, NEW f \in Seq(Frame)
             PROVE  /\ Len(s) \in Nat /\ Len(s) <= Len(Wire(s, l, f))
                    /\ \A i \in 1 .. Len(s) : Wire(s, l, f)[i] = s[i]
  OBVIOUS
<1>1. /\ Wire(s, l, f) \in Seq(Frame)
      /\ Len(s) \in Nat /\ Len(s) <= Len(Wire(s, l, f))
      /\ \A i \in 1 .. Len(s) : Wire(s, l, f)[i] = s[i]
      /\ l # NULL => /\ Len(s) + 1 \in 1 .. Len(Wire(s, l, f))
                     /\ Wire(s, l, f)[Len(s) + 1] = l
  BY WireType, Zenon
<1> QED
  BY <1>1

(* The link takes the oldest packet of the FIFO. *)
LEMMA WireTakes ==
    ASSUME NEW s \in Seq(Frame), NEW f \in Seq(Frame), f # <<>>
    PROVE  Wire(s, Head(f), Tail(f)) = Wire(s, NULL, f)
<1>1. Head(f) \in Frame /\ Tail(f) \in Seq(Frame) /\ Head(f) # NULL
  <2>1. Head(f) \in Frame /\ Tail(f) \in Seq(Frame)
    BY HeadTailProperties
  <2> QED
    BY <2>1, TxNullAssumption
<1>2. Wire(s, Head(f), Tail(f)) = (s \o <<Head(f)>>) \o Tail(f)
  BY <1>1 DEF Wire
<1>3. Wire(s, NULL, f) = s \o f
  <2>1. s \o <<>> = s
    BY ConcatEmptySeq
  <2> QED
    BY <2>1 DEF Wire
<1>4. (s \o <<Head(f)>>) \o Tail(f) = s \o (<<Head(f)>> \o Tail(f))
  <2>1. <<Head(f)>> \in Seq(Frame)
    BY <1>1
  <2> QED
    BY <1>1, <2>1, ConcatAssociative
<1>5. <<Head(f)>> \o Tail(f) = f
  OBVIOUS
<1> QED
  BY <1>2, <1>3, <1>4, <1>5

(* The link's packet has left. *)
LEMMA WireDone ==
    ASSUME NEW s \in Seq(Frame), NEW l \in Frame, NEW f \in Seq(Frame)
    PROVE  Wire(Append(s, l), NULL, f) = Wire(s, l, f)
<1>1. l # NULL
  BY TxNullAssumption
<1>2. Append(s, l) \o <<>> = Append(s, l) /\ Append(s, l) = s \o <<l>>
  <2>1. Append(s, l) \in Seq(Frame)
    OBVIOUS
  <2>2. Append(s, l) = s \o <<l>>
    BY AppendIsConcat
  <2> QED
    BY <2>1, <2>2, ConcatEmptySeq
<1>3. Wire(Append(s, l), NULL, f) = (Append(s, l) \o <<>>) \o f
  BY DEF Wire
<1>4. Wire(s, l, f) = (s \o <<l>>) \o f
  BY <1>1 DEF Wire
<1> QED
  BY <1>2, <1>3, <1>4

(* A packet joins the FIFO. *)
LEMMA WirePush ==
    ASSUME NEW s \in Seq(Frame), NEW l \in Frame \cup {NULL}, NEW f \in Seq(Frame),
           NEW p \in Frame
    PROVE  Wire(s, l, Append(f, p)) = Append(Wire(s, l, f), p)
<1> DEFINE m == IF l = NULL THEN <<>> ELSE <<l>>
           a == s \o m
<1>1. m \in Seq(Frame) /\ <<p>> \in Seq(Frame)
  OBVIOUS
<1> HIDE DEF m
<1>2. a \in Seq(Frame)
  BY <1>1, ConcatProperties
<1> HIDE DEF a
<1>3. Append(f, p) = f \o <<p>>
  BY AppendIsConcat
<1>4. a \o (f \o <<p>>) = (a \o f) \o <<p>>
  BY <1>1, <1>2, ConcatAssociative
<1>5. a \o f \in Seq(Frame)
  BY <1>2, ConcatProperties
<1>6. Append(a \o f, p) = (a \o f) \o <<p>>
  BY <1>5, AppendIsConcat
<1> QED
  BY <1>3, <1>4, <1>6 DEF Wire, a, m

-----------------------------------------------------------------------------
(* The ring.  Its descriptors are numbered through all its rounds, and with*)
(* one descriptor for a packet, descriptor b is that of packet b + 1.      *)

(* Packets of one segment and without checksum offload, which is what the  *)
(* repository's applications send. *)
OnePerPacket == MaxSegs = 1 /\ Offload \subseteq {FALSE}

(* A status that the driver finds means that the descriptors before it have*)
(* been written back too: the driver asks for every one, or there is only  *)
(* one engine to write back. *)
StatusInOrder == TxRsThresh = 1 \/ NumDescEngines = 1

(* Descriptor b as the driver fills it in. *)
ArmedDesc(b) ==
    [ctx : {FALSE}, buf : {<<b + 1, 1>>}, len : Nat, eop : {TRUE}, rs : BOOLEAN, dd : {FALSE}]

AllArmed(A) == \A b \in Nat : A[b] \in ArmedDesc(b)

(* The same descriptors when the card has sent their packets. *)
SentOf(A) == [b \in Nat |-> SetStatus(A[b])]

(* How many descriptors the driver has cleaned. *)
Cleaned == submitted - InUse(txq)

(* The driver's indices are those of the descriptors it has cleaned and    *)
(* filled. *)
SlotsNumbered ==
    /\ InUse(txq) <= submitted
    /\ txq.tx_id = submitted % DescLen
    /\ (txq.last_desc_cleaned + 1) % DescLen = Cleaned % DescLen
    /\ \A s \in Slots : txq.last_id[s] = s

(* The driver holds the buffers of all packets it has not cleaned, and any *)
(* other buffer of its array is that of an earlier packet of the same slot.*)
BuffersHeld ==
    /\ \A b \in Cleaned .. submitted - 1 : txq.sw_ring[b % DescLen] = <<b + 1, 1>>
    /\ \A s \in Slots : txq.sw_ring[s] # NULL =>
          \E b \in 0 .. submitted - 1 : b % DescLen = s /\ txq.sw_ring[s] = <<b + 1, 1>>

DriverInRing == SlotsNumbered /\ BuffersHeld

(* The card holds the descriptors A in order, and none from g on, which the*)
(* driver has not told it of. *)
CardInRing(A, g) == g <= submitted /\ Ordered(cache, A, SentOf(A), g)

(* The ring holds those that the driver has not cleaned, as it filled them *)
(* in or as the card wrote them back, and the card has written back all it *)
(* has cleaned. *)
RingHolds(A) ==
    /\ \A b \in Cleaned .. submitted - 1 :
          ring[b % DescLen] = IF Written(cache, b) THEN SentOf(A)[b] ELSE A[b]
    /\ \A b \in 0 .. Cleaned - 1 : Written(cache, b)

RingInv(A, g) == AllArmed(A) /\ CardInRing(A, g) /\ RingHolds(A)

(* The numbers, in their order around the ring. *)
LEMMA TxNumbers ==
    ASSUME TxInv, DriverInRing, NEW A, NEW g \in Nat, RingInv(A, g)
    PROVE  /\ CacheInv(TxDescs, cache) /\ CacheInOrder(cache, A, SentOf(A))
           /\ Ordered(cache, A, SentOf(A), g)
           /\ submitted \in Nat /\ InUse(txq) \in 0 .. DescLen - 1 /\ Cleaned \in Nat
           /\ cache.nextSeqToWriteback \in Nat /\ cache.nextSeqToProcess \in Nat
           /\ CacheSeq(cache) \in Nat /\ FetchSeq(cache) \in Nat
           /\ Cleaned <= cache.nextSeqToWriteback
           /\ cache.nextSeqToWriteback <= cache.nextSeqToProcess
           /\ cache.nextSeqToProcess <= CacheSeq(cache)
           /\ CacheSeq(cache) <= FetchSeq(cache)
           /\ FetchSeq(cache) <= g /\ g <= submitted
           /\ submitted <= Cleaned + (DescLen - 1)
<1> DEFINE w == cache.nextSeqToWriteback
           k == InUse(txq)
           C == Cleaned
<1>1. CacheInv(TxDescs, cache) /\ submitted \in Nat
  BY TxAssumption DEF TxInv, CountersOK
<1>2. /\ g <= submitted /\ Ordered(cache, A, SentOf(A), g)
      /\ CacheInOrder(cache, A, SentOf(A)) /\ FetchSeq(cache) <= g
  BY DEF RingInv, CardInRing, Ordered, WithinGiven
<1>3. /\ CacheSeq(cache) \in Nat /\ FetchSeq(cache) \in Nat
      /\ w <= cache.nextSeqToProcess
      /\ cache.nextSeqToProcess <= CacheSeq(cache) /\ CacheSeq(cache) <= FetchSeq(cache)
  BY <1>1, <1>2, OrderFacts
<1>4. w \in Nat /\ cache.nextSeqToProcess \in Nat
  BY <1>1, ProcessingFacts
<1>5. k \in 0 .. DescLen - 1
  BY TxqFacts DEF TxInv, DriverOK
<1>6. k <= submitted /\ C = submitted - k
  BY DEF DriverInRing, SlotsNumbered, Cleaned
<1>7. \A b \in 0 .. C - 1 : Written(cache, b)
  BY DEF RingInv, RingHolds
<1> HIDE DEF w, k, C
<1>8. C \in Nat /\ submitted <= C + (DescLen - 1)
  BY <1>1, <1>5, <1>6, DescLenAssumption
<1>9. C <= w
  <2>1. CASE C = 0
    BY <1>4, <2>1
  <2>2. CASE C # 0
    <3>1. C - 1 \in 0 .. C - 1 /\ C - 1 \in Nat
      BY <1>8, <2>2
    <3>2. C - 1 < w
      BY <1>1, <1>2, <1>7, <3>1, WrittenBound DEF w
    <3> QED
      BY <1>4, <1>8, <3>1, <3>2
  <2> QED
    BY <2>1, <2>2
<1> QED
  BY <1>1, <1>2, <1>3, <1>4, <1>5, <1>8, <1>9 DEF w, k, C

LEMMA DriverSame ==
    ASSUME DriverInRing, UNCHANGED <<txq, submitted>>
    PROVE  DriverInRing' /\ Cleaned' = Cleaned
BY DEF DriverInRing, SlotsNumbered, BuffersHeld, Cleaned

LEMMA WrittenBool ==
    ASSUME NEW q, NEW b
    PROVE  Written(q, b) \in BOOLEAN
BY DEF Written, Reached

(* A step of the card that writes nothing back. *)
LEMMA QuietRing ==
    ASSUME TxInv, DriverInRing, NEW A, NEW g \in Nat, RingInv(A, g),
           Ordered(cache', A, SentOf(A), g),
           \A b \in Nat : Written(cache', b) <=> Written(cache, b),
           UNCHANGED <<ring, txq, submitted>>
    PROVE  DriverInRing' /\ RingInv(A, g)'
<1> DEFINE R == Cleaned .. submitted - 1
           P == 0 .. Cleaned - 1
<1>1. DriverInRing' /\ Cleaned' = Cleaned /\ submitted' = submitted /\ ring' = ring
  BY DriverSame
<1>2. R \in SUBSET Nat /\ P \in SUBSET Nat
  BY TxNumbers
<1>3. CardInRing(A, g)'
  BY <1>1 DEF RingInv, CardInRing
<1>4. /\ \A b \in R : ring[b % DescLen] = IF Written(cache, b) THEN SentOf(A)[b] ELSE A[b]
      /\ \A b \in P : Written(cache, b)
  BY DEF RingInv, RingHolds
<1>5. R' = R /\ P' = P
  BY <1>1
<1> HIDE DEF R, P
<1>6. \A b \in P : Written(cache', b)
  BY <1>2, <1>4
<1>7. \A b \in R : ring'[b % DescLen] = IF Written(cache', b) THEN SentOf(A)[b] ELSE A[b]
  <2> SUFFICES ASSUME NEW b \in R
               PROVE  ring'[b % DescLen] = IF Written(cache', b) THEN SentOf(A)[b] ELSE A[b]
    OBVIOUS
  <2>1. Written(cache', b) = Written(cache, b)
    BY <1>2, WrittenBool
  <2> QED
    BY <1>1, <1>4, <2>1, Zenon
<1>8. RingHolds(A)'
  BY <1>1, <1>5, <1>6, <1>7 DEF RingHolds, R, P
<1> QED
  BY <1>1, <1>3, <1>8 DEF RingInv

-----------------------------------------------------------------------------
(* Descriptor DMA. *)

(* What a step of the card has to keep besides the ring. *)
StoryKept ==
    /\ cache'.processing = cache.processing
    /\ cache'.nextSeqToProcess = cache.nextSeqToProcess

LEMMA QuietCard ==
    ASSUME TxInv, DriverInRing, NEW A, NEW g \in Nat, RingInv(A, g),
           Ordered(cache', A, SentOf(A), g), SameStory(cache, cache'),
           UNCHANGED <<ring, txq, submitted>>
    PROVE  DriverInRing' /\ RingInv(A, g)' /\ StoryKept
<1>1. /\ StoryKept
      /\ \A b \in Nat : Written(cache', b) <=> Written(cache, b)
  BY Zenon DEF SameStory, StoryKept
<1> QED
  BY <1>1, QuietRing

LEMMA RegisterRing ==
    ASSUME TxInv, DriverInRing, NEW A, NEW g \in Nat, RingInv(A, g),
           NEW e \in DescEngines, fetchRegister1(e) \/ writebackRegister1(e)
    PROVE  DriverInRing' /\ RingInv(A, g)' /\ StoryKept
<1>1. /\ \/ cache' = [cache EXCEPT !.fetch = Issue(@, e)]
         \/ cache' = [cache EXCEPT !.wb = Issue(@, e)]
      /\ UNCHANGED <<ring, txq, submitted>>
  BY DEF fetchRegister1, writebackRegister1
<1>2. Ordered(cache', A, SentOf(A), g) /\ SameStory(cache, cache')
  BY <1>1, TxNumbers, IssueWbOrder, IssueFetchOrder
<1> QED
  BY <1>1, <1>2, QuietCard

LEMMA FetchCompleteRing ==
    ASSUME TxInv, DriverInRing, NEW A, NEW g \in Nat, RingInv(A, g),
           NEW e \in DescEngines, fetchComplete(e)
    PROVE  DriverInRing' /\ RingInv(A, g)' /\ StoryKept
<1>1. /\ Completing(cache.fetch, e) /\ cache' = fetchCompleteGlobal(cache, e)
      /\ UNCHANGED <<ring, txq, submitted>>
  BY DEF fetchComplete, Completing
<1>2. Ordered(cache', A, SentOf(A), g) /\ SameStory(cache, cache')
  BY <1>1, TxNumbers, FetchCompleteOrder
<1> QED
  BY <1>1, <1>2, QuietCard

LEMMA WritebackCompleteRing ==
    ASSUME TxInv, DriverInRing, NEW A, NEW g \in Nat, RingInv(A, g),
           NEW e \in DescEngines, writebackComplete(e)
    PROVE  DriverInRing' /\ RingInv(A, g)' /\ StoryKept
<1> DEFINE q == wbCompleteGlobal(cache, e)
           c == ~ txTick /\ drainState = "Running"
<1>1. /\ Completing(cache.wb, e) /\ cache' = FetchIf(c, q)
      /\ UNCHANGED <<ring, txq, submitted>>
  BY Zenon DEF writebackComplete, Completing
<1> HIDE DEF c
<1>2. CacheInv(TxDescs, q)
  BY <1>1, TxNumbers, WbCompleteKeeps
<1>3. Ordered(q, A, SentOf(A), g) /\ SameStory(cache, q)
  BY <1>1, TxNumbers, WbCompleteOrder
<1> HIDE DEF q
<1>4. Ordered(cache', A, SentOf(A), g) /\ SameStory(q, cache')
  BY <1>1, <1>2, <1>3, FetchIfOrder
<1>5. SameStory(cache, cache')
  BY <1>3, <1>4, SameStoryTrans
<1> QED
  BY <1>1, <1>4, <1>5, QuietCard

(* A fetch reads a descriptor that the driver has filled in and the card   *)
(* has not used yet. *)
LEMMA FetchDmaRing ==
    ASSUME TxInv, DriverInRing, NEW A, NEW g \in Nat, RingInv(A, g),
           NEW e \in DescEngines, FetchDma(e)
    PROVE  DriverInRing' /\ RingInv(A, g)' /\ StoryKept
<1> DEFINE slot == cache.fetch.base[e] + cache.fetch.moved[e]
<1>1. /\ cache.fetch.ev[e] = "dma"
      /\ cache' = [cache EXCEPT !.fetch = FetchBeat(@, e, ring[slot])]
      /\ UNCHANGED <<ring, txq, submitted>>
  BY DEF FetchDma
<1>2. PICK p \in Nat :
          /\ CacheSeq(cache) <= p /\ p < FetchSeq(cache) /\ slot = p % DescLen
          /\ \A d \in TxDescs : d = A[p] =>
                LET r == [cache EXCEPT !.fetch = FetchBeat(@, e, d)] IN
                Ordered(r, A, SentOf(A), g) /\ SameStory(cache, r)
  BY <1>1, TxNumbers, BeatFetchOrder
<1>3. p \in Cleaned .. submitted - 1 /\ ~ (p < cache.nextSeqToWriteback)
  <2> DEFINE w == cache.nextSeqToWriteback
             n == cache.nextSeqToProcess
             c == CacheSeq(cache)
             f == FetchSeq(cache)
             C == Cleaned
             N == submitted
  <2>1. /\ C \in Nat /\ N \in Nat /\ w \in Nat /\ n \in Nat /\ c \in Nat /\ f \in Nat
        /\ C <= w /\ w <= n /\ n <= c /\ f <= g /\ g <= N
    BY TxNumbers
  <2>2. c <= p /\ p < f
    BY <1>2
  <2> HIDE DEF w, n, c, f, C, N
  <2>3. p \in C .. N - 1 /\ ~ (p < w)
    BY <2>1, <2>2
  <2> QED
    BY <2>3 DEF w, C, N
<1>4. ~ Written(cache, p)
  BY <1>3, TxNumbers, WrittenBound
<1>5. ring[slot] = A[p]
  <2>1. ring[p % DescLen] = IF Written(cache, p) THEN SentOf(A)[p] ELSE A[p]
    BY <1>3 DEF RingInv, RingHolds
  <2> QED
    BY <1>2, <1>4, <2>1
<1>6. ring[slot] \in TxDescs
  <2>1. slot \in Slots
    BY <1>2, ModInSlots
  <2> QED
    BY <2>1 DEF TxInv
<1>7. Ordered(cache', A, SentOf(A), g) /\ SameStory(cache, cache')
  BY <1>1, <1>2, <1>5, <1>6
<1> QED
  BY <1>1, <1>7, QuietCard

(* A write-back reaches a slot that still holds its descriptor. *)
LEMMA WritebackDmaRing ==
    ASSUME TxInv, DriverInRing, NEW A, NEW g \in Nat, RingInv(A, g),
           NEW e \in DescEngines, WritebackDma(e)
    PROVE  DriverInRing' /\ RingInv(A, g)' /\ StoryKept
<1> DEFINE m == cache.wb.moved[e]
           slot == cache.wb.base[e] + m
           x == cache.wb.buf[e][m + 1]
           C == Cleaned
           N == submitted
<1>1. /\ cache.wb.ev[e] = "dma"
      /\ ring' = [ring EXCEPT ![slot] = x]
      /\ cache' = [cache EXCEPT !.wb = Beat(@, e)]
      /\ UNCHANGED <<txq, submitted>>
  BY DEF WritebackDma
<1>2. /\ Ordered(cache', A, SentOf(A), g)
      /\ cache'.nextSeqToProcess = cache.nextSeqToProcess
      /\ cache'.processing = cache.processing
      /\ \E p \in Nat :
            /\ ~ Written(cache, p) /\ p < cache.nextSeqToWriteback
            /\ slot = p % DescLen /\ x = SentOf(A)[p]
            /\ \A b \in Nat : Written(cache', b) <=> (Written(cache, b) \/ b = p)
  BY <1>1, TxNumbers, BeatWbOrder
<1>3. PICK p \in Nat :
            /\ ~ Written(cache, p) /\ p < cache.nextSeqToWriteback
            /\ slot = p % DescLen /\ x = SentOf(A)[p]
            /\ \A b \in Nat : Written(cache', b) <=> (Written(cache, b) \/ b = p)
  BY <1>2
<1>4. ring \in [Slots -> TxDescs]
  BY DEF TxInv
<1>5. /\ \A b \in C .. N - 1 :
            ring[b % DescLen] = IF Written(cache, b) THEN SentOf(A)[b] ELSE A[b]
      /\ \A b \in 0 .. C - 1 : Written(cache, b)
  BY DEF RingInv, RingHolds
<1>6. /\ p \in C .. N - 1 /\ C \in Nat /\ N \in Nat /\ N <= C + (DescLen - 1)
  <2> DEFINE w == cache.nextSeqToWriteback
             n == cache.nextSeqToProcess
             c == CacheSeq(cache)
             f == FetchSeq(cache)
  <2>1. /\ C \in Nat /\ N \in Nat /\ w \in Nat /\ n \in Nat /\ c \in Nat /\ f \in Nat
        /\ w <= n /\ n <= c /\ c <= f /\ f <= g /\ g <= N /\ N <= C + (DescLen - 1)
    BY TxNumbers
  <2>2. p < w /\ ~ (p \in 0 .. C - 1)
    BY <1>3, <1>5
  <2> HIDE DEF w, n, c, f, C, N
  <2>3. p \in C .. N - 1
    BY <2>1, <2>2
  <2> QED
    BY <2>1, <2>3
<1>7. DriverInRing' /\ C' = C /\ N' = N
  BY <1>1, DriverSame
<1> HIDE DEF slot, x, m, C, N
<1>8. \A b \in C .. N - 1 : b \in Nat /\ (b # p => b % DescLen # p % DescLen)
  <2> SUFFICES ASSUME NEW b \in C .. N - 1 PROVE b \in Nat /\ (b # p => b % DescLen # p % DescLen)
    OBVIOUS
  <2>1. b \in C .. C + DescLen - 1 /\ p \in C .. C + DescLen - 1 /\ b \in Nat
    BY <1>6, DescLenAssumption
  <2> QED
    BY <1>6, <2>1, ModWindow, DescLenAssumption
<1>9. \A b \in Nat : (b % DescLen) \in Slots
  BY ModInSlots
<1>10. ring'[p % DescLen] = SentOf(A)[p]
  <2>1. p % DescLen \in Slots
    BY <1>9
  <2> QED
    BY <1>1, <1>3, <1>4, <2>1, Zenon
<1>11. \A b \in Nat : b % DescLen # p % DescLen => ring'[b % DescLen] = ring[b % DescLen]
  BY <1>1, <1>3, <1>4, <1>9
<1>12. ASSUME NEW b \in C .. N - 1
       PROVE  ring'[b % DescLen] = IF Written(cache', b) THEN SentOf(A)[b] ELSE A[b]
  <2>1. CASE b = p
    BY <1>3, <1>10, <2>1
  <2>2. CASE b # p
    <3>1. ring'[b % DescLen] = ring[b % DescLen]
      BY <1>8, <1>11, <2>2
    <3>2. Written(cache', b) = Written(cache, b)
      <4>1. Written(cache', b) <=> Written(cache, b)
        BY <1>3, <1>8, <2>2
      <4> QED
        BY <4>1, WrittenBool
    <3> QED
      BY <1>5, <3>1, <3>2, Zenon
  <2> QED
    BY <2>1, <2>2
<1>13. \A b \in 0 .. C - 1 : Written(cache', b)
  BY <1>3, <1>5, <1>6
<1>14. RingHolds(A)'
  <2>1. /\ \A b \in Cleaned' .. submitted' - 1 :
              ring'[b % DescLen] = IF Written(cache', b) THEN SentOf(A)[b] ELSE A[b]
        /\ \A b \in 0 .. Cleaned' - 1 : Written(cache', b)
    BY <1>7, <1>12, <1>13, Zenon DEF C, N
  <2> QED
    BY <2>1 DEF RingHolds
<1>15. CardInRing(A, g)'
  BY <1>1, <1>2 DEF RingInv, CardInRing
<1> QED
  BY <1>2, <1>7, <1>14, <1>15 DEF RingInv, StoryKept

(* The driver tells the card of all it has filled in. *)
LEMMA WriteTDTRing ==
    ASSUME TxInv, DriverInRing, NEW A, NEW g \in Nat, RingInv(A, g), WriteTDT
    PROVE  DriverInRing' /\ RingInv(A, submitted)' /\ StoryKept
<1> DEFINE t == txq.tx_id
           q == [cache EXCEPT !.tail = t]
           c == drainState = "Running"
           N == submitted
<1>1. /\ txq' = [txq EXCEPT !.tx_tail = txq.tx_id]
      /\ cache' = FetchIf(c, q) /\ UNCHANGED <<ring, submitted>>
  BY Zenon DEF WriteTDT
<1>2. t \in Slots /\ t = N % DescLen
  BY TxqFacts DEF TxInv, DriverOK, DriverInRing, SlotsNumbered
<1>3. /\ N \in Nat /\ FetchSeq(cache) <= N /\ N < cache.nextSeqToWriteback + DescLen
  <2> DEFINE w == cache.nextSeqToWriteback
             f == FetchSeq(cache)
             C == Cleaned
  <2>1. /\ C \in Nat /\ N \in Nat /\ w \in Nat /\ f \in Nat
        /\ C <= w /\ f <= g /\ g <= N /\ N <= C + (DescLen - 1)
    BY TxNumbers
  <2> HIDE DEF w, f, C, N
  <2>2. f <= N /\ N < w + DescLen
    BY <2>1, DescLenAssumption
  <2> QED
    BY <2>1, <2>2 DEF w, f
<1> HIDE DEF t, c, N
<1>4. CacheInv(TxDescs, q)
  BY <1>2, TxNumbers, TailKeeps
<1>5. Ordered(q, A, SentOf(A), N) /\ SameStory(cache, q)
  BY <1>2, <1>3, TxNumbers, TailOrder
<1> HIDE DEF q
<1>6. Ordered(cache', A, SentOf(A), N) /\ SameStory(q, cache')
  BY <1>1, <1>3, <1>4, <1>5, FetchIfOrder
<1>7. SameStory(cache, cache')
  BY <1>5, <1>6, SameStoryTrans
<1>8. txq \in TxqType
  BY DEF TxInv, DriverOK
<1>9. /\ txq'.nb_tx_free = txq.nb_tx_free /\ txq'.tx_id = txq.tx_id
      /\ txq'.last_desc_cleaned = txq.last_desc_cleaned
      /\ txq'.last_id = txq.last_id /\ txq'.sw_ring = txq.sw_ring
  BY <1>1, <1>8 DEF TxqType
<1>10. DriverInRing' /\ Cleaned' = Cleaned
  BY <1>1, <1>9 DEF DriverInRing, SlotsNumbered, BuffersHeld, Cleaned, InUse
<1>11. StoryKept /\ \A b \in Nat : Written(cache', b) <=> Written(cache, b)
  BY <1>7, Zenon DEF SameStory, StoryKept
<1>12. CardInRing(A, submitted)'
  BY <1>1, <1>3, <1>6 DEF CardInRing, N
<1>13. RingHolds(A)'
  <2> DEFINE C == Cleaned
  <2>1. /\ \A b \in C .. N - 1 :
              ring[b % DescLen] = IF Written(cache, b) THEN SentOf(A)[b] ELSE A[b]
        /\ \A b \in 0 .. C - 1 : Written(cache, b)
    BY DEF RingInv, RingHolds, N
  <2>2. C' = C /\ N' = N /\ ring' = ring /\ C \in Nat
    BY <1>1, <1>10, TxNumbers DEF N
  <2> HIDE DEF C, N
  <2>3. \A b \in 0 .. C - 1 : Written(cache', b)
    BY <1>11, <2>1
  <2>4. \A b \in C .. N - 1 :
           ring[b % DescLen] = IF Written(cache', b) THEN SentOf(A)[b] ELSE A[b]
    <3> SUFFICES ASSUME NEW b \in C .. N - 1
                 PROVE  ring[b % DescLen] = IF Written(cache', b) THEN SentOf(A)[b] ELSE A[b]
      OBVIOUS
    <3>1. b \in Nat
      BY <2>2, <1>3
    <3>2. Written(cache', b) = Written(cache, b)
      BY <1>11, <3>1, WrittenBool
    <3> QED
      BY <2>1, <3>2, Zenon
  <2>5. /\ \A b \in Cleaned' .. submitted' - 1 :
              ring'[b % DescLen] = IF Written(cache', b) THEN SentOf(A)[b] ELSE A[b]
        /\ \A b \in 0 .. Cleaned' - 1 : Written(cache', b)
    BY <2>2, <2>3, <2>4, Zenon DEF C, N
  <2> QED
    BY <2>5 DEF RingHolds
<1> QED
  BY <1>10, <1>11, <1>12, <1>13 DEF RingInv

-----------------------------------------------------------------------------
(* The driver. *)

(* With one engine the descriptors are written back one after the other. *)
LEMMA OneEngineReached ==
    ASSUME NumDescEngines = 1, NEW T, NEW q, CacheInv(T, q), NEW A, NEW U,
           CacheInOrder(q, A, U), NEW p \in Nat, NEW b \in 0 .. p, Written(q, p)
    PROVE  Written(q, b)
<1> DEFINE j == q.wb
           h == HeadSeq(q)
<1>1. /\ j \in JobsType(T) /\ q.head \in Slots /\ h \in Nat
      /\ JobsContiguous(j, q.head) /\ TransfersAgree(j)
  BY CacheFacts, OrderFacts DEF CacheInv, BanksContiguous, BuffersFilled
<1>2. \/ p < h
      \/ \E i \in 1 .. Len(j.queue) : \E x \in 1 .. Got(j, j.queue[i]) :
            p = h + (Ahead(j, i - 1) + (x - 1))
  BY DEF Written, Reached
<1>3. CASE b < h
  BY <1>3 DEF Written, Reached
<1>4. CASE ~ (b < h)
  <2>1. ~ (p < h)
    BY <1>1, <1>4
  <2>2. PICK i \in 1 .. Len(j.queue) : \E x \in 1 .. Got(j, j.queue[i]) :
            p = h + (Ahead(j, i - 1) + (x - 1))
    BY <1>2, <2>1
  <2>3. PICK x \in 1 .. Got(j, j.queue[i]) : p = h + (Ahead(j, i - 1) + (x - 1))
    BY <2>2
  <2>4. /\ Got(j, j.queue[i]) \in Nat /\ j.queue \in Seq(DescEngines)
        /\ \A k \in 1 .. Len(j.queue) : j.queue[k] = j.queue[i] => k = i
    <3>1. Got(j, j.queue[i]) \in Nat
      BY <1>1, GotBound
    <3>2. j.queue \in Seq(DescEngines)
      BY <1>1 DEF JobsType
    <3>3. \A k \in 1 .. Len(j.queue) : j.queue[k] = j.queue[i] => k = i
      <4> HIDE DEF j
      <4> QED
        BY <1>1 DEF JobsContiguous
    <3> QED
      BY <3>1, <3>2, <3>3
  <2>5. i = 1
    <3>1. 1 \in 1 .. Len(j.queue) /\ j.queue[1] \in DescEngines /\ j.queue[i] \in DescEngines
      BY <2>4
    <3>2. \A e \in DescEngines : e = 0
      BY DEF DescEngines
    <3> QED
      BY <2>4, <3>1, <3>2
  <2>6. Ahead(j, i - 1) = 0
    BY <2>5, AheadZero
  <2> DEFINE y == b - h + 1
             g == Got(j, j.queue[i])
  <2>7. x \in 1 .. g /\ g \in Nat /\ p = h + (0 + (x - 1))
    BY <2>3, <2>4, <2>6
  <2>8. y \in 1 .. g /\ b = h + (0 + (y - 1))
    <3> HIDE DEF g, h
    <3> QED
      BY <1>1, <1>4, <2>7
  <2> QED
    BY <2>2, <2>6, <2>8 DEF Written, Reached
<1> QED
  BY <1>3, <1>4

(* The slot the driver looks at has a status, and the descriptors before it*)
(* have been written back as well. *)
LEMMA CleanupReaches ==
    ASSUME ThresholdsFit, StatusInOrder, TxInv, DriverInRing,
           NEW A, NEW g \in Nat, RingInv(A, g), em_xmit_cleanup
    PROVE  \E j \in 1 .. InUse(txq) :
              /\ DescToClean = (txq.last_desc_cleaned + j) % DescLen /\ CleanCount = j
              /\ DescToClean = (Cleaned + (j - 1)) % DescLen
              /\ \A b \in 0 .. Cleaned + (j - 1) : Written(cache, b)
<1> DEFINE c == txq.last_desc_cleaned
           C == Cleaned
           N == submitted
<1>1. /\ txq.nb_tx_free \in 0 .. DescLen - 1 /\ DescLen \in Nat \ {0}
      /\ InUse(txq) \in 0 .. DescLen - 1 /\ InUse(txq) = DescLen - 1 - txq.nb_tx_free
      /\ c \in Slots /\ c \in Nat /\ c < DescLen
  BY TxqFacts, DescLenAssumption DEF TxInv, DriverOK, InUse
<1>2. TxRsThresh <= InUse(txq)
  <2>1. TxRsThresh \in Nat /\ TxFreeThresh \in Nat /\ MaxSegs \in Nat
    BY TxAssumption
  <2>2. CASE txq.nb_tx_free < TxFreeThresh
    BY <1>1, <2>1, <2>2 DEF ThresholdsFit
  <2>3. CASE \E n \in Segs, b \in Offload : n + (IF b THEN 1 ELSE 0) > txq.nb_tx_free
    <3>1. PICK n \in Segs, b \in Offload : n + (IF b THEN 1 ELSE 0) > txq.nb_tx_free
      BY <2>3
    <3>2. n \in 1 .. MaxSegs
      BY DEF Segs
    <3>3. n + 1 > txq.nb_tx_free
      BY <1>1, <2>1, <3>1, <3>2
    <3> QED
      BY <1>1, <2>1, <3>2, <3>3 DEF ThresholdsFit
  <2> QED
    BY <2>2, <2>3 DEF em_xmit_cleanup
<1>3. PICK j \in 1 .. InUse(txq) : /\ DescToClean = (c + j) % DescLen
                                   /\ DescToClean \in Slots /\ CleanCount = j
  BY <1>2, CleanCounts
<1> DEFINE p == C + (j - 1)
<1>4. /\ C \in Nat /\ N \in Nat /\ C = N - InUse(txq) /\ InUse(txq) <= N
      /\ (c + 1) % DescLen = C % DescLen
  BY TxNumbers DEF DriverInRing, SlotsNumbered, Cleaned
<1>5. j \in Nat /\ j - 1 \in Nat /\ p \in Nat /\ p \in C .. N - 1
  <2> HIDE DEF C, N
  <2> QED
    BY <1>1, <1>3, <1>4
<1>6. DescToClean = p % DescLen
  <2>1. (c + j) % DescLen = ((c + 1) + (j - 1)) % DescLen
    <3>1. c + j = (c + 1) + (j - 1)
      BY <1>1, <1>5
    <3> QED
      BY <3>1
  <2>2. ((c + 1) + (j - 1)) % DescLen = (((c + 1) % DescLen) + (j - 1)) % DescLen
    <3>1. c + 1 \in Nat
      BY <1>1
    <3> QED
      BY <1>1, <1>5, <3>1, ModAdd
  <2>3. ((C % DescLen) + (j - 1)) % DescLen = p % DescLen
    BY <1>1, <1>4, <1>5, ModAdd
  <2> QED
    BY <1>3, <1>4, <2>1, <2>2, <2>3
<1>7. Written(cache, p)
  <2>1. ring[p % DescLen] = IF Written(cache, p) THEN SentOf(A)[p] ELSE A[p]
    BY <1>5 DEF RingInv, RingHolds
  <2>2. ring[p % DescLen].dd
    BY <1>6 DEF em_xmit_cleanup
  <2>3. A[p].dd = FALSE
    <3>1. A[p] \in ArmedDesc(p)
      BY <1>5 DEF RingInv, AllArmed
    <3> QED
      BY <3>1 DEF ArmedDesc
  <2> QED
    BY <2>1, <2>2, <2>3
<1>8. \A b \in 0 .. p : Written(cache, b)
  <2>1. CASE TxRsThresh = 1
    <3>1. DescToClean = (c + 1) % DescLen
      <4>1. c + 1 \in Nat /\ c + 1 < 2 * DescLen
        BY <1>1
      <4>2. Wrap(c + 1) = (c + 1) % DescLen /\ Wrap(c + 1) \in Slots
        BY <4>1, WrapMod
      <4>3. \A s \in Slots : txq.last_id[s] = s
        BY DEF DriverInRing, SlotsNumbered
      <4>4. DescToClean = txq.last_id[Wrap(c + 1)]
        BY <2>1 DEF DescToClean
      <4> QED
        BY <4>2, <4>3, <4>4
    <3>2. j = 1
      <4>1. c + 1 \in c .. c + DescLen - 1 /\ c + j \in c .. c + DescLen - 1
        BY <1>1, <1>3
      <4>2. c + 1 = c + j
        BY <1>1, <1>3, <3>1, <4>1, ModWindow
      <4> QED
        BY <1>1, <1>5, <4>2
    <3>3. \A b \in 0 .. C - 1 : Written(cache, b)
      BY DEF RingInv, RingHolds
    <3>4. p = C
      <4> HIDE DEF C
      <4> QED
        BY <1>4, <3>2
    <3> HIDE DEF C, p
    <3>5. \A b \in 0 .. p : b = p \/ b \in 0 .. C - 1
      BY <1>4, <3>4
    <3> QED
      BY <1>7, <3>3, <3>5
  <2>2. CASE NumDescEngines = 1
    <3> HIDE DEF p
    <3>1. CacheInv(TxDescs, cache) /\ CacheInOrder(cache, A, SentOf(A))
      BY TxNumbers
    <3> QED
      BY <1>5, <1>7, <2>2, <3>1, OneEngineReached
  <2> QED
    BY <2>1, <2>2 DEF StatusInOrder
<1> QED
  BY <1>3, <1>6, <1>8

LEMMA CleanupRing ==
    ASSUME ThresholdsFit, StatusInOrder, TxInv, DriverInRing,
           NEW A, NEW g \in Nat, RingInv(A, g), em_xmit_cleanup
    PROVE  DriverInRing' /\ RingInv(A, g)' /\ StoryKept
<1> DEFINE to == DescToClean
           c == txq.last_desc_cleaned
           C == Cleaned
           N == submitted
           k == InUse(txq)
<1>1. /\ ring' = [ring EXCEPT ![to].dd = FALSE]
      /\ txq' = [txq EXCEPT !.last_desc_cleaned = to, !.nb_tx_free = @ + CleanCount]
      /\ cache' = cache /\ submitted' = submitted
  BY Zenon DEF em_xmit_cleanup
<1>2. PICK j \in 1 .. k :
         /\ to = (c + j) % DescLen /\ CleanCount = j /\ to = (C + (j - 1)) % DescLen
         /\ \A b \in 0 .. C + (j - 1) : Written(cache, b)
  BY CleanupReaches
<1>3. txq \in TxqType /\ ring \in [Slots -> TxDescs]
  BY DEF TxInv, DriverOK
<1>4. /\ txq.nb_tx_free \in 0 .. DescLen - 1 /\ DescLen \in Nat \ {0}
      /\ k \in 0 .. DescLen - 1 /\ k = DescLen - 1 - txq.nb_tx_free
      /\ c \in Slots /\ c \in Nat
  BY <1>3, TxqFacts, DescLenAssumption DEF InUse
<1>5. /\ C \in Nat /\ N \in Nat /\ C = N - k /\ k <= N /\ N <= C + (DescLen - 1)
      /\ (c + 1) % DescLen = C % DescLen
  BY TxNumbers DEF DriverInRing, SlotsNumbered, Cleaned
<1>6. /\ txq'.last_desc_cleaned = to /\ txq'.nb_tx_free = txq.nb_tx_free + j
      /\ txq'.tx_id = txq.tx_id /\ txq'.last_id = txq.last_id
      /\ txq'.sw_ring = txq.sw_ring
  <2> HIDE DEF to
  <2> QED
    BY <1>1, <1>2, <1>3 DEF TxqType
<1>7. InUse(txq') = k - j /\ Cleaned' = C + j
  <2>1. InUse(txq') = k - j
    <3>1. InUse(txq') = DescLen - 1 - txq'.nb_tx_free
      BY DEF InUse
    <3> HIDE DEF k
    <3> QED
      BY <1>2, <1>4, <1>6, <3>1
  <2>2. Cleaned' = submitted' - InUse(txq') /\ submitted' = N
    BY <1>1 DEF Cleaned
  <2> HIDE DEF C, k, N
  <2>3. N - (k - j) = C + j
    BY <1>2, <1>4, <1>5
  <2> QED
    BY <2>1, <2>2, <2>3
<1> HIDE DEF to, c, C, N, k
<1>8. (txq'.last_desc_cleaned + 1) % DescLen = Cleaned' % DescLen
  <2>1. (((c + j) % DescLen) + 1) % DescLen = (c + (j + 1)) % DescLen
    <3>1. c \in Slots /\ j \in Nat /\ 1 \in Nat
      BY <1>2, <1>4
    <3> QED
      BY <3>1, RingAdd
  <2>2. c + (j + 1) = (c + 1) + j /\ c + 1 \in Nat /\ j \in Nat
    BY <1>2, <1>4
  <2>3. ((c + 1) + j) % DescLen = (((c + 1) % DescLen) + j) % DescLen
    BY <1>4, <2>2, ModAdd
  <2>4. ((C % DescLen) + j) % DescLen = (C + j) % DescLen
    BY <1>4, <1>5, <2>2, ModAdd
  <2>5. ((c + 1) % DescLen) = C % DescLen /\ txq'.last_desc_cleaned = (c + j) % DescLen
    BY <1>2, <1>5, <1>6
  <2> QED
    BY <1>7, <2>1, <2>2, <2>3, <2>4, <2>5, Zenon
<1>9. C + j \in Nat /\ (\A b \in C + j .. N - 1 : b \in C .. N - 1)
  BY <1>2, <1>4, <1>5
<1>10. DriverInRing'
  <2>1. SlotsNumbered'
    <3>1. InUse(txq') <= submitted'
      <4>1. k - j <= N
        BY <1>2, <1>4, <1>5
      <4> QED
        BY <1>1, <1>7, <4>1 DEF N
    <3>2. txq'.tx_id = submitted' % DescLen /\ \A s \in Slots : txq'.last_id[s] = s
      BY <1>1, <1>6 DEF DriverInRing, SlotsNumbered
    <3> QED
      BY <1>8, <3>1, <3>2 DEF SlotsNumbered
  <2>2. BuffersHeld'
    <3>1. /\ \A b \in C .. N - 1 : txq.sw_ring[b % DescLen] = <<b + 1, 1>>
          /\ \A s \in Slots : txq.sw_ring[s] # NULL =>
                \E b \in 0 .. N - 1 : b % DescLen = s /\ txq.sw_ring[s] = <<b + 1, 1>>
      BY DEF DriverInRing, BuffersHeld, C, N
    <3>2. /\ \A b \in C + j .. N - 1 : txq'.sw_ring[b % DescLen] = <<b + 1, 1>>
          /\ \A s \in Slots : txq'.sw_ring[s] # NULL =>
                \E b \in 0 .. N - 1 : b % DescLen = s /\ txq'.sw_ring[s] = <<b + 1, 1>>
      BY <1>6, <1>9, <3>1
    <3>3. Cleaned' = C + j /\ submitted' = N
      BY <1>1, <1>7 DEF N
    <3> QED
      BY <3>2, <3>3 DEF BuffersHeld
  <2> QED
    BY <2>1, <2>2 DEF DriverInRing
<1>11. CardInRing(A, g)'
  BY <1>1 DEF RingInv, CardInRing
<1>12. RingHolds(A)'
  <2>1. \A b \in C .. N - 1 :
           ring[b % DescLen] = IF Written(cache, b) THEN SentOf(A)[b] ELSE A[b]
    BY DEF RingInv, RingHolds, C, N
  <2>2. ASSUME NEW b \in C + j .. N - 1
        PROVE  ring'[b % DescLen] = ring[b % DescLen]
    <3>1. b \in Nat /\ b % DescLen # to
      <4> DEFINE p == C + (j - 1)
      <4>1. /\ b \in C .. C + DescLen - 1 /\ p \in C .. C + DescLen - 1 /\ b # p
            /\ b \in Nat
        BY <1>2, <1>4, <1>5, <2>2
      <4>2. to = p % DescLen
        BY <1>2
      <4> HIDE DEF p
      <4> QED
        BY <1>4, <1>5, <4>1, <4>2, ModWindow
    <3>2. b % DescLen \in Slots
      BY <3>1, ModInSlots
    <3> QED
      BY <1>1, <1>3, <3>1, <3>2
  <2>3. \A b \in C + j .. N - 1 :
           ring'[b % DescLen] = IF Written(cache', b) THEN SentOf(A)[b] ELSE A[b]
    BY <1>1, <1>9, <2>1, <2>2
  <2>4. \A b \in 0 .. (C + j) - 1 : Written(cache', b)
    <3>1. (C + j) - 1 = C + (j - 1)
      BY <1>2, <1>5
    <3> QED
      BY <1>1, <1>2, <3>1
  <2>5. Cleaned' = C + j /\ submitted' = N
    BY <1>1, <1>7 DEF N
  <2> QED
    BY <2>3, <2>4, <2>5, Zenon DEF RingHolds
<1> QED
  BY <1>1, <1>10, <1>11, <1>12 DEF RingInv, StoryKept

(* What the card holds does not depend on the descriptors it has not been  *)
(* told of. *)
LEMMA BufsSame ==
    ASSUME NEW T, NEW j \in JobsType(T), NEW start \in Slots, JobsContiguous(j, start),
           TransfersAgree(j), NEW s \in Nat, NEW W, NEW V, BufsInOrder(j, s, W),
           \A i \in 1 .. Len(j.queue) : Len(j.buf[j.queue[i]]) <= j.num[j.queue[i]],
           \A b \in Nat : b < s + j.ing => V[b] = W[b]
    PROVE  BufsInOrder(j, s, V)
<1> SUFFICES ASSUME NEW i \in 1 .. Len(j.queue), NEW x \in 1 .. Len(j.buf[j.queue[i]])
             PROVE  j.buf[j.queue[i]][x] = V[s + (Ahead(j, i - 1) + (x - 1))]
  BY DEF BufsInOrder
<1> DEFINE e == j.queue[i]
           a == Ahead(j, i - 1)
           l == Len(j.buf[e])
<1>1. /\ a \in Nat /\ Ahead(j, i) = a + j.num[e] /\ j.ing \in Nat /\ Ahead(j, i) <= j.ing
      /\ j.num[e] \in Nat
  BY GotBound
<1>2. l \in Nat /\ l <= j.num[e]
  <2>1. e \in DescEngines
    BY AheadTyped
  <2>2. j.buf[e] \in Seq(T)
    BY <2>1 DEF JobsType
  <2> QED
    BY <2>2
<1>3. j.buf[e][x] = W[s + (a + (x - 1))]
  BY DEF BufsInOrder
<1>4. x \in 1 .. l
  OBVIOUS
<1> HIDE DEF a, e, l
<1>5. s + (a + (x - 1)) \in Nat /\ s + (a + (x - 1)) < s + j.ing
  BY <1>1, <1>2, <1>4
<1>6. V[s + (a + (x - 1))] = W[s + (a + (x - 1))]
  BY <1>5
<1> QED
  BY <1>3, <1>6 DEF a, e

LEMMA OrderedSame ==
    ASSUME NEW T, NEW q, CacheInv(T, q), NEW A, NEW U, NEW g \in Nat, Ordered(q, A, U, g),
           NEW B, NEW V, \A b \in 0 .. g - 1 : B[b] = A[b] /\ V[b] = U[b]
    PROVE  Ordered(q, B, V, g)
<1> DEFINE h == HeadSeq(q)
           w == q.nextSeqToWriteback
           n == q.nextSeqToProcess
           c == CacheSeq(q)
           f == FetchSeq(q)
           lu == Len(q.used)
           ln == Len(q.unused)
<1>1. CacheInOrder(q, A, U) /\ WithinGiven(q, g) /\ f <= g
  BY DEF Ordered, WithinGiven
<1>2. /\ h \in Nat /\ c \in Nat /\ f \in Nat /\ h + lu = w /\ h + q.wb.ing <= w
      /\ w <= n /\ n <= c /\ c <= f /\ f = c + q.fetch.ing /\ c = n + ln
  BY <1>1, OrderFacts DEF FetchSeq, CacheSeq
<1>3. /\ w \in Nat /\ n \in Nat /\ lu \in Nat /\ ln \in Nat
      /\ q.wb \in JobsType(T) /\ q.fetch \in JobsType(T)
      /\ q.wb.ing \in Nat /\ q.fetch.ing \in Nat /\ q.head \in Slots /\ q.cachePnt \in Slots
  BY CacheFacts, ProcessingFacts
<1> HIDE DEF w, n, c, f, lu, ln, h
<1>4. \A b \in Nat : b < f => B[b] = A[b] /\ V[b] = U[b]
  BY <1>1, <1>2
<1>5. \A i \in 1 .. Len(q.used) : q.used[i] = V[HeadSeq(q) + (i - 1)]
  <2> SUFFICES ASSUME NEW i \in 1 .. lu PROVE q.used[i] = V[h + (i - 1)]
    BY DEF h, lu
  <2>1. q.used[i] = U[h + (i - 1)]
    BY <1>1 DEF CacheInOrder, h, lu
  <2>2. h + (i - 1) \in Nat /\ h + (i - 1) < f
    BY <1>2, <1>3
  <2> QED
    BY <1>4, <2>1, <2>2
<1>6. \A i \in 1 .. Len(q.unused) : q.unused[i] = B[q.nextSeqToProcess + (i - 1)]
  <2> SUFFICES ASSUME NEW i \in 1 .. ln PROVE q.unused[i] = B[n + (i - 1)]
    BY DEF n, ln
  <2>1. q.unused[i] = A[n + (i - 1)]
    BY <1>1 DEF CacheInOrder, n, ln
  <2>2. n + (i - 1) \in Nat /\ n + (i - 1) < f
    BY <1>2, <1>3
  <2> QED
    BY <1>4, <2>1, <2>2
<1>7. \A e \in PktEngines : q.processing[e].desc # NULL =>
          q.processing[e].desc = IF q.processing[e].done THEN V[q.processing[e].seqIdx]
                                                         ELSE B[q.processing[e].seqIdx]
  <2> SUFFICES ASSUME NEW e \in PktEngines, q.processing[e].desc # NULL
               PROVE  q.processing[e].desc = IF q.processing[e].done
                                             THEN V[q.processing[e].seqIdx]
                                             ELSE B[q.processing[e].seqIdx]
    OBVIOUS
  <2>1. q.processing[e].seqIdx \in Nat /\ q.processing[e].seqIdx < n
    BY ProcessingFacts DEF CacheInv, ProcessingInOrder, n
  <2> DEFINE s == q.processing[e].seqIdx
  <2>2. q.processing[e].desc = IF q.processing[e].done THEN U[s] ELSE A[s]
    BY <1>1 DEF CacheInOrder
  <2> HIDE DEF s
  <2>3. s \in Nat /\ s < f
    BY <1>2, <1>3, <2>1 DEF s
  <2>4. V[s] = U[s] /\ B[s] = A[s]
    BY <1>4, <2>3
  <2> QED
    BY <2>2, <2>4 DEF s
<1>8. BufsInOrder(q.wb, HeadSeq(q), V)
  <2>1. /\ JobsContiguous(q.wb, q.head) /\ TransfersAgree(q.wb)
        /\ \A i \in 1 .. Len(q.wb.queue) :
              Len(q.wb.buf[q.wb.queue[i]]) <= q.wb.num[q.wb.queue[i]]
    <3>1. /\ JobsContiguous(q.wb, q.head) /\ TransfersAgree(q.wb)
          /\ \A e \in DescEngines : q.wb.working[e] => Len(q.wb.buf[e]) = q.wb.num[e]
      BY DEF CacheInv, BanksContiguous, BuffersFilled
    <3>2. \A e \in DescEngines :
             q.wb.working[e] <=> \E i \in 1 .. Len(q.wb.queue) : q.wb.queue[i] = e
      BY <3>1 DEF JobsContiguous
    <3>3. \A i \in 1 .. Len(q.wb.queue) :
             q.wb.queue[i] \in DescEngines /\ q.wb.num[q.wb.queue[i]] \in 0 .. DescLen
      BY <1>3, AheadTyped
    <3>4. \A i \in 1 .. Len(q.wb.queue) :
             Len(q.wb.buf[q.wb.queue[i]]) = q.wb.num[q.wb.queue[i]]
      BY <3>1, <3>2, <3>3
    <3> QED
      BY <3>1, <3>3, <3>4, DescLenAssumption
  <2>2. BufsInOrder(q.wb, h, U)
    BY <1>1 DEF CacheInOrder, h
  <2>3. \A b \in Nat : b < h + q.wb.ing => V[b] = U[b]
    BY <1>2, <1>3, <1>4
  <2> QED
    BY <1>2, <1>3, <2>1, <2>2, <2>3, BufsSame DEF h
<1>9. BufsInOrder(q.fetch, CacheSeq(q), B)
  <2>1. /\ JobsContiguous(q.fetch, q.cachePnt) /\ TransfersAgree(q.fetch)
        /\ \A i \in 1 .. Len(q.fetch.queue) :
              Len(q.fetch.buf[q.fetch.queue[i]]) <= q.fetch.num[q.fetch.queue[i]]
    <3>1. /\ JobsContiguous(q.fetch, q.cachePnt) /\ TransfersAgree(q.fetch)
          /\ \A e \in DescEngines : q.fetch.working[e] =>
                Len(q.fetch.buf[e]) = Got(q.fetch, e)
      BY DEF CacheInv, BanksContiguous, BuffersFilled, Got
    <3>2. \A e \in DescEngines :
             q.fetch.working[e] <=> \E i \in 1 .. Len(q.fetch.queue) : q.fetch.queue[i] = e
      BY <3>1 DEF JobsContiguous
    <3>3. \A i \in 1 .. Len(q.fetch.queue) : q.fetch.queue[i] \in DescEngines
      BY <1>3, AheadTyped
    <3>4. \A i \in 1 .. Len(q.fetch.queue) :
             Got(q.fetch, q.fetch.queue[i]) <= q.fetch.num[q.fetch.queue[i]]
      BY <1>3, <3>1, GotBound
    <3> QED
      BY <3>1, <3>2, <3>3, <3>4
  <2>2. BufsInOrder(q.fetch, c, A)
    BY <1>1 DEF CacheInOrder, c
  <2>3. \A b \in Nat : b < c + q.fetch.ing => B[b] = A[b]
    BY <1>2, <1>4
  <2> QED
    BY <1>2, <1>3, <2>1, <2>2, <2>3, BufsSame DEF c
<1>10. HeadSeq(q) \in Nat /\ q.head = HeadSeq(q) % DescLen
  BY <1>1 DEF CacheInOrder
<1>11. CacheInOrder(q, B, V)
  BY <1>5, <1>6, <1>7, <1>8, <1>9, <1>10, Zenon DEF CacheInOrder
<1> QED
  BY <1>1, <1>11 DEF Ordered

(* A packet of one descriptor, as the driver queues it. *)
LEMMA XmitOne ==
    ASSUME OnePerPacket, TxInv, NEW n \in Segs, NEW len \in SegLens, NEW c \in Offload,
           eth_em_xmit_pkts(n, len, c)
    PROVE  /\ 1 <= txq.nb_tx_free /\ submitted' = submitted + 1 /\ cache' = cache
           /\ txq'.tx_id = Wrap(txq.tx_id + 1) /\ txq'.nb_tx_free = txq.nb_tx_free - 1
           /\ txq'.last_desc_cleaned = txq.last_desc_cleaned
           /\ \A s \in Slots : /\ s # txq.tx_id => /\ ring'[s] = ring[s]
                                                   /\ txq'.last_id[s] = txq.last_id[s]
                                                   /\ txq'.sw_ring[s] = txq.sw_ring[s]
                               /\ s = txq.tx_id => /\ ring'[s] \in ArmedDesc(submitted)
                                                   /\ txq'.last_id[s] = s
                                                   /\ txq'.sw_ring[s] = <<submitted + 1, 1>>
<1> DEFINE p        == submitted + 1
           k        == n + (IF c THEN 1 ELSE 0)
           slot(i)  == Wrap(txq.tx_id + i)
           setRs    == txq.nb_tx_used + k >= TxRsThresh
           seg(i)   == IF c THEN i ELSE i + 1
           data(i)  == [ctx |-> FALSE, buf |-> <<p, seg(i)>>, len |-> len, dd |-> FALSE,
                        eop |-> i = k - 1, rs |-> i = k - 1 /\ setRs]
           isCtx(i) == c /\ i = 0
           index(s) == CHOOSE i \in 0 .. k - 1 : slot(i) = s
           written  == {slot(i) : i \in 0 .. k - 1}
           last     == [s \in Slots |-> IF s \in written THEN slot(k - 1) ELSE txq.last_id[s]]
           sw       == [s \in Slots |-> IF s \notin written THEN txq.sw_ring[s]
                                        ELSE IF isCtx(index(s)) THEN NULL
                                        ELSE data(index(s)).buf]
           t        == txq.tx_id
<1>1. /\ k <= txq.nb_tx_free /\ submitted' = p /\ cache' = cache
      /\ ring' = [s \in Slots |-> IF s \notin written THEN ring[s]
                                  ELSE IF isCtx(index(s)) THEN ContextDesc ELSE data(index(s))]
  BY DEF eth_em_xmit_pkts, QueuePacketUnchecked
<1>2. txq' = [txq EXCEPT !.tx_id = Wrap(@ + k), !.nb_tx_used = IF setRs THEN 0 ELSE @ + k,
                         !.nb_tx_free = @ - k, !.last_id = last, !.sw_ring = sw]
  BY DEF eth_em_xmit_pkts, QueuePacketUnchecked
<1>3. txq \in TxqType
  BY DEF TxInv, DriverOK
<1>4. t \in Slots /\ t \in Nat /\ t < DescLen /\ DescLen \in Nat \ {0}
  BY <1>3, TxqFacts, DescLenAssumption
<1>5. n = 1 /\ c = FALSE /\ k = 1 /\ len \in Nat
  <2>1. n \in 1 .. 1 /\ c \in {FALSE} /\ len \in Nat
    BY TxAssumption DEF OnePerPacket, Segs
  <2> QED
    BY <2>1
<1>6. slot(0) = t
  BY <1>4 DEF Wrap
<1> HIDE DEF slot
<1>7. written = {t} /\ 0 .. k - 1 = {0}
  BY <1>5, <1>6
<1>8. index(t) = 0
  BY <1>5, <1>6
<1>9. data(0) \in ArmedDesc(submitted) /\ data(0).buf = <<p, 1>> /\ ~ isCtx(0)
  <2>1. /\ (0 = k - 1) = TRUE /\ (0 = k - 1 /\ setRs) \in BOOLEAN
        /\ seg(0) = 1
    BY <1>5
  <2> HIDE DEF setRs, k, seg
  <2> QED
    BY <1>5, <2>1 DEF ArmedDesc
<1> HIDE DEF written, index, data, isCtx
<1>10. \A s \in Slots : /\ ring'[s] = IF s = t THEN data(0) ELSE ring[s]
                        /\ sw[s] = IF s = t THEN <<p, 1>> ELSE txq.sw_ring[s]
                        /\ last[s] = IF s = t THEN s ELSE txq.last_id[s]
  <2> SUFFICES ASSUME NEW s \in Slots
               PROVE  /\ ring'[s] = IF s = t THEN data(0) ELSE ring[s]
                      /\ sw[s] = IF s = t THEN <<p, 1>> ELSE txq.sw_ring[s]
                      /\ last[s] = IF s = t THEN s ELSE txq.last_id[s]
    OBVIOUS
  <2>1. s \in written <=> s = t
    BY <1>7
  <2>2. ring'[s] = IF s = t THEN data(0) ELSE ring[s]
    BY <1>1, <1>8, <1>9, <2>1
  <2>3. sw[s] = IF s = t THEN <<p, 1>> ELSE txq.sw_ring[s]
    BY <1>8, <1>9, <2>1
  <2>4. last[s] = IF s = t THEN s ELSE txq.last_id[s]
    <3>1. slot(k - 1) = t
      BY <1>5, <1>6
    <3> QED
      BY <2>1, <3>1
  <2> QED
    BY <2>2, <2>3, <2>4
<1> HIDE DEF last, sw
<1>11. /\ txq'.tx_id = Wrap(txq.tx_id + k) /\ txq'.nb_tx_free = txq.nb_tx_free - k
       /\ txq'.last_desc_cleaned = txq.last_desc_cleaned /\ txq'.last_id = last
       /\ txq'.sw_ring = sw
  <2> HIDE DEF setRs, k
  <2> QED
    BY <1>2, <1>3 DEF TxqType
<1> QED
  BY <1>1, <1>5, <1>9, <1>10, <1>11

(* The descriptor it fills in is the next one, and the card has not been   *)
(* told of it. *)
LEMMA XmitRing ==
    ASSUME OnePerPacket, TxInv, DriverInRing, NEW A, NEW g \in Nat, RingInv(A, g),
           NEW n \in Segs, NEW len \in SegLens, NEW c \in Offload,
           eth_em_xmit_pkts(n, len, c)
    PROVE  /\ DriverInRing' /\ (\E B : RingInv(B, g)') /\ StoryKept
           /\ Cleaned' = Cleaned
<1> DEFINE t == txq.tx_id
           C == Cleaned
           N == submitted
           k == InUse(txq)
           d == ring'[t]
           L == DescLen
<1>1. /\ 1 <= txq.nb_tx_free /\ submitted' = N + 1 /\ cache' = cache
      /\ txq'.tx_id = Wrap(t + 1) /\ txq'.nb_tx_free = txq.nb_tx_free - 1
      /\ txq'.last_desc_cleaned = txq.last_desc_cleaned
      /\ \A s \in Slots : /\ s # t => /\ ring'[s] = ring[s]
                                      /\ txq'.last_id[s] = txq.last_id[s]
                                      /\ txq'.sw_ring[s] = txq.sw_ring[s]
                          /\ s = t => /\ ring'[s] \in ArmedDesc(N)
                                      /\ txq'.last_id[s] = s
                                      /\ txq'.sw_ring[s] = <<N + 1, 1>>
  BY XmitOne
<1>2. txq \in TxqType /\ ring \in [Slots -> TxDescs]
  BY DEF TxInv, DriverOK
<1>3. /\ txq.nb_tx_free \in 0 .. L - 1 /\ L \in Nat \ {0}
      /\ k \in 0 .. L - 1 /\ k = L - 1 - txq.nb_tx_free
      /\ t \in Slots /\ t \in Nat /\ t < L
  BY <1>2, TxqFacts, DescLenAssumption DEF InUse
<1>4. /\ C \in Nat /\ N \in Nat /\ C = N - k /\ k <= N /\ t = N % L
      /\ cache.nextSeqToWriteback \in Nat /\ cache.nextSeqToProcess \in Nat
      /\ cache.nextSeqToWriteback <= cache.nextSeqToProcess
      /\ CacheSeq(cache) \in Nat /\ FetchSeq(cache) \in Nat
      /\ cache.nextSeqToProcess <= CacheSeq(cache) /\ CacheSeq(cache) <= FetchSeq(cache)
      /\ FetchSeq(cache) <= g /\ g <= N
      /\ CacheInv(TxDescs, cache) /\ CacheInOrder(cache, A, SentOf(A))
      /\ Ordered(cache, A, SentOf(A), g)
  BY TxNumbers DEF DriverInRing, SlotsNumbered, Cleaned
<1>5. Cleaned' = C /\ InUse(txq') = k + 1
  <2>1. InUse(txq') = L - 1 - txq'.nb_tx_free
    BY DEF InUse
  <2>2. Cleaned' = submitted' - InUse(txq')
    BY DEF Cleaned
  <2> HIDE DEF C, k, N, L
  <2>3. InUse(txq') = k + 1
    BY <1>1, <1>3, <2>1
  <2>4. (N + 1) - (k + 1) = C
    BY <1>3, <1>4
  <2> QED
    BY <1>1, <2>2, <2>3, <2>4
<1> HIDE DEF C, k, N, t, L
<1>6. d \in ArmedDesc(N)
  BY <1>1, <1>3
<1>7. \A b \in C .. N - 1 : b \in Nat /\ b % L \in Slots /\ b % L # t
  <2> SUFFICES ASSUME NEW b \in C .. N - 1 PROVE b \in Nat /\ b % L \in Slots /\ b % L # t
    OBVIOUS
  <2>1. b \in C .. C + L - 1 /\ N \in C .. C + L - 1 /\ b \in Nat /\ b # N
    BY <1>1, <1>3, <1>4
  <2>2. b % L \in Slots
    BY <2>1, ModInSlots DEF L
  <2>3. b % L # N % L
    BY <1>3, <1>4, <2>1, ModWindow
  <2> QED
    BY <1>4, <2>1, <2>2, <2>3
<1>8. txq'.tx_id = (N + 1) % L
  <2>1. t + 1 \in Nat /\ t + 1 < 2 * DescLen
    BY <1>1, <1>3 DEF L
  <2>2. Wrap(t + 1) = (t + 1) % L
    BY <2>1, WrapMod DEF L
  <2>3. ((N % L) + 1) % L = (N + 1) % L
    BY <1>3, <1>4, ModAdd
  <2> QED
    BY <1>1, <1>4, <2>2, <2>3
<1>9. SlotsNumbered'
  <2>1. /\ (txq.last_desc_cleaned + 1) % L = C % L
        /\ \A s \in Slots : txq.last_id[s] = s
    BY DEF DriverInRing, SlotsNumbered, C, L
  <2>2. k + 1 <= N + 1
    BY <1>3, <1>4
  <2> QED
    BY <1>1, <1>5, <1>8, <2>1, <2>2 DEF SlotsNumbered, L
<1>10. BuffersHeld'
  <2>1. /\ \A b \in C .. N - 1 : txq.sw_ring[b % L] = <<b + 1, 1>>
        /\ \A s \in Slots : txq.sw_ring[s] # NULL =>
              \E b \in 0 .. N - 1 : b % L = s /\ txq.sw_ring[s] = <<b + 1, 1>>
    BY DEF DriverInRing, BuffersHeld, C, N, L
  <2>2. \A b \in C .. (N + 1) - 1 : txq'.sw_ring[b % L] = <<b + 1, 1>>
    <3> SUFFICES ASSUME NEW b \in C .. (N + 1) - 1 PROVE txq'.sw_ring[b % L] = <<b + 1, 1>>
      OBVIOUS
    <3>1. b = N \/ b \in C .. N - 1
      BY <1>4
    <3> QED
      BY <1>1, <1>3, <1>4, <1>7, <2>1, <3>1
  <2>3. ASSUME NEW s \in Slots, txq'.sw_ring[s] # NULL
        PROVE  \E b \in 0 .. (N + 1) - 1 : b % L = s /\ txq'.sw_ring[s] = <<b + 1, 1>>
    <3>1. CASE s = t
      <4>1. N \in 0 .. (N + 1) - 1
        BY <1>4
      <4> QED
        BY <1>1, <1>4, <3>1, <4>1
    <3>2. CASE s # t
      <4>1. txq'.sw_ring[s] = txq.sw_ring[s]
        BY <1>1, <3>2
      <4>2. PICK b \in 0 .. N - 1 : b % L = s /\ txq.sw_ring[s] = <<b + 1, 1>>
        BY <2>1, <2>3, <4>1
      <4>3. b \in 0 .. (N + 1) - 1
        BY <1>4
      <4> QED
        BY <4>1, <4>2, <4>3
    <3> QED
      BY <3>1, <3>2
  <2>4. submitted' = N + 1 /\ Cleaned' = C
    BY <1>1, <1>5
  <2> QED
    BY <2>2, <2>3, <2>4 DEF BuffersHeld, L
<1> HIDE DEF d
<1>0. PICK B : B = [b \in Nat |-> IF b = N THEN d ELSE A[b]]
  OBVIOUS
<1>11. /\ B[N] = d /\ \A b \in Nat : b # N => B[b] = A[b]
       /\ \A b \in Nat : b # N => SentOf(B)[b] = SentOf(A)[b]
  <2>1. B[N] = d /\ \A b \in Nat : b # N => B[b] = A[b]
    BY <1>0, <1>4
  <2> QED
    BY <2>1 DEF SentOf
<1>12. AllArmed(B)
  <2> SUFFICES ASSUME NEW b \in Nat PROVE B[b] \in ArmedDesc(b)
    BY DEF AllArmed
  <2>1. CASE b = N
    BY <1>6, <1>11, <2>1
  <2>2. CASE b # N
    BY <1>11, <2>2 DEF RingInv, AllArmed
  <2> QED
    BY <2>1, <2>2
<1>13. Ordered(cache, B, SentOf(B), g)
  <2>1. \A b \in 0 .. g - 1 : B[b] = A[b] /\ SentOf(B)[b] = SentOf(A)[b]
    <3>1. \A b \in 0 .. g - 1 : b \in Nat /\ b # N
      BY <1>4
    <3> QED
      BY <1>11, <3>1
  <2> QED
    BY <1>4, <2>1, OrderedSame
<1>14. CardInRing(B, g)'
  <2>1. g <= N + 1
    BY <1>4
  <2> QED
    BY <1>1, <1>13, <2>1 DEF CardInRing
<1>15. ~ Written(cache, N)
  <2>1. ~ (N < cache.nextSeqToWriteback)
    <3> DEFINE w == cache.nextSeqToWriteback
               m == cache.nextSeqToProcess
               x == CacheSeq(cache)
               f == FetchSeq(cache)
    <3>1. /\ w \in Nat /\ m \in Nat /\ x \in Nat /\ f \in Nat /\ N \in Nat
          /\ w <= m /\ m <= x /\ x <= f /\ f <= g /\ g <= N
      BY <1>4
    <3> HIDE DEF w, m, x, f
    <3>2. ~ (N < w)
      BY <3>1
    <3> QED
      BY <3>2 DEF w
  <2> QED
    BY <1>4, <2>1, WrittenBound
<1>16. RingHolds(B)'
  <2>1. /\ \A b \in C .. N - 1 :
              ring[b % L] = IF Written(cache, b) THEN SentOf(A)[b] ELSE A[b]
        /\ \A b \in 0 .. C - 1 : Written(cache, b)
    BY DEF RingInv, RingHolds, C, N, L
  <2>2. ASSUME NEW b \in C .. (N + 1) - 1
        PROVE  ring'[b % L] = IF Written(cache', b) THEN SentOf(B)[b] ELSE B[b]
    <3>1. b = N \/ (b \in C .. N - 1 /\ b # N)
      BY <1>4
    <3>2. CASE b = N
      <4>1. ring'[b % L] = B[b]
        BY <1>4, <1>11, <3>2 DEF d
      <4> QED
        BY <1>1, <1>15, <3>2, <4>1
    <3>3. CASE b \in C .. N - 1 /\ b # N
      <4>1. ring'[b % L] = ring[b % L] /\ b \in Nat
        BY <1>1, <1>7, <3>3
      <4>2. B[b] = A[b] /\ SentOf(B)[b] = SentOf(A)[b]
        BY <1>11, <3>3, <4>1
      <4> QED
        BY <1>1, <2>1, <3>3, <4>1, <4>2
    <3> QED
      BY <3>1, <3>2, <3>3
  <2>3. submitted' = N + 1 /\ Cleaned' = C
    BY <1>1, <1>5
  <2>4. \A b \in 0 .. C - 1 : Written(cache', b)
    BY <1>1, <2>1
  <2>5. \A b \in C .. (N + 1) - 1 :
           ring'[b % L] = IF Written(cache', b) THEN SentOf(B)[b] ELSE B[b]
    BY <2>2
  <2> QED
    BY <2>3, <2>4, <2>5, Zenon DEF RingHolds, L
<1>17. RingInv(B, g)'
  BY <1>12, <1>14, <1>16 DEF RingInv
<1>18. StoryKept
  BY <1>1 DEF StoryKept
<1> QED
  BY <1>5, <1>9, <1>10, <1>17, <1>18 DEF DriverInRing, C

-----------------------------------------------------------------------------
(* The packet engines and the ring. *)

(* There is no context descriptor. *)
LEMMA NoContext ==
    ASSUME TxInv, DriverInRing, NEW A, NEW g \in Nat, RingInv(A, g)
    PROVE  processContextDesc(cache) = cache
<1> DEFINE q == cache
           u == q.unused
           stops(k) == /\ \A i \in 1 .. k : u[i].ctx
                       /\ k < Len(u) => ~ u[k + 1].ctx
           n == CHOOSE k \in 0 .. Len(u) : stops(k)
           moved == [i \in 1 .. n |-> [u[i] EXCEPT !.dd = TRUE]]
           r == processContextDesc(q)
<1>1. q \in CacheType(TxDescs) /\ u \in Seq(TxDescs) /\ Len(u) \in Nat /\ q.used \in Seq(TxDescs)
  BY CacheFacts DEF CacheInv, TxInv
<1>2. \A i \in 1 .. Len(u) : ~ u[i].ctx
  <2> SUFFICES ASSUME NEW i \in 1 .. Len(u) PROVE ~ u[i].ctx
    OBVIOUS
  <2> DEFINE b == cache.nextSeqToProcess + (i - 1)
  <2>1. b \in Nat
    BY <1>1, TxNumbers
  <2>2. u[i] = A[b]
    BY TxNumbers DEF CacheInOrder
  <2>3. A[b] \in ArmedDesc(b)
    BY <2>1 DEF RingInv, AllArmed
  <2> HIDE DEF b
  <2> QED
    BY <2>2, <2>3 DEF ArmedDesc
<1>3. stops(0) /\ 0 \in 0 .. Len(u)
  BY <1>1, <1>2
<1>4. \A k \in 0 .. Len(u) : stops(k) => k = 0
  <2> SUFFICES ASSUME NEW k \in 0 .. Len(u), stops(k), k # 0 PROVE FALSE
    OBVIOUS
  <2>1. 1 \in 1 .. k /\ 1 \in 1 .. Len(u)
    BY <1>1
  <2> QED
    BY <1>2, <2>1
<1>5. n = 0
  <2> HIDE DEF stops
  <2> QED
    BY <1>3, <1>4
<1>6. r = [q EXCEPT !.used = @ \o moved, !.unused = SubSeq(@, n + 1, Len(@))]
  BY DEF processContextDesc
<1> HIDE DEF n, r
<1>7. moved = <<>>
  BY <1>5
<1>8. q.used \o moved = q.used
  BY <1>1, <1>7, ConcatEmptySeq
<1>9. SubSeq(u, n + 1, Len(u)) = u
  BY <1>1, <1>5
<1> HIDE DEF moved
<1>10. r = [q EXCEPT !.used = q.used, !.unused = q.unused]
  BY <1>6, <1>8, <1>9
<1>11. r = q
  BY <1>1, <1>10 DEF CacheType
<1> QED
  BY <1>11 DEF r

(* A tick that takes no descriptor. *)
LEMMA TickRing ==
    ASSUME TxInv, DriverInRing, NEW A, NEW g \in Nat, RingInv(A, g),
           \/ cache' = cache
           \/ \E m \in {0, BlockMask} : cache' = writebackGlobal(cache, m)
           \/ cache' = fetchDescriptorsGlobal(cache)
           \/ cache' = fetchDescriptorsGlobal(writebackGlobal(cache, 0)),
           UNCHANGED <<ring, txq, submitted>>
    PROVE  DriverInRing' /\ RingInv(A, g)' /\ StoryKept
<1>1. CacheInv(TxDescs, cache) /\ Ordered(cache, A, SentOf(A), g)
  BY TxNumbers
<1>2. Ordered(cache', A, SentOf(A), g) /\ SameStory(cache, cache')
  <2>1. CASE cache' = cache
    BY <1>1, <2>1, SameStorySelf
  <2>2. CASE \E m \in {0, BlockMask} : cache' = writebackGlobal(cache, m)
    BY <1>1, <2>2, MasksOK, WritebackOrder
  <2>3. CASE cache' = fetchDescriptorsGlobal(cache)
    BY <1>1, <2>3, FetchOrder
  <2>4. CASE cache' = fetchDescriptorsGlobal(writebackGlobal(cache, 0))
    <3> DEFINE q == writebackGlobal(cache, 0)
    <3>1. CacheInv(TxDescs, q)
      BY <1>1, MasksOK, WritebackKeeps
    <3>2. Ordered(q, A, SentOf(A), g) /\ SameStory(cache, q)
      BY <1>1, MasksOK, WritebackOrder
    <3> HIDE DEF q
    <3>3. Ordered(fetchDescriptorsGlobal(q), A, SentOf(A), g)
          /\ SameStory(q, fetchDescriptorsGlobal(q))
      BY <3>1, <3>2, FetchOrder
    <3>4. cache' = fetchDescriptorsGlobal(q)
      BY <2>4 DEF q
    <3> QED
      BY <3>2, <3>3, <3>4, SameStoryTrans
  <2> QED
    BY <2>1, <2>2, <2>3, <2>4
<1> QED
  BY <1>2, QuietCard

(* An engine takes the next descriptor. *)
LEMMA TakeRing ==
    ASSUME TxInv, DriverInRing, NEW A, NEW g \in Nat, RingInv(A, g),
           NEW e \in PktEngines, cache.processing[e].desc = NULL, cache.unused # <<>>,
           cache' = TakeDesc(cache, e), UNCHANGED <<ring, txq, submitted>>
    PROVE  /\ DriverInRing' /\ RingInv(A, g)'
           /\ cache'.nextSeqToProcess = cache.nextSeqToProcess + 1
           /\ cache'.processing[e].seqIdx = cache.nextSeqToProcess
           /\ \A f \in PktEngines : f # e => cache'.processing[f] = cache.processing[f]
           /\ Head(cache.unused) \in ArmedDesc(cache.nextSeqToProcess)
<1>1. CacheInv(TxDescs, cache) /\ Ordered(cache, A, SentOf(A), g)
      /\ CacheInOrder(cache, A, SentOf(A)) /\ cache.nextSeqToProcess \in Nat
  BY TxNumbers
<1>2. /\ Ordered(cache', A, SentOf(A), g)
      /\ cache'.nextSeqToProcess = cache.nextSeqToProcess + 1
      /\ \A b : Written(cache', b) <=> Written(cache, b)
  BY <1>1, TakeDescOrder
<1>3. DriverInRing' /\ RingInv(A, g)'
  BY <1>2, QuietRing
<1>4. cache'.processing = [cache.processing EXCEPT ![e] = [desc   |-> Head(cache.unused),
                                                           seqIdx |-> cache.nextSeqToProcess,
                                                           done   |-> FALSE]]
  BY <1>1, NullIsNoTxDesc, TakeDescKeeps
<1>5. /\ cache'.processing[e].seqIdx = cache.nextSeqToProcess
      /\ \A f \in PktEngines : f # e => cache'.processing[f] = cache.processing[f]
  <2>1. cache.processing \in [PktEngines ->
                                [desc : TxDescs \cup {NULL}, seqIdx : Nat, done : BOOLEAN]]
    BY <1>1, ProcessingFacts
  <2> QED
    BY <1>4, <2>1
<1>6. Head(cache.unused) = A[cache.nextSeqToProcess]
  <2>1. cache.unused \in Seq(TxDescs)
    BY <1>1, CacheFacts
  <2>2. 1 \in 1 .. Len(cache.unused) /\ Head(cache.unused) = cache.unused[1]
    BY <2>1
  <2>3. cache.unused[1] = A[cache.nextSeqToProcess + (1 - 1)]
    BY <1>1, <2>2 DEF CacheInOrder
  <2>4. cache.nextSeqToProcess + (1 - 1) = cache.nextSeqToProcess
    BY <1>1
  <2> QED
    BY <2>2, <2>3, <2>4
<1> QED
  BY <1>1, <1>2, <1>3, <1>5, <1>6 DEF RingInv, AllArmed

(* An engine has read its packet. *)
LEMMA DoneRing ==
    ASSUME TxInv, DriverInRing, NEW A, NEW g \in Nat, RingInv(A, g),
           NEW e \in PktEngines, onDMAComplete(e)
    PROVE  /\ DriverInRing' /\ RingInv(A, g)' /\ ~ pktMultiDesc'
           /\ cache'.nextSeqToProcess = cache.nextSeqToProcess
           /\ \A f \in PktEngines : f # e /\ ~ cache.processing[f].done =>
                 cache'.processing[f] = cache.processing[f]
<1> DEFINE p   == cache.processing
           U   == SentOf(A)
           s   == p[e].seqIdx
           d   == SetStatus(p[e].desc)
           m   == FinishDesc(cache, e, d)
           q   == manageUsedCache(m)
           c   == TxWthresh <= descUsed(q)
<1>1. CacheInv(TxDescs, cache) /\ Ordered(cache, A, U, g) /\ CacheInOrder(cache, A, U)
  BY TxNumbers
<1>2. engine[e].ev = "event"
  BY Zenon DEF onDMAComplete
<1>3. p[e].desc \in TxDescs /\ p[e].desc # NULL /\ ~ p[e].done /\ d \in TxDescs
  BY <1>2, EngineFacts, SetStatusOK
<1>4. s \in Nat /\ p \in [PktEngines ->
                            [desc : TxDescs \cup {NULL}, seqIdx : Nat, done : BOOLEAN]]
  BY <1>1, ProcessingFacts
<1>5. p[e].desc = A[s] /\ p[e].desc.eop = TRUE
  <2>1. p[e].desc = A[s]
    BY <1>1, <1>3 DEF CacheInOrder
  <2>2. A[s] \in ArmedDesc(s)
    BY <1>4 DEF RingInv, AllArmed
  <2>3. A[s].eop = TRUE
    BY <2>2 DEF ArmedDesc
  <2> QED
    BY <2>1, <2>3
<1>6. d = U[s]
  BY <1>4, <1>5 DEF SentOf
<1>7. /\ pktMultiDesc' = ~ p[e].desc.eop
      /\ UNCHANGED <<ring, txq, submitted>>
      /\ TxWthresh = 0 => cache' = writebackGlobal(q, 0)
      /\ TxWthresh > 0 => cache' = WbIf(c, q, BlockMask)
  <2> DEFINE w == CASE ~ p[e].desc.eop -> q
                    [] p[e].desc.eop /\ TxWthresh = 0 -> writebackGlobal(q, 0)
                    [] p[e].desc.eop /\ TxWthresh > 0 -> WbIf(c, q, BlockMask)
  <2>1. /\ pktMultiDesc' = ~ p[e].desc.eop /\ cache' = w
        /\ UNCHANGED <<ring, txq, submitted>>
    BY Zenon DEF onDMAComplete
  <2> HIDE DEF q, c
  <2>2. /\ TxWthresh = 0 => w = writebackGlobal(q, 0)
        /\ TxWthresh > 0 => w = WbIf(c, q, BlockMask)
    BY <1>5, TxAssumption
  <2> QED
    BY <2>1, <2>2
<1> HIDE DEF d
<1>8. /\ CacheInv(TxDescs, m)
      /\ m.processing = [p EXCEPT ![e] = [desc |-> d, seqIdx |-> s, done |-> TRUE]]
  BY <1>1, <1>3, NullIsNoTxDesc, FinishDescKeeps
<1>9. /\ Ordered(m, A, U, g) /\ m.nextSeqToProcess = cache.nextSeqToProcess
      /\ \A b : Written(m, b) <=> Written(cache, b)
  BY <1>1, <1>6, FinishDescOrder
<1>10. \A f \in PktEngines : f # e => m.processing[f] = p[f]
  <2> HIDE DEF p
  <2> QED
    BY <1>4, <1>8
<1> HIDE DEF m
<1>11. /\ CacheInv(TxDescs, q)
       /\ \A f \in PktEngines : \/ q.processing[f] = m.processing[f]
                                \/ m.processing[f].done /\ q.processing[f] = NoEntry
  BY <1>8, NullIsNoTxDesc, ManageKeeps
<1>12. /\ Ordered(q, A, U, g) /\ q.nextSeqToProcess = m.nextSeqToProcess
       /\ \A b : Written(q, b) <=> Written(m, b)
  BY <1>8, <1>9, NullIsNoTxDesc, ManageOrder
<1> HIDE DEF q
<1>13. Ordered(cache', A, U, g) /\ SameStory(q, cache')
  <2>1. CASE TxWthresh = 0
    BY <1>7, <1>11, <1>12, <2>1, MasksOK, WritebackOrder
  <2>2. CASE TxWthresh > 0
    <3> HIDE DEF c
    <3> QED
      BY <1>7, <1>11, <1>12, <2>2, MasksOK, WbIfOrder
  <2> QED
    BY <2>1, <2>2, TxAssumption
<1>14. /\ cache'.nextSeqToProcess = q.nextSeqToProcess
       /\ cache'.processing = q.processing
       /\ \A b \in Nat : Written(cache', b) <=> Written(q, b)
  BY <1>13, Zenon DEF SameStory
<1>15. DriverInRing' /\ RingInv(A, g)'
  <2>1. \A b \in Nat : Written(cache', b) <=> Written(cache, b)
    BY <1>9, <1>12, <1>14, Zenon
  <2> QED
    BY <1>7, <1>13, <2>1, QuietRing
<1>16. \A f \in PktEngines : f # e /\ ~ p[f].done => cache'.processing[f] = p[f]
  <2> HIDE DEF p
  <2> QED
    BY <1>10, <1>11, <1>14
<1> QED
  BY <1>5, <1>7, <1>9, <1>12, <1>14, <1>15, <1>16

-----------------------------------------------------------------------------
(* The packets. *)

Out == Wire(sent, link, txFifo.fifo)

(* Their numbers: of those that went to the FIFO, and of those that the    *)
(* engines read or hold. *)
OutNums  == [i \in 1 .. Len(Out) |-> Out[i].buf[1]]
ReadNums == [e \in PktEngines |-> IF engine[e].pkt = NULL THEN 0 ELSE engine[e].pkt.buf[1]]

(* Engine e has all of a packet, and once memory has answered, intact.     *)
EngineOK(e) ==
    engine[e].pkt # NULL =>
        /\ WholePacket(engine[e].pkt)
        /\ engine[e].ev # "dma" => engine[e].pkt.intact
        /\ engine[e].ev # "idle" => engine[e].pkt.buf[1] = cache.processing[e].seqIdx + 1

PacketsUnderWay ==
    /\ ~ pktMultiDesc
    /\ LineOK(cache.nextSeqToProcess, OutNums, ReadNums)
    /\ \A i \in 1 .. Len(Out) : WholePacket(Out[i]) /\ Out[i].intact
    /\ \A e \in PktEngines : EngineOK(e)

LEMMA FrameNumber ==
    ASSUME NEW p \in Frame
    PROVE  p.buf[1] \in Nat \ {0} /\ p # NULL /\ (WholePacket(p) => p.buf = <<p.buf[1], 1>>)
<1>1. p.buf \in Pkts \X Segs
  BY DEF Frame, Bufs
<1>2. p # NULL
  BY TxNullAssumption
<1> DEFINE b == p.buf
<1>3. WholePacket(p) => b[2] = 1
  BY DEF WholePacket
<1> HIDE DEF b
<1>4. b[1] \in Nat \ {0} /\ (b[2] = 1 => b = <<b[1], 1>>)
  BY <1>1, TxAssumption DEF Pkts, b
<1> QED
  BY <1>2, <1>3, <1>4 DEF b

PacketsTyped ==
    /\ Out \in Seq(Frame) /\ Len(Out) \in Nat
    /\ OutNums \in Seq(Nat) /\ Len(OutNums) = Len(Out)
    /\ \A i \in 1 .. Len(Out) : OutNums[i] = Out[i].buf[1] /\ Out[i] \in Frame
    /\ ReadNums \in [PktEngines -> Nat]
    /\ \A e \in PktEngines :
          /\ engine[e].pkt = NULL => ReadNums[e] = 0
          /\ engine[e].pkt # NULL => /\ engine[e].pkt \in Frame /\ ReadNums[e] # 0
                                     /\ ReadNums[e] = engine[e].pkt.buf[1]

LEMMA PacketTypes ==
    ASSUME TxInv
    PROVE  PacketsTyped
<1>1. /\ sent \in Seq(Frame) /\ link \in Frame \cup {NULL} /\ txFifo.fifo \in Seq(Frame)
      /\ engine \in EngineType
  BY DEF TxInv, FifoOK, FifoSum, FifoType, CountersOK
<1>2. Out \in Seq(Frame) /\ Len(Out) \in Nat
  <2>1. Out \in Seq(Frame)
    BY <1>1, WireType DEF Out
  <2> QED
    BY <2>1
<1>3. \A i \in 1 .. Len(Out) : Out[i] \in Frame /\ Out[i].buf[1] \in Nat
  <2>1. \A i \in 1 .. Len(Out) : Out[i] \in Frame
    BY <1>2
  <2> QED
    BY <2>1, FrameNumber
<1>4. OutNums \in Seq(Nat) /\ Len(OutNums) = Len(Out)
  BY <1>2, <1>3, FcnIsSeq DEF OutNums
<1>5. \A i \in 1 .. Len(Out) : OutNums[i] = Out[i].buf[1]
  BY DEF OutNums
<1>6. \A e \in PktEngines :
         /\ engine[e].pkt = NULL => ReadNums[e] = 0
         /\ engine[e].pkt # NULL => /\ engine[e].pkt \in Frame /\ ReadNums[e] # 0
                                    /\ ReadNums[e] = engine[e].pkt.buf[1]
                                    /\ ReadNums[e] \in Nat
  <2> SUFFICES ASSUME NEW e \in PktEngines
               PROVE  /\ engine[e].pkt = NULL => ReadNums[e] = 0
                      /\ engine[e].pkt # NULL => /\ engine[e].pkt \in Frame /\ ReadNums[e] # 0
                                                 /\ ReadNums[e] = engine[e].pkt.buf[1]
                                                 /\ ReadNums[e] \in Nat
    OBVIOUS
  <2>1. engine[e].pkt \in Frame \cup {NULL}
    BY <1>1 DEF EngineType
  <2>2. ReadNums[e] = IF engine[e].pkt = NULL THEN 0 ELSE engine[e].pkt.buf[1]
    BY DEF ReadNums
  <2>3. engine[e].pkt # NULL => engine[e].pkt.buf[1] \in Nat \ {0}
    BY <2>1, FrameNumber
  <2> QED
    BY <2>1, <2>2, <2>3
<1>7. ReadNums \in [PktEngines -> Nat]
  <2>1. ReadNums = [e \in PktEngines |-> ReadNums[e]]
    BY DEF ReadNums
  <2> QED
    BY <1>6, <2>1
<1> QED
  BY <1>2, <1>3, <1>4, <1>5, <1>6, <1>7 DEF PacketsTyped

LEMMA PacketTypesNext == TxInv' => PacketsTyped'
<1>1. TxInv => PacketsTyped
  BY PacketTypes
<1> QED
  BY <1>1, PTL

(* A step that touches no packet. *)
LEMMA PacketsSame ==
    ASSUME PacketsUnderWay, StoryKept, Out' = Out, UNCHANGED <<engine, pktMultiDesc>>
    PROVE  PacketsUnderWay'
<1>1. OutNums' = OutNums /\ ReadNums' = ReadNums
  BY DEF OutNums, ReadNums
<1>2. \A e \in PktEngines : EngineOK(e)'
  BY DEF PacketsUnderWay, EngineOK, StoryKept
<1> QED
  BY <1>1, <1>2 DEF PacketsUnderWay, StoryKept

(* At the end of the tick. *)
LEMMA WireSame ==
    ASSUME NEW f, FifoSum(f), NEW due, txWire(f, due), sent \in Seq(Frame), UNCHANGED sent
    PROVE  Out' = Wire(sent, link, f.fifo)
<1>1. CASE due /\ f.size > 0 /\ link = NULL
  <2>1. link' = Head(f.fifo) /\ txFifo' = pop(f)
    BY <1>1 DEF txWire
  <2>2. f \in [fifo : Seq(Frame), size : Nat, reserved : Nat] /\ ~ (f.size <= 0)
    BY <1>1 DEF FifoSum, FifoType
  <2>3. txFifo'.fifo = Tail(f.fifo)
    BY <2>1, <2>2 DEF pop
  <2>4. f.fifo # <<>>
    <3> SUFFICES ASSUME f.fifo = <<>> PROVE FALSE
      OBVIOUS
    <3>1. LensOf(f) \in [{} -> 0 .. FifoMax]
      <4>1. 1 .. Len(f.fifo) = {}
        OBVIOUS
      <4> QED
        BY <4>1 DEF FifoSum
    <3>2. Bytes(LensOf(f)) = 0
      BY <3>1, BytesZero, FS_EmptySet
    <3> QED
      BY <2>2, <3>2 DEF FifoSum
  <2>5. Wire(sent, Head(f.fifo), Tail(f.fifo)) = Wire(sent, NULL, f.fifo)
    BY <2>2, <2>4, WireTakes
  <2> QED
    BY <1>1, <2>1, <2>3, <2>5 DEF Out
<1>2. CASE ~ (due /\ f.size > 0 /\ link = NULL)
  <2>1. link' = link /\ txFifo' = f
    BY <1>2 DEF txWire
  <2> QED
    BY <2>1 DEF Out
<1> QED
  BY <1>1, <1>2

(* A packet goes from its engine to the FIFO. *)
LEMMA PushPackets ==
    ASSUME TxInv, PacketsUnderWay, StoryKept, TxInv', PushPacket, UNCHANGED <<sent, pktMultiDesc>>
    PROVE  PacketsUnderWay'
<1> DEFINE e == getReadyEthPacket
           p == engine[e].pkt
           f == push(txFifo, p)
           n == cache.nextSeqToProcess
<1>1. /\ ReadyEngines # {} /\ txWire(f, TRUE)
      /\ engine' = [engine EXCEPT ![e].pkt = NULL, ![e].pktDone = FALSE]
  BY Zenon DEF PushPacket
<1>2. e \in ReadyEngines
  BY <1>1, ReadyFound
<1> HIDE DEF e
<1>3. e \in PktEngines /\ engine[e].pktDone /\ p # NULL
  BY <1>2 DEF ReadyEngines
<1>4. /\ p \in Frame /\ p.len \in 1 .. FifoMax /\ p.len <= txFifo.reserved
      /\ pushSucceeds(txFifo, p)
  BY <1>3, PushFits
<1>5. FifoSum(txFifo) /\ sent \in Seq(Frame) /\ link \in Frame \cup {NULL}
      /\ txFifo.fifo \in Seq(Frame) /\ engine \in EngineType
  BY DEF TxInv, FifoOK, FifoSum, FifoType, CountersOK
<1>6. FifoSum(f) /\ f.fifo = Append(txFifo.fifo, p)
  BY <1>4, <1>5, PushSums DEF push
<1> HIDE DEF f
<1>7. Out' = Append(Out, p)
  <2>1. Out' = Wire(sent, link, f.fifo)
    BY <1>1, <1>5, <1>6, WireSame
  <2>2. Wire(sent, link, Append(txFifo.fifo, p)) = Append(Wire(sent, link, txFifo.fifo), p)
    BY <1>4, <1>5, WirePush
  <2> QED
    BY <1>6, <2>1, <2>2 DEF Out
<1>8. /\ engine'[e] = [pkt |-> NULL, ev |-> engine[e].ev, pktDone |-> FALSE]
      /\ \A h \in PktEngines : h # e => engine'[h] = engine[h]
  BY <1>1, <1>3, <1>5 DEF EngineType
<1>9. WholePacket(p) /\ p.intact
  <2>1. engine[e].ev = "idle"
    BY <1>3 DEF TxInv, EnginesRead
  <2>2. EngineOK(e)
    BY <1>3 DEF PacketsUnderWay
  <2> QED
    BY <1>3, <2>1, <2>2 DEF EngineOK
<1> HIDE DEF p
<1>10. /\ Out \in Seq(Frame) /\ Len(Out) \in Nat
       /\ OutNums \in Seq(Nat) /\ Len(OutNums) = Len(Out)
       /\ \A i \in 1 .. Len(Out) : OutNums[i] = Out[i].buf[1] /\ Out[i] \in Frame
       /\ ReadNums \in [PktEngines -> Nat]
       /\ ReadNums[e] # 0 /\ ReadNums[e] = p.buf[1]
  BY <1>3, PacketTypes DEF p, PacketsTyped
<1>11. /\ OutNums' \in Seq(Nat) /\ Len(OutNums') = Len(Out')
       /\ \A i \in 1 .. Len(Out') : OutNums'[i] = Out'[i].buf[1]
       /\ ReadNums' \in [PktEngines -> Nat]
  BY PacketTypesNext DEF PacketsTyped
<1>12. /\ Len(Out') = Len(Out) + 1 /\ Out'[Len(Out) + 1] = p
       /\ \A i \in 1 .. Len(Out) : Out'[i] = Out[i]
  BY <1>4, <1>7, <1>10
<1>13. /\ Len(OutNums') = Len(OutNums) + 1 /\ OutNums'[Len(OutNums) + 1] = ReadNums[e]
       /\ \A i \in 1 .. Len(OutNums) : OutNums'[i] = OutNums[i]
  <2> DEFINE l == Len(Out)
  <2>1. /\ l \in Nat /\ Len(Out') = l + 1 /\ Len(OutNums) = l /\ Len(OutNums') = l + 1
        /\ \A i \in 1 .. l + 1 : OutNums'[i] = Out'[i].buf[1]
        /\ \A i \in 1 .. l : OutNums[i] = Out[i].buf[1] /\ Out'[i] = Out[i]
        /\ Out'[l + 1] = p
    BY <1>10, <1>11, <1>12
  <2> HIDE DEF l
  <2>2. l + 1 \in 1 .. l + 1 /\ \A i \in 1 .. l : i \in 1 .. l + 1
    BY <2>1
  <2> QED
    BY <1>10, <2>1, <2>2
<1>14. ReadNums'[e] = 0 /\ \A h \in PktEngines \ {e} : ReadNums'[h] = ReadNums[h]
  <2>1. engine'[e].pkt = NULL
    BY <1>8
  <2> QED
    BY <1>3, <1>8, <2>1 DEF ReadNums
<1>15. n \in Nat /\ cache'.nextSeqToProcess = n /\ LineOK(n, OutNums, ReadNums)
  BY ProcessingFacts DEF TxInv, StoryKept, PacketsUnderWay
<1> HIDE DEF n
<1>16. LineOK(n, OutNums', ReadNums')
  BY <1>3, <1>10, <1>11, <1>13, <1>14, <1>15, LinePush
<1>17. \A i \in 1 .. Len(Out') : WholePacket(Out'[i]) /\ Out'[i].intact
  <2>1. \A i \in 1 .. Len(Out) : WholePacket(Out[i]) /\ Out[i].intact
    BY DEF PacketsUnderWay
  <2>2. \A i \in 1 .. Len(Out) + 1 : i \in 1 .. Len(Out) \/ i = Len(Out) + 1
    BY <1>10
  <2> QED
    BY <1>9, <1>12, <2>1, <2>2
<1>18. \A h \in PktEngines : EngineOK(h)'
  <2> SUFFICES ASSUME NEW h \in PktEngines PROVE EngineOK(h)'
    OBVIOUS
  <2>1. CASE h = e
    BY <1>8, <2>1 DEF EngineOK
  <2>2. CASE h # e
    <3>1. EngineOK(h) /\ engine'[h] = engine[h] /\ cache'.processing = cache.processing
      BY <1>8, <2>2 DEF PacketsUnderWay, StoryKept
    <3> QED
      BY <3>1 DEF EngineOK
  <2> QED
    BY <2>1, <2>2
<1> QED
  BY <1>15, <1>16, <1>17, <1>18 DEF PacketsUnderWay

(* An engine takes a packet.  It was free, so that fewer packets than there*)
(* are engines are in process, and every packet in an engine is. *)
LEMMA TakePackets ==
    ASSUME TxInv, DriverInRing, NEW A, NEW g \in Nat, RingInv(A, g), PacketsUnderWay, TxInv',
           ReadyEngines = {}, FreeEngines # {}, getPacketDataGlobal(cache),
           UNCHANGED <<sent, pktMultiDesc, ring, txq, submitted>>
    PROVE  DriverInRing' /\ RingInv(A, g)' /\ PacketsUnderWay'
<1> DEFINE e == Lowest(FreeEngines)
           d == Head(cache.unused)
           p == [buf |-> d.buf, len |-> d.len, last |-> d.eop, intact |-> FALSE]
           f == reserve(txFifo, getPacketSize(cache))
           n == cache.nextSeqToProcess
           w == cache.nextSeqToWriteback
           k == descProcessing(cache)
<1>1. /\ getPacketSize(cache) > 0 /\ cache' = TakeDesc(cache, e)
      /\ engine' = [engine EXCEPT ![e].ev = "dma", ![e].pkt = p]
      /\ txWire(f, txFifoTick)
  BY Zenon DEF getPacketDataGlobal
<1>2. e \in FreeEngines
  BY LowestFound DEF FreeEngines
<1> HIDE DEF e
<1>3. /\ e \in PktEngines /\ engine[e].ev = "idle" /\ ~ engine[e].pktDone
      /\ cache.processing[e].desc = NULL
  BY <1>2 DEF FreeEngines
<1>4. engine \in EngineType /\ engine[e].pkt = NULL
  BY <1>3 DEF TxInv, EnginesRead
<1>5. cache.unused # <<>>
  BY <1>1 DEF getPacketSize
<1>6. /\ DriverInRing' /\ RingInv(A, g)'
      /\ cache'.nextSeqToProcess = n + 1
      /\ cache'.processing[e].seqIdx = n
      /\ \A h \in PktEngines : h # e => cache'.processing[h] = cache.processing[h]
      /\ d \in ArmedDesc(n)
  BY <1>1, <1>3, <1>5, TakeRing
<1>7. /\ CacheInv(TxDescs, cache) /\ n \in Nat /\ w \in Nat /\ k \in Nat /\ n = w + k
  BY ProcessingFacts DEF TxInv
<1>8. d.buf = <<n + 1, 1>> /\ d.eop = TRUE
  BY <1>6 DEF ArmedDesc
<1> HIDE DEF d, n, w
<1>9. /\ engine'[e] = [pkt |-> p, ev |-> "dma", pktDone |-> engine[e].pktDone]
      /\ \A h \in PktEngines : h # e => engine'[h] = engine[h]
  BY <1>1, <1>3, <1>4 DEF EngineType
<1>10. engine'[e].pkt = p /\ engine'[e].ev = "dma" /\ WholePacket(p) /\ p.buf[1] = n + 1
  BY <1>8, <1>9 DEF WholePacket
<1> HIDE DEF p
<1>11. Out' = Out
  <2>1. FifoSum(txFifo) /\ txFifo \in FifoType(Frame) /\ sent \in Seq(Frame)
    BY DEF TxInv, FifoOK, FifoSum, CountersOK
  <2> DEFINE z == getPacketSize(cache)
  <2> HIDE DEF z
  <2>2. f.fifo = txFifo.fifo
    BY <2>1 DEF reserve, FifoType, z
  <2>3. FifoSum(f)
    <3>1. z \in Nat
      <4>1. d \in TxDescs
        BY <1>5, <1>7, CacheFacts, HeadTailProperties DEF d
      <4>2. d.len \in Nat
        <5> DEFINE l == d.len
        <5>1. l \in SegLens \/ l = 0
          BY <4>1 DEF TxDescs, Desc
        <5>2. \A x \in SegLens : x \in Nat
          BY TxAssumption
        <5> HIDE DEF l
        <5>3. l \in Nat
          BY <5>1, <5>2
        <5> QED
          BY <5>3 DEF l
      <4> QED
        BY <4>2 DEF z, getPacketSize, d
    <3>2. f = [fifo |-> txFifo.fifo, size |-> txFifo.size, reserved |-> txFifo.reserved + z]
      BY <2>1 DEF reserve, FifoType, z
    <3>3. LensOf(f) = LensOf(txFifo)
      BY <2>2 DEF LensOf
    <3>4. /\ txFifo.fifo \in Seq(Frame) /\ txFifo.size \in Nat /\ txFifo.reserved \in Nat
      BY <2>1 DEF FifoType
    <3>5. txFifo.reserved + z \in Nat
      BY <3>1, <3>4
    <3> HIDE DEF f
    <3>6. f \in FifoType(Frame) /\ f.size = txFifo.size
      BY <3>2, <3>4, <3>5 DEF FifoType
    <3> QED
      BY <2>1, <2>2, <3>3, <3>6 DEF FifoSum
  <2> HIDE DEF f
  <2> QED
    BY <1>1, <2>1, <2>2, <2>3, WireSame DEF Out
<1>12. /\ OutNums \in Seq(Nat) /\ ReadNums \in [PktEngines -> Nat]
       /\ ReadNums' \in [PktEngines -> Nat] /\ OutNums' = OutNums
       /\ ReadNums[e] = 0 /\ ReadNums'[e] = n + 1
       /\ \A h \in PktEngines \ {e} : ReadNums'[h] = ReadNums[h]
  <2>1. /\ OutNums \in Seq(Nat) /\ ReadNums \in [PktEngines -> Nat] /\ ReadNums[e] = 0
    BY <1>3, <1>4, PacketTypes DEF PacketsTyped
  <2>2. /\ ReadNums' \in [PktEngines -> Nat]
        /\ engine'[e].pkt # NULL => ReadNums'[e] = engine'[e].pkt.buf[1]
    BY <1>3, PacketTypesNext DEF PacketsTyped
  <2>3. OutNums' = OutNums
    BY <1>11 DEF OutNums
  <2>4. \A h \in PktEngines \ {e} : ReadNums'[h] = ReadNums[h]
    BY <1>9 DEF ReadNums
  <2>5. engine'[e].pkt # NULL
    <3>1. EnginesRead'
      BY DEF TxInv
    <3> QED
      BY <1>3, <1>10, <3>1 DEF EnginesRead
  <2> QED
    BY <1>10, <2>1, <2>2, <2>3, <2>4, <2>5
<1>13. k <= NumDMAEngines - 1
  <2> DEFINE S == {h \in PktEngines : cache.processing[h].desc # NULL}
             R == PktEngines \ {e}
  <2>1. S \in SUBSET R
    BY <1>3
  <2>2. IsFiniteSet(PktEngines) /\ Cardinality(PktEngines) = NumDMAEngines
    <3> DEFINE M == NumDMAEngines - 1
    <3>1. /\ IsFiniteSet(0 .. M)
          /\ Cardinality(0 .. M) = IF 0 > M THEN 0 ELSE M - 0 + 1
      BY NumDMAEnginesAssumption, FS_Interval
    <3> QED
      BY <3>1, NumDMAEnginesAssumption DEF PktEngines
  <2>3. IsFiniteSet(R) /\ Cardinality(R) = NumDMAEngines - 1
    BY <1>3, <2>2, FS_RemoveElement
  <2>4. Cardinality(S) <= Cardinality(R)
    BY <2>1, <2>3, FS_Subset
  <2>5. k = Cardinality(S)
    BY DEF descProcessing
  <2> QED
    BY <2>3, <2>4, <2>5
<1>14. ASSUME NEW h \in PktEngines, ReadNums[h] # 0
       PROVE  n + 1 < ReadNums[h] + NumDMAEngines
  <2>1. engine[h].pkt # NULL /\ ReadNums[h] = engine[h].pkt.buf[1]
    BY <1>14, PacketTypes DEF PacketsTyped
  <2>2. engine[h].ev # "idle"
    <3>1. ~ pktMultiDesc /\ ~ engine[h].pktDone
      BY <2>1 DEF PacketsUnderWay, ReadyEngines
    <3> QED
      BY <2>1, <3>1 DEF TxInv, EnginesRead
  <2>3. ReadNums[h] = cache.processing[h].seqIdx + 1
    BY <2>1, <2>2 DEF PacketsUnderWay, EngineOK
  <2>4. cache.processing[h].desc # NULL
    BY <2>2 DEF TxInv, EnginesRead
  <2>5. w <= cache.processing[h].seqIdx /\ cache.processing[h].seqIdx \in Nat
    BY <1>7, <2>4, ProcessingFacts DEF CacheInv, ProcessingInOrder, w
  <2> DEFINE s == cache.processing[h].seqIdx
  <2> HIDE DEF s, k
  <2>6. n + 1 < (s + 1) + NumDMAEngines
    BY <1>7, <1>13, <2>5, NumDMAEnginesAssumption DEF s
  <2> QED
    BY <2>3, <2>6 DEF s
<1>15. LineOK(n, OutNums, ReadNums)
  BY DEF PacketsUnderWay, n
<1>16. LineOK(n + 1, OutNums', ReadNums')
  <2> HIDE DEF k
  <2> QED
    BY <1>3, <1>7, <1>12, <1>14, <1>15, LineTake
<1>17. \A h \in PktEngines : EngineOK(h)'
  <2> SUFFICES ASSUME NEW h \in PktEngines PROVE EngineOK(h)'
    OBVIOUS
  <2>1. CASE h = e
    BY <1>6, <1>10, <2>1 DEF EngineOK
  <2>2. CASE h # e
    <3>1. EngineOK(h) /\ engine'[h] = engine[h] /\ cache'.processing[h] = cache.processing[h]
      BY <1>6, <1>9, <2>2 DEF PacketsUnderWay
    <3> QED
      BY <3>1 DEF EngineOK
  <2> QED
    BY <2>1, <2>2
<1>18. PacketsUnderWay'
  BY <1>6, <1>11, <1>16, <1>17 DEF PacketsUnderWay
<1> QED
  BY <1>6, <1>18

LEMMA TickPackets ==
    ASSUME TxInv, DriverInRing, NEW A, NEW g \in Nat, RingInv(A, g), PacketsUnderWay, TxInv',
           tick
    PROVE  DriverInRing' /\ RingInv(A, g)' /\ PacketsUnderWay'
<1>1. UNCHANGED <<pktMultiDesc, ring, txq, submitted, sent>>
  BY DEF tick
<1>2. FifoSum(txFifo) /\ sent \in Seq(Frame)
  BY DEF TxInv, FifoOK, CountersOK
<1>3. CASE PushPacket
  <2>1. cache' = writebackGlobal(cache, BlockMask)
    BY <1>3, Zenon DEF PushPacket
  <2>2. DriverInRing' /\ RingInv(A, g)' /\ StoryKept
    BY <1>1, <2>1, TickRing
  <2> QED
    BY <1>1, <1>3, <2>2, PushPackets
<1>4. ASSUME \/ cache' = cache
             \/ \E m \in {0, BlockMask} : cache' = writebackGlobal(cache, m)
             \/ cache' = fetchDescriptorsGlobal(cache)
             \/ cache' = fetchDescriptorsGlobal(writebackGlobal(cache, 0)),
             UNCHANGED engine, txWire(txFifo, txFifoTick)
      PROVE  DriverInRing' /\ RingInv(A, g)' /\ PacketsUnderWay'
  <2>1. DriverInRing' /\ RingInv(A, g)' /\ StoryKept
    BY <1>1, <1>4, TickRing
  <2>2. Out' = Out
    BY <1>1, <1>2, <1>4, WireSame DEF Out
  <2> QED
    BY <1>1, <1>4, <2>1, <2>2, PacketsSame
<1>5. CASE txWire(txFifo, txFifoTick) /\ UNCHANGED <<cache, engine>>
  BY <1>4, <1>5
<1>6. CASE NoDescriptor
  BY <1>4, <1>6, Zenon DEF NoDescriptor
<1>7. CASE /\ ReadyEngines = {} /\ FreeEngines # {}
           /\ LET q == processContextDesc(cache) IN getPacketDataGlobal(q) \/ NothingToRead(q)
  <2>1. getPacketDataGlobal(cache) \/ NothingToRead(cache)
    BY <1>7, NoContext
  <2>2. CASE getPacketDataGlobal(cache)
    BY <1>1, <1>7, <2>2, TakePackets
  <2>3. CASE NothingToRead(cache)
    BY <1>4, <2>3, Zenon DEF NothingToRead
  <2> QED
    BY <2>1, <2>2, <2>3
<1> QED
  BY <1>3, <1>5, <1>6, <1>7, Zenon DEF tick

(* The packet's buffer is read while the driver holds it. *)
LEMMA PacketDmaPackets ==
    ASSUME TxInv, DriverInRing, NEW A, NEW g \in Nat, RingInv(A, g), PacketsUnderWay,
           NEW e \in PktEngines, PacketDma(e)
    PROVE  DriverInRing' /\ RingInv(A, g)' /\ PacketsUnderWay'
<1> DEFINE p == engine[e].pkt
           s == cache.processing[e].seqIdx
<1>1. /\ engine[e].ev = "dma"
      /\ engine' = [engine EXCEPT ![e].ev = "event", ![e].pkt.intact = Held(p.buf)]
      /\ UNCHANGED <<cache, pktMultiDesc, txFifo, link, ring, txq, submitted, sent>>
  BY Zenon DEF PacketDma
<1>2. engine \in EngineType
  BY DEF TxInv
<1>3. p \in Frame /\ p # NULL /\ cache.processing[e].desc # NULL
  BY <1>1, EngineFacts
<1>4. WholePacket(p) /\ p.buf[1] = s + 1
  BY <1>1, <1>3 DEF PacketsUnderWay, EngineOK
<1>5. s \in Cleaned .. submitted - 1 /\ s \in Nat
  <2> DEFINE w == cache.nextSeqToWriteback
             n == cache.nextSeqToProcess
             c == CacheSeq(cache)
             f == FetchSeq(cache)
             C == Cleaned
             N == submitted
  <2>1. /\ C \in Nat /\ N \in Nat /\ w \in Nat /\ n \in Nat /\ c \in Nat /\ f \in Nat
        /\ C <= w /\ w <= n /\ n <= c /\ c <= f /\ f <= g /\ g <= N
    BY TxNumbers
  <2>2. w <= s /\ s < n /\ s \in Nat
    BY <1>3, ProcessingFacts DEF TxInv, CacheInv, ProcessingInOrder
  <2> HIDE DEF w, n, c, f, C, N, s
  <2>3. s \in C .. N - 1
    BY <2>1, <2>2
  <2> QED
    BY <2>2, <2>3 DEF C, N
<1>6. Held(p.buf)
  <2>1. txq.sw_ring[s % DescLen] = <<s + 1, 1>>
    BY <1>5 DEF DriverInRing, BuffersHeld
  <2>2. p.buf = <<s + 1, 1>>
    BY <1>3, <1>4, FrameNumber
  <2>3. s % DescLen \in Slots
    BY <1>5, ModInSlots
  <2> QED
    BY <2>1, <2>2, <2>3 DEF Held
<1> HIDE DEF s
<1>7. /\ engine'[e].ev = "event" /\ engine'[e].pkt = [p EXCEPT !.intact = TRUE]
      /\ \A h \in PktEngines : h # e => engine'[h] = engine[h]
  <2>1. Held(p.buf) = TRUE
    BY <1>6 DEF Held
  <2> HIDE DEF p
  <2>2. engine' = [engine EXCEPT ![e].ev = "event", ![e].pkt.intact = TRUE]
    BY <1>1, <2>1
  <2> QED
    BY <1>2, <2>2 DEF EngineType, p
<1>8. /\ engine'[e].pkt # NULL /\ WholePacket(engine'[e].pkt) /\ engine'[e].pkt.intact
      /\ engine'[e].pkt.buf = p.buf
  <2> HIDE DEF p
  <2>1. /\ engine'[e].pkt.intact = TRUE /\ engine'[e].pkt.buf = p.buf
        /\ engine'[e].pkt.last = p.last /\ engine'[e].pkt \in Frame
    BY <1>3, <1>7 DEF Frame
  <2> QED
    BY <1>4, <2>1, FrameNumber DEF WholePacket
<1>9. StoryKept /\ Out' = Out /\ OutNums' = OutNums
  BY <1>1 DEF StoryKept, Out, OutNums
<1>10. ReadNums' = ReadNums
  BY <1>3, <1>7, <1>8 DEF ReadNums
<1>11. \A h \in PktEngines : EngineOK(h)'
  <2> SUFFICES ASSUME NEW h \in PktEngines PROVE EngineOK(h)'
    OBVIOUS
  <2>1. CASE h = e
    BY <1>1, <1>4, <1>8, <2>1 DEF EngineOK, s
  <2>2. CASE h # e
    <3>1. EngineOK(h) /\ engine'[h] = engine[h] /\ cache' = cache
      BY <1>1, <1>7, <2>2 DEF PacketsUnderWay
    <3> QED
      BY <3>1 DEF EngineOK
  <2> QED
    BY <2>1, <2>2
<1>12. PacketsUnderWay'
  BY <1>1, <1>9, <1>10, <1>11 DEF PacketsUnderWay
<1>13. DriverInRing' /\ RingInv(A, g)'
  BY <1>1, TickRing
<1> QED
  BY <1>12, <1>13

LEMMA DonePackets ==
    ASSUME TxInv, DriverInRing, NEW A, NEW g \in Nat, RingInv(A, g), PacketsUnderWay,
           NEW e \in PktEngines, onDMAComplete(e)
    PROVE  DriverInRing' /\ RingInv(A, g)' /\ PacketsUnderWay'
<1>1. /\ DriverInRing' /\ RingInv(A, g)' /\ ~ pktMultiDesc'
      /\ cache'.nextSeqToProcess = cache.nextSeqToProcess
      /\ \A f \in PktEngines : f # e /\ ~ cache.processing[f].done =>
            cache'.processing[f] = cache.processing[f]
  BY DoneRing
<1>2. /\ engine[e].ev = "event" /\ engine' = [engine EXCEPT ![e].ev = "idle", ![e].pktDone = TRUE]
      /\ UNCHANGED <<txFifo, link, sent>>
  BY Zenon DEF onDMAComplete
<1>3. engine \in EngineType
  BY DEF TxInv
<1>4. /\ engine'[e].ev = "idle" /\ engine'[e].pkt = engine[e].pkt
      /\ \A h \in PktEngines : h # e => engine'[h] = engine[h]
  BY <1>2, <1>3 DEF EngineType
<1>5. Out' = Out /\ OutNums' = OutNums
  BY <1>2 DEF Out, OutNums
<1>6. ReadNums' = ReadNums
  BY <1>4 DEF ReadNums
<1>7. \A h \in PktEngines : EngineOK(h)'
  <2> SUFFICES ASSUME NEW h \in PktEngines PROVE EngineOK(h)'
    OBVIOUS
  <2>1. EngineOK(h)
    BY DEF PacketsUnderWay
  <2>2. CASE h = e
    BY <1>2, <1>4, <2>1, <2>2 DEF EngineOK
  <2>3. CASE h # e
    <3>1. engine[h].ev # "idle" => cache'.processing[h] = cache.processing[h]
      BY <1>1, <2>3, EngineFacts
    <3>2. engine'[h] = engine[h]
      BY <1>4, <2>3
    <3> QED
      BY <2>1, <3>1, <3>2 DEF EngineOK
  <2> QED
    BY <2>2, <2>3
<1>8. PacketsUnderWay'
  BY <1>1, <1>5, <1>6, <1>7 DEF PacketsUnderWay
<1> QED
  BY <1>1, <1>8

(* The link's packet leaves. *)
LEMMA LeavePackets ==
    ASSUME TxInv, DriverInRing, NEW A, NEW g \in Nat, RingInv(A, g), PacketsUnderWay,
           ethTxDone
    PROVE  DriverInRing' /\ RingInv(A, g)' /\ PacketsUnderWay' /\ Out' = Out
<1>1. /\ link # NULL /\ sent' = Append(sent, link) /\ link' = NULL
      /\ UNCHANGED <<cache, engine, pktMultiDesc, txFifo, ring, txq, submitted>>
  BY DEF ethTxDone
<1>2. link \in Frame /\ sent \in Seq(Frame) /\ txFifo.fifo \in Seq(Frame)
  BY <1>1 DEF TxInv, FifoOK, FifoSum, FifoType, CountersOK
<1>3. Out' = Out
  BY <1>1, <1>2, WireDone DEF Out
<1>4. DriverInRing' /\ RingInv(A, g)' /\ StoryKept
  BY <1>1, TickRing
<1> QED
  BY <1>1, <1>3, <1>4, PacketsSame

-----------------------------------------------------------------------------
(* All together. *)
TxRingInv ==
    /\ DriverInRing /\ PacketsUnderWay
    /\ \E A : \E g \in Nat : RingInv(A, g)

LEMMA InitTxRing == Init => TxRingInv
<1> SUFFICES ASSUME Init PROVE TxRingInv
  OBVIOUS
<1> DEFINE r == [EmptyCache EXCEPT !.tail = DescLen - 1]
           A == [b \in Nat |-> [ctx |-> FALSE, buf |-> <<b + 1, 1>>, len |-> 0, eop |-> TRUE,
                                rs |-> FALSE, dd |-> FALSE]]
<1>1. /\ engine = [e \in PktEngines |-> IdleEngine] /\ pktMultiDesc = FALSE
      /\ txFifo = EmptyFifo /\ link = NULL /\ txq = NewTxq /\ submitted = 0 /\ sent = <<>>
      /\ cache = EmptyCache
  BY Zenon DEF Init
<1>2. DescLen - 1 \in Slots /\ DescLen \in Nat \ {0} /\ 0 \in Slots
  BY DescLenAssumption DEF Slots
<1>3. 0 % DescLen = 0 /\ ((DescLen - 1) + 1) % DescLen = 0
  BY <1>2
<1>4. CacheInv(TxDescs, r)
  BY <1>2, EmptyCacheInv, TailKeeps
<1>5. /\ Ordered(r, A, SentOf(A), DescLen - 1)
      /\ r.nextSeqToProcess = 0 /\ r.nextSeqToWriteback = 0
      /\ r.processing = [e \in PktEngines |-> NoEntry]
      /\ \A b \in Nat : ~ Written(r, b)
  BY EmptyCacheOrder
<1>6. FetchSeq(r) = 0 /\ cache = [r EXCEPT !.tail = 0]
  <2>1. r.unused = <<>> /\ r.fetch.ing = 0
    BY DEF EmptyCache, NoJobs
  <2>2. FetchSeq(r) = 0
    <3> HIDE DEF r
    <3> QED
      BY <1>5, <2>1 DEF FetchSeq, CacheSeq
  <2>3. EmptyCache \in CacheType(TxDescs) /\ EmptyCache.tail = 0
    BY EmptyCacheInv DEF CacheInv, EmptyCache
  <2>4. ASSUME NEW E \in CacheType(TxDescs), E.tail = 0
        PROVE  [[E EXCEPT !.tail = DescLen - 1] EXCEPT !.tail = 0] = E
    BY <2>4 DEF CacheType
  <2>5. [r EXCEPT !.tail = 0] = EmptyCache
    BY <2>3, <2>4
  <2> QED
    BY <1>1, <2>2, <2>5
<1> HIDE DEF r, A
<1>7. Ordered(cache, A, SentOf(A), 0) /\ SameStory(r, cache)
  <2>1. CacheInOrder(r, A, SentOf(A))
    BY <1>5 DEF Ordered
  <2>2. 0 \in Nat /\ FetchSeq(r) <= 0 /\ 0 < r.nextSeqToWriteback + DescLen
    BY <1>2, <1>5, <1>6
  <2> QED
    BY <1>3, <1>4, <1>6, <2>1, <2>2, TailOrder
<1>8. AllArmed(A)
  BY DEF AllArmed, ArmedDesc, A
<1>9. InUse(txq) = 0 /\ Cleaned = 0
  BY <1>1, <1>2 DEF NewTxq, InUse, Cleaned
<1>10. DriverInRing
  <2>1. SlotsNumbered
    BY <1>1, <1>2, <1>3, <1>9 DEF SlotsNumbered, NewTxq
  <2>2. \A s \in Slots : txq.sw_ring[s] = NULL
    BY <1>1 DEF NewTxq
  <2>3. Cleaned .. submitted - 1 = {}
    BY <1>1, <1>9
  <2> QED
    BY <2>1, <2>2, <2>3 DEF DriverInRing, BuffersHeld
<1>11. RingInv(A, 0)
  <2>1. Cleaned .. submitted - 1 = {} /\ 0 .. Cleaned - 1 = {}
    BY <1>1, <1>9
  <2>2. RingHolds(A)
    BY <2>1 DEF RingHolds
  <2>3. CardInRing(A, 0)
    BY <1>1, <1>7 DEF CardInRing
  <2> QED
    BY <1>8, <2>2, <2>3 DEF RingInv
<1>12. PacketsUnderWay
  <2>1. Len(Out) = 0
    <3>1. Out = (<<>> \o <<>>) \o <<>>
      BY <1>1 DEF Out, Wire, EmptyFifo
    <3> QED
      BY <3>1
  <2>2. \A e \in PktEngines : engine[e].pkt = NULL
    BY <1>1 DEF IdleEngine
  <2>3. ReadNums = [e \in PktEngines |-> 0]
    BY <2>2 DEF ReadNums
  <2>4. OutNums = <<>> /\ Len(OutNums) = 0
    BY <2>1 DEF OutNums
  <2>5. cache.nextSeqToProcess = 0
    BY <1>1 DEF EmptyCache
  <2>6. LineOK(0, OutNums, ReadNums)
    BY <2>3, <2>4 DEF LineOK, OutOK, HeldOK, NoneLost
  <2>7. 1 .. Len(Out) = {}
    BY <2>1
  <2> QED
    BY <1>1, <2>2, <2>5, <2>6, <2>7 DEF PacketsUnderWay, EngineOK
<1> QED
  BY <1>10, <1>11, <1>12 DEF TxRingInv

(* A step of the driver or of a descriptor engine. *)
LEMMA RingStepPackets ==
    ASSUME PacketsUnderWay, StoryKept, UNCHANGED <<restOfCard, sent>>
    PROVE  PacketsUnderWay'
<1>1. Out' = Out /\ engine' = engine /\ pktMultiDesc' = pktMultiDesc
  BY DEF Out, restOfCard
<1> QED
  BY <1>1, PacketsSame

LEMMA NextTxRing ==
    ASSUME ThresholdsFit, OnePerPacket, StatusInOrder, TxInv, TxRingInv, [Next]_vars
    PROVE  TxRingInv'
<1>1. DriverInRing /\ PacketsUnderWay /\ TxInv'
  BY NextTxInv DEF TxRingInv
<1>2. PICK A : \E g \in Nat : RingInv(A, g)
  BY DEF TxRingInv
<1>3. PICK g \in Nat : RingInv(A, g)
  BY <1>2
<1>4. ASSUME DriverInRing' /\ RingInv(A, g)' /\ PacketsUnderWay'
      PROVE  TxRingInv'
  BY <1>4 DEF TxRingInv
<1>5. ASSUME DriverInRing' /\ RingInv(A, g)' /\ StoryKept, UNCHANGED <<restOfCard, sent>>
      PROVE  TxRingInv'
  BY <1>1, <1>4, <1>5, RingStepPackets
<1>6. CASE em_xmit_cleanup
  <2>1. DriverInRing' /\ RingInv(A, g)' /\ StoryKept
    BY <1>1, <1>3, <1>6, CleanupRing
  <2>2. UNCHANGED <<restOfCard, sent>>
    BY <1>6, Zenon DEF em_xmit_cleanup, restOfCard
  <2> QED
    BY <1>5, <2>1, <2>2
<1>7. CASE WriteTDT
  <2>1. DriverInRing' /\ RingInv(A, submitted)' /\ StoryKept
    BY <1>1, <1>3, <1>7, WriteTDTRing
  <2>2. UNCHANGED <<restOfCard, sent>>
    BY <1>7, Zenon DEF WriteTDT, restOfCard
  <2>3. PacketsUnderWay'
    BY <1>1, <2>1, <2>2, RingStepPackets
  <2>4. submitted' \in Nat
    BY <1>1, TxAssumption DEF TxInv, CountersOK
  <2> QED
    BY <2>1, <2>3, <2>4 DEF TxRingInv
<1>8. CASE \E n \in Segs, len \in SegLens, c \in Offload : eth_em_xmit_pkts(n, len, c)
  <2>0. PICK n \in Segs, len \in SegLens, c \in Offload : eth_em_xmit_pkts(n, len, c)
    BY <1>8
  <2>1. DriverInRing' /\ (\E B : RingInv(B, g)') /\ StoryKept
    BY <1>1, <1>3, <2>0, XmitRing
  <2>2. UNCHANGED <<restOfCard, sent>>
    BY <2>0, Zenon DEF eth_em_xmit_pkts, QueuePacketUnchecked, restOfCard
  <2>3. PacketsUnderWay'
    BY <1>1, <2>1, <2>2, RingStepPackets
  <2> QED
    BY <1>3, <2>1, <2>3, Zenon DEF TxRingInv
<1>9. CASE tick
  BY <1>1, <1>3, <1>4, <1>9, TickPackets
<1>10. CASE ethTxDone
  BY <1>1, <1>3, <1>4, <1>10, LeavePackets
<1>11. CASE drain \/ drainResume \/ UNCHANGED vars
  <2>1. UNCHANGED <<cache, ring, txq, submitted>> /\ UNCHANGED <<restOfCard, sent>>
    BY <1>11, Zenon DEF drain, drainResume, vars, restOfCard
  <2>2. DriverInRing' /\ RingInv(A, g)' /\ StoryKept
    BY <1>1, <1>3, <2>1, TickRing
  <2> QED
    BY <1>5, <2>1, <2>2
<1>12. CASE \E e \in PktEngines : PacketDma(e) \/ onDMAComplete(e)
  BY <1>1, <1>3, <1>4, <1>12, PacketDmaPackets, DonePackets
<1>13. CASE \E e \in DescEngines : fetchRegister1(e) \/ FetchDma(e) \/ fetchComplete(e)
  <2>0. PICK e \in DescEngines : fetchRegister1(e) \/ FetchDma(e) \/ fetchComplete(e)
    BY <1>13
  <2>1. DriverInRing' /\ RingInv(A, g)' /\ StoryKept
    BY <1>1, <1>3, <2>0, RegisterRing, FetchDmaRing, FetchCompleteRing
  <2>2. UNCHANGED <<restOfCard, sent>>
    BY <2>0, Zenon DEF fetchRegister1, FetchDma, fetchComplete
  <2> QED
    BY <1>5, <2>1, <2>2
<1>14. CASE \E e \in DescEngines : writebackRegister1(e) \/ WritebackDma(e) \/ writebackComplete(e)
  <2>0. PICK e \in DescEngines : writebackRegister1(e) \/ WritebackDma(e) \/ writebackComplete(e)
    BY <1>14
  <2>1. DriverInRing' /\ RingInv(A, g)' /\ StoryKept
    BY <1>1, <1>3, <2>0, RegisterRing, WritebackDmaRing, WritebackCompleteRing
  <2>2. UNCHANGED <<restOfCard, sent>>
    BY <2>0, Zenon DEF writebackRegister1, WritebackDma, writebackComplete
  <2> QED
    BY <1>5, <2>1, <2>2
<1> QED
  BY <1>6, <1>7, <1>8, <1>9, <1>10, <1>11, <1>12, <1>13, <1>14, Zenon DEF Next

(* The descriptors and the packets of the transmit side keep their numbers:*)
(* the driver's indices and buffers, the ring, what the card holds, what   *)
(* the packet engines read and what is in the FIFO, on the link or gone    *)
(* agree on which packet goes with which descriptor, after every call of   *)
(* the driver, every handler of the card and every answer of memory.       *)
THEOREM TxNumbersAgree ==
    ASSUME ThresholdsFit, OnePerPacket, StatusInOrder
    PROVE  Spec => [](TxInv /\ TxRingInv)
<1>1. Init => TxInv /\ TxRingInv
  BY InitTxInv, InitTxRing
<1>2. (TxInv /\ TxRingInv) /\ [Next]_vars => (TxInv /\ TxRingInv)'
  BY NextTxInv, NextTxRing
<1> QED
  BY <1>1, <1>2, PTL DEF Spec

-----------------------------------------------------------------------------
(* The channel. *)

(* What left is the front of the line, intact. *)
SentInLine ==
    /\ Len(sent) \in Nat /\ Len(sent) <= Len(OutNums)
    /\ OnTheWire = [i \in 1 .. Len(sent) |-> OutNums[i]]

LEMMA SentNumbers ==
    ASSUME TxInv, PacketsUnderWay
    PROVE  SentInLine
<1>1. /\ sent \in Seq(Frame) /\ link \in Frame \cup {NULL} /\ txFifo.fifo \in Seq(Frame)
  BY DEF TxInv, FifoOK, FifoSum, FifoType, CountersOK
<1>2. /\ Len(sent) \in Nat /\ Len(sent) <= Len(Out)
      /\ \A i \in 1 .. Len(sent) : Out[i] = sent[i]
  <2>1. /\ Len(sent) \in Nat /\ Len(sent) <= Len(Wire(sent, link, txFifo.fifo))
        /\ \A i \in 1 .. Len(sent) : Wire(sent, link, txFifo.fifo)[i] = sent[i]
    BY <1>1, WireFront
  <2> QED
    BY <2>1, Zenon DEF Out
<1>3. /\ Len(OutNums) = Len(Out) /\ Len(Out) \in Nat
      /\ \A i \in 1 .. Len(Out) : OutNums[i] = Out[i].buf[1]
  BY PacketTypes DEF PacketsTyped
<1>4. \A i \in 1 .. Len(sent) : i \in 1 .. Len(Out)
  BY <1>2, <1>3
<1>5. \A i \in 1 .. Len(sent) : /\ WholePacket(sent[i]) /\ sent[i].intact
                                /\ sent[i].buf[1] = OutNums[i]
  BY <1>2, <1>3, <1>4, Zenon DEF PacketsUnderWay
<1>6. DOMAIN sent = 1 .. Len(sent)
  BY <1>1
<1>7. OnTheWire = [i \in 1 .. Len(sent) |->
                     IF WholePacket(sent[i]) /\ sent[i].intact THEN sent[i].buf[1] ELSE 0]
  BY <1>6, Zenon DEF OnTheWire
<1>8. OnTheWire = [i \in 1 .. Len(sent) |-> OutNums[i]]
  BY <1>5, <1>7
<1> QED
  BY <1>2, <1>3, <1>8 DEF SentInLine

LEMMA SentNumbersNext == TxInv' /\ PacketsUnderWay' => SentInLine'
<1>1. TxInv /\ PacketsUnderWay => SentInLine
  BY SentNumbers
<1> QED
  BY <1>1, PTL

(* The packet the link has sent is one that the driver queued, it was not  *)
(* sent before, and too few overtake those that are still to come.         *)
LEMMA LeaveStep ==
    ASSUME ThresholdsFit, OnePerPacket, StatusInOrder, TxInv, TxRingInv, ethTxDone
    PROVE  Chan!Leave
<1> DEFINE k == Len(sent)
           m == k + 1
           o == OutNums
           n == cache.nextSeqToProcess
           p == o[m]
<1>1. DriverInRing /\ PacketsUnderWay
  BY DEF TxRingInv
<1>2. PICK A : \E g \in Nat : RingInv(A, g)
  BY DEF TxRingInv
<1>3. PICK g \in Nat : RingInv(A, g)
  BY <1>2
<1>4. /\ link # NULL /\ sent' = Append(sent, link) /\ submitted' = submitted
      /\ sent \in Seq(Frame) /\ link \in Frame /\ txFifo.fifo \in Seq(Frame)
  BY Zenon DEF ethTxDone, TxInv, FifoOK, FifoSum, FifoType, CountersOK
<1>5. Out' = Out /\ PacketsUnderWay'
  BY <1>1, <1>3, LeavePackets
<1>6. TxInv'
  BY NextTxInv DEF Next
<1>7. /\ k \in Nat /\ OnTheWire = [i \in 1 .. k |-> o[i]]
      /\ OnTheWire' = [i \in 1 .. m |-> o[i]]
  <2>1. SentInLine /\ SentInLine'
    BY <1>1, <1>5, <1>6, SentNumbers, SentNumbersNext
  <2>2. OutNums' = OutNums /\ Len(sent') = m
    BY <1>4, <1>5 DEF OutNums
  <2> QED
    BY <2>1, <2>2 DEF SentInLine
<1>8. m \in 1 .. Len(o) /\ o \in Seq(Nat) /\ ReadNums \in [PktEngines -> Nat]
  <2>1. m \in 1 .. Len(Out)
    BY <1>4, WireType DEF Out
  <2> QED
    BY <2>1, PacketTypes DEF PacketsTyped
<1>9. LineOK(n, o, ReadNums) /\ n \in Nat /\ submitted \in Nat /\ n <= submitted
  <2> DEFINE c == CacheSeq(cache)
             f == FetchSeq(cache)
  <2>1. /\ n \in Nat /\ submitted \in Nat /\ c \in Nat /\ f \in Nat
        /\ n <= c /\ c <= f /\ f <= g /\ g <= submitted
    BY <1>1, <1>3, TxNumbers
  <2> HIDE DEF c, f, n
  <2>2. n <= submitted
    BY <2>1
  <2> QED
    BY <1>1, <2>1, <2>2 DEF n, PacketsUnderWay
<1>10. /\ p \in 1 .. n /\ p \in Nat
       /\ \A i \in 1 .. k : o[i] # p
  <2>1. /\ o[m] \in 1 .. n
        /\ \A i \in 1 .. m - 1 : o[i] # o[m]
    BY <1>8, <1>9 DEF LineOK, OutOK
  <2>2. m - 1 = k
    BY <1>7
  <2> QED
    BY <1>9, <2>1, <2>2
<1> DEFINE S == {OnTheWire[i] : i \in 1 .. Len(OnTheWire)}
<1>11. /\ \A r \in S : \E i \in 1 .. k : o[i] = r
       /\ \A i \in 1 .. k : o[i] \in S
       /\ OnTheWire' = Append(OnTheWire, p)
  <2>1. Len(OnTheWire) = k /\ \A i \in 1 .. k : OnTheWire[i] = o[i]
    BY <1>7
  <2>2. OnTheWire' = Append(OnTheWire, p)
    <3>1. \A i \in 1 .. m : i \in Nat
      BY <1>7
    <3> HIDE DEF o
    <3> QED
      BY <1>7
  <2> QED
    BY <2>1, <2>2
<1> HIDE DEF S, k, m, o, n
<1>12. ASSUME NEW q \in (1 .. p - 1) \ S
       PROVE  Cardinality({r \in S \cup {p} : r > q}) <= NumDMAEngines - 1
  <2>1. \A i \in 1 .. m - 1 : o[i] # q
    <3>1. m - 1 = k
      BY <1>7 DEF m
    <3> QED
      BY <1>11, <3>1
  <2>2. \A r \in S \cup {p} : \E i \in 1 .. m : o[i] = r
    <3>1. m \in 1 .. m /\ 1 .. k \subseteq 1 .. m
      BY <1>7 DEF m
    <3> QED
      BY <1>11, <3>1
  <2>3. q \in 1 .. o[m] - 1
    OBVIOUS
  <2> QED
    BY <1>8, <1>9, <2>1, <2>2, <2>3, LineSend
<1>13. p \in (1 .. submitted) \ S
  <2>1. p \in 1 .. submitted
    BY <1>9, <1>10
  <2> QED
    BY <1>10, <1>11, <2>1
<1> HIDE DEF p
<1>14. Chan!Send(p)
  <2>1. Chan!Sent = S
    BY DEF Chan!Sent, S
  <2>2. \A X : Chan!Cardinality(X) = Cardinality(X)
    BY DEF Chan!Cardinality, Cardinality
  <2> QED
    BY <1>4, <1>11, <1>12, <1>13, <2>1, <2>2, Zenon DEF Chan!Send
<1> QED
  BY <1>13, <1>14 DEF Chan!Leave

LEMMA TxChannelStep ==
    ASSUME ThresholdsFit, OnePerPacket, StatusInOrder, TxInv, TxRingInv, [Next]_vars
    PROVE  [Chan!Submit \/ Chan!Leave]_<<submitted, OnTheWire>>
<1>1. CASE ethTxDone
  BY <1>1, LeaveStep
<1>2. CASE \E n \in Segs, len \in SegLens, c \in Offload : eth_em_xmit_pkts(n, len, c)
  <2>0. PICK n \in Segs, len \in SegLens, c \in Offload : eth_em_xmit_pkts(n, len, c)
    BY <1>2
  <2>1. submitted' = submitted + 1 /\ sent' = sent
    BY <2>0, Zenon DEF eth_em_xmit_pkts, QueuePacketUnchecked
  <2>2. OnTheWire' = OnTheWire
    BY <2>1 DEF OnTheWire
  <2> QED
    BY <2>1, <2>2 DEF Chan!Submit
<1>3. ASSUME UNCHANGED <<submitted, sent>>
      PROVE  [Chan!Submit \/ Chan!Leave]_<<submitted, OnTheWire>>
  <2>1. OnTheWire' = OnTheWire
    BY <1>3 DEF OnTheWire
  <2> QED
    BY <1>3, <2>1
<1>4. CASE em_xmit_cleanup \/ WriteTDT
  BY <1>3, <1>4, Zenon DEF em_xmit_cleanup, WriteTDT
<1>5. CASE tick \/ drain \/ drainResume \/ UNCHANGED vars
  BY <1>3, <1>5, Zenon DEF tick, drain, drainResume, vars
<1>6. CASE \E e \in PktEngines : PacketDma(e) \/ onDMAComplete(e)
  BY <1>3, <1>6, Zenon DEF PacketDma, onDMAComplete
<1>7. CASE \E e \in DescEngines : fetchRegister1(e) \/ FetchDma(e) \/ fetchComplete(e)
  BY <1>3, <1>7, Zenon DEF fetchRegister1, FetchDma, fetchComplete
<1>8. CASE \E e \in DescEngines : writebackRegister1(e) \/ WritebackDma(e) \/ writebackComplete(e)
  BY <1>3, <1>8, Zenon DEF writebackRegister1, WritebackDma, writebackComplete
<1> QED
  BY <1>1, <1>2, <1>4, <1>5, <1>6, <1>7, <1>8, Zenon DEF Next

(* Driver, card and link implement the transmit channel: a step queues a   *)
(* packet, or sends one whole and intact that was queued and not sent      *)
(* before, or changes neither; and no packet is overtaken by as many others*)
(* as there are packet engines.  So no packet is sent twice, cut short or  *)
(* read from a buffer the driver has freed, for every size of ring, cache  *)
(* and FIFO and every number of engines, and wherever a drain falls.       *)
THEOREM TxChannelSafe ==
    ASSUME ThresholdsFit, OnePerPacket, StatusInOrder
    PROVE  Spec => TxChannelSafety
<1>1. Init => Chan!Init
  <2> SUFFICES ASSUME Init PROVE Chan!Init
    OBVIOUS
  <2>1. submitted = 0 /\ sent = <<>>
    BY Zenon DEF Init
  <2>2. OnTheWire = <<>>
    BY <2>1 DEF OnTheWire
  <2> QED
    BY <2>1, <2>2 DEF Chan!Init
<1>2. (TxInv /\ TxRingInv) /\ [Next]_vars
         => [Chan!Submit \/ Chan!Leave]_<<submitted, OnTheWire>>
  BY TxChannelStep
<1> QED
  BY <1>1, <1>2, TxNumbersAgree, PTL DEF Spec, TxChannelSafety, Chan!Safety, Chan!chan

-----------------------------------------------------------------------------
(* The ring and what the card holds. *)

(* What the card has cached of the ring and not written back is as the     *)
(* driver filled it in, but for the status. *)
LEMMA InPlace ==
    ASSUME TxInv, DriverInRing, NEW A, NEW g \in Nat, RingInv(A, g),
           NEW b \in Nat, b < CacheSeq(cache), ~ Written(cache, b),
           NEW d \in {A[b], SentOf(A)[b]}
    PROVE  SameButStatus(d, ring[b % DescLen])
<1>1. b \in Cleaned .. submitted - 1
  <2> DEFINE c == CacheSeq(cache)
             f == FetchSeq(cache)
             C == Cleaned
             N == submitted
  <2>1. /\ C \in Nat /\ N \in Nat /\ c \in Nat /\ f \in Nat
        /\ c <= f /\ f <= g /\ g <= N /\ b < c
    BY TxNumbers
  <2>2. ~ (b \in 0 .. C - 1)
    BY DEF RingInv, RingHolds
  <2> HIDE DEF c, f, C, N
  <2>3. b \in C .. N - 1
    BY <2>1, <2>2
  <2> QED
    BY <2>3 DEF C, N
<1>2. ring[b % DescLen] = A[b]
  <2>1. ring[b % DescLen] = IF Written(cache, b) THEN SentOf(A)[b] ELSE A[b]
    BY <1>1 DEF RingInv, RingHolds
  <2> QED
    BY <2>1
<1> DEFINE a == A[b]
<1>3. a \in ArmedDesc(b)
  BY DEF RingInv, AllArmed
<1>4. SentOf(A)[b] = SetStatus(a)
  BY DEF SentOf
<1> HIDE DEF a
<1>5. SameButStatus(a, a) /\ SameButStatus(SetStatus(a), a)
  BY <1>3 DEF ArmedDesc, SetStatus, SameButStatus
<1> QED
  BY <1>2, <1>4, <1>5 DEF a

LEMMA WbInPlace ==
    ASSUME TxInv, DriverInRing, NEW A, NEW g \in Nat, RingInv(A, g),
           NEW e \in DescEngines, cache.wb.ev[e] # "idle",
           NEW x \in cache.wb.moved[e] + 1 .. cache.wb.num[e]
    PROVE  SameButStatus(cache.wb.buf[e][x], ring[cache.wb.base[e] + x - 1])
<1> DEFINE j == cache.wb
           h == HeadSeq(cache)
           w == cache.nextSeqToWriteback
           c == CacheSeq(cache)
           U == SentOf(A)
<1>1. /\ CacheInv(TxDescs, cache) /\ CacheInOrder(cache, A, U)
      /\ w \in Nat /\ cache.nextSeqToProcess \in Nat /\ c \in Nat
      /\ w <= cache.nextSeqToProcess /\ cache.nextSeqToProcess <= c
  BY TxNumbers
<1>2. /\ j \in JobsType(TxDescs) /\ cache.head \in Slots
      /\ JobsContiguous(j, cache.head) /\ TransfersAgree(j) /\ BuffersFilled(cache)
  BY <1>1, CacheFacts DEF CacheInv, BanksContiguous, BuffersFilled
<1>3. /\ h \in Nat /\ cache.head = h % DescLen /\ BufsInOrder(j, h, U) /\ h + j.ing <= w
  BY <1>1, OrderFacts DEF CacheInOrder
<1>4. j.working[e] /\ ~ j.done[e] /\ \E i \in 1 .. Len(j.queue) : j.queue[i] = e
  BY <1>2, Zenon DEF JobsContiguous
<1>5. PICK i \in 1 .. Len(j.queue) : j.queue[i] = e
  BY <1>4
<1>6. Len(j.buf[e]) = j.num[e] /\ Got(j, e) = j.moved[e] /\ j.moved[e] \in Nat
  BY <1>2, <1>4 DEF BuffersFilled, Got, JobsType
<1> DEFINE a == Ahead(j, i - 1)
           m == j.num[e]
           y == x - 1
           b == h + (a + y)
<1>7. /\ a \in Nat /\ Ahead(j, i) = a + m /\ j.ing \in Nat /\ a + m <= j.ing /\ m \in Nat
  BY <1>2, <1>5, GotBound
<1>8. /\ j.base[e] = (cache.head + a) % DescLen /\ j.base[e] + m <= DescLen
  BY <1>2, <1>5, Zenon DEF JobsContiguous
<1>9. x \in Nat /\ x >= 1 /\ x <= m /\ Got(j, e) < x /\ y \in Nat
  BY <1>6, <1>7
<1>10. ~ Written(cache, b)
  <2>1. x \in Nat /\ Got(j, j.queue[i]) < x /\ x <= j.num[j.queue[i]]
    BY <1>5, <1>9
  <2> QED
    BY <1>2, <1>3, <2>1, NotReached DEF Written
<1>11. j.buf[e][x] = U[b]
  <2>1. x \in 1 .. Len(j.buf[j.queue[i]])
    BY <1>5, <1>6, <1>9
  <2>2. j.buf[j.queue[i]][x] = U[h + (Ahead(j, i - 1) + (x - 1))]
    BY <1>3, <2>1 DEF BufsInOrder
  <2> QED
    BY <1>5, <2>2
<1>12. b \in Nat /\ b < c
  <2> DEFINE k == j.ing
             n == cache.nextSeqToProcess
  <2>1. /\ k \in Nat /\ a + m <= k /\ a \in Nat /\ m \in Nat /\ y = x - 1 /\ x <= m /\ x \in Nat
        /\ h + k <= w /\ h \in Nat /\ n \in Nat /\ w \in Nat /\ c \in Nat /\ w <= n /\ n <= c
        /\ y \in Nat
    BY <1>1, <1>3, <1>7, <1>9
  <2> HIDE DEF k, n, a, m, y, h, w, c
  <2> QED
    BY <2>1
<1>13. j.base[e] + y = b % DescLen
  <2>1. ((h % DescLen) + a) % DescLen = (h + a) % DescLen
    BY <1>3, <1>7, ModAdd, DescLenAssumption
  <2>2. j.base[e] = (h + a) % DescLen /\ j.base[e] \in Nat
    BY <1>2, <1>3, <1>8, <2>1 DEF JobsType, Slots
  <2> DEFINE s == j.base[e]
             z == h + a
  <2>3. s + y < DescLen /\ s \in Nat /\ z \in Nat /\ s = z % DescLen
    <3>1. s + m <= DescLen
      BY <1>8
    <3> HIDE DEF s
    <3>2. s \in Nat /\ s + y < DescLen
      <4>1. s \in Nat
        BY <2>2 DEF s
      <4> HIDE DEF m
      <4> QED
        BY <1>7, <1>9, <3>1, <4>1, DescLenAssumption
    <3> QED
      BY <1>3, <1>7, <2>2, <3>2 DEF s
  <2> HIDE DEF s, z
  <2>4. (z + y) % DescLen = (z % DescLen) + y
    BY <1>9, <2>3, ModWithin, DescLenAssumption
  <2>5. z + y = b
    <3> HIDE DEF h, a, y
    <3> QED
      BY <1>3, <1>7, <1>9 DEF z
  <2> QED
    BY <2>3, <2>4, <2>5 DEF s
<1> HIDE DEF b
<1>14. SameButStatus(U[b], ring[b % DescLen])
  BY <1>10, <1>12, InPlace
<1> QED
  BY <1>11, <1>13, <1>14, Zenon

(* The descriptors in process take every number there is for them. *)
LEMMA ProcessingCovers ==
    ASSUME NEW T, NEW q, CacheInv(T, q),
           NEW s \in q.nextSeqToWriteback .. q.nextSeqToProcess - 1
    PROVE  \E e \in {f \in PktEngines : q.processing[f].desc # NULL} : q.processing[e].seqIdx = s
<1> DEFINE w == q.nextSeqToWriteback
           n == q.nextSeqToProcess
           S == {f \in PktEngines : q.processing[f].desc # NULL}
           I == w .. n - 1
           F == [e \in S |-> q.processing[e].seqIdx]
<1>1. /\ w \in Nat /\ n \in Nat /\ Cardinality(S) \in Nat /\ n = w + Cardinality(S)
      /\ \A e \in PktEngines : q.processing[e].seqIdx \in Nat
  BY ProcessingFacts DEF descProcessing
<1>2. /\ \A e \in S : w <= q.processing[e].seqIdx /\ q.processing[e].seqIdx < n
      /\ \A e, f \in S : q.processing[e].seqIdx = q.processing[f].seqIdx => e = f
  BY Zenon DEF CacheInv, ProcessingInOrder
<1>3. IsFiniteSet(I) /\ Cardinality(I) = Cardinality(S)
  <2> DEFINE k == Cardinality(S)
  <2>1. w \in Int /\ n - 1 \in Int
    BY <1>1
  <2>2. IsFiniteSet(I) /\ Cardinality(I) = IF w > n - 1 THEN 0 ELSE (n - 1) - w + 1
    BY <2>1, FS_Interval
  <2>3. k \in Nat /\ n = w + k /\ w \in Nat
    BY <1>1
  <2> HIDE DEF k, I, w, n
  <2> QED
    BY <2>2, <2>3 DEF k
<1>4. F \in [S -> I]
  <2>1. \A e \in S : q.processing[e].seqIdx \in I
    <3> HIDE DEF w, n
    <3>1. \A e \in S : q.processing[e].seqIdx \in Nat
      BY <1>1
    <3> HIDE DEF S
    <3> QED
      BY <1>1, <1>2, <3>1
  <2> QED
    BY <2>1, Zenon
<1>5. \A e, f \in S : F[e] = F[f] => e = f
  BY <1>2, Zenon
<1>6. \A e \in S : F[e] = q.processing[e].seqIdx
  OBVIOUS
<1>7. s \in I
  OBVIOUS
<1> HIDE DEF F, S, I
<1>8. F \in Injection(S, I)
  BY <1>4, <1>5, Zenon DEF Injection, IsInjective
<1>9. F \in Surjection(S, I)
  BY <1>3, <1>8, FS_Injection
<1>10. PICK e \in S : F[e] = s
  BY <1>7, <1>9, Zenon DEF Surjection
<1> QED
  BY <1>6, <1>10 DEF S

(* s is a, m and z one after the other. *)
InARow(s, a, m, z) ==
    /\ Len(s) = (Len(a) + Len(m)) + Len(z)
    /\ \A i \in 1 .. Len(a) : s[i] = a[i]
    /\ \A i \in 1 .. Len(m) : s[Len(a) + i] = m[i]
    /\ \A i \in 1 .. Len(z) : s[(Len(a) + Len(m)) + i] = z[i]

LEMMA ThreeInARow ==
    ASSUME NEW T, NEW a \in Seq(T), NEW m \in Seq(T), NEW z \in Seq(T)
    PROVE  InARow((a \o m) \o z, a, m, z)
<1> DEFINE s == (a \o m) \o z
           am == a \o m
           u == Len(a)
           p == Len(m)
           v == Len(z)
<1>1. /\ am \in Seq(T) /\ Len(am) = u + p
      /\ \A x \in 1 .. u + p : am[x] = IF x <= u THEN a[x] ELSE m[x - u]
  BY ConcatProperties, Zenon
<1>2. s = am \o z
  OBVIOUS
<1> HIDE DEF am, s
<1>3. /\ Len(s) = Len(am) + v
      /\ \A x \in 1 .. Len(am) + v : s[x] = IF x <= Len(am) THEN am[x] ELSE z[x - Len(am)]
  <2>0. am \in Seq(T) /\ z \in Seq(T)
    BY <1>1
  <2>1. /\ am \o z \in Seq(T) /\ Len(am \o z) = Len(am) + v
        /\ \A x \in 1 .. Len(am) + v :
              (am \o z)[x] = IF x <= Len(am) THEN am[x] ELSE z[x - Len(am)]
    BY <2>0, ConcatProperties, Zenon
  <2> QED
    BY <1>2, <2>1, Zenon
<1>4. u \in Nat /\ p \in Nat /\ v \in Nat
  OBVIOUS
<1> HIDE DEF u, p, v
<1>5. /\ Len(s) = (u + p) + v
      /\ \A x \in 1 .. (u + p) + v : s[x] = IF x <= u + p THEN am[x] ELSE z[x - (u + p)]
  BY <1>1, <1>3
<1>6. \A x \in 1 .. u : s[x] = a[x]
  <2> SUFFICES ASSUME NEW x \in 1 .. u PROVE s[x] = a[x]
    OBVIOUS
  <2>1. x \in 1 .. u + p /\ x \in 1 .. (u + p) + v /\ x <= u + p /\ x <= u
    BY <1>4
  <2> QED
    BY <1>1, <1>5, <2>1
<1>7. \A x \in 1 .. p : s[u + x] = m[x]
  <2> SUFFICES ASSUME NEW x \in 1 .. p PROVE s[u + x] = m[x]
    OBVIOUS
  <2> DEFINE y == u + x
  <2>1. /\ y \in 1 .. u + p /\ y \in 1 .. (u + p) + v /\ y <= u + p /\ ~ (y <= u)
        /\ y - u = x
    BY <1>4
  <2> HIDE DEF y
  <2>2. s[y] = am[y] /\ am[y] = m[y - u]
    BY <1>1, <1>5, <2>1
  <2> QED
    BY <2>1, <2>2 DEF y
<1>8. \A x \in 1 .. v : s[(u + p) + x] = z[x]
  <2> SUFFICES ASSUME NEW x \in 1 .. v PROVE s[(u + p) + x] = z[x]
    OBVIOUS
  <2> DEFINE y == (u + p) + x
  <2>1. y \in 1 .. (u + p) + v /\ ~ (y <= u + p) /\ y - (u + p) = x
    BY <1>4
  <2> HIDE DEF y
  <2>2. s[y] = z[y - (u + p)]
    BY <1>5, <2>1
  <2> QED
    BY <2>1, <2>2 DEF y
<1> QED
  <2>1. InARow(s, a, m, z)
    BY <1>5, <1>6, <1>7, <1>8 DEF u, p, v, InARow
  <2> QED
    BY <2>1 DEF s

(* What the card holds has the numbers from that of its head on. *)
LEMMA HoldsNumbered ==
    ASSUME TxInv, DriverInRing, NEW A, NEW g \in Nat, RingInv(A, g), NEW i \in 1 .. Len(Holds)
    PROVE  /\ HeadSeq(cache) + (i - 1) < CacheSeq(cache)
           /\ Holds[i] \in {A[HeadSeq(cache) + (i - 1)], SentOf(A)[HeadSeq(cache) + (i - 1)]}
<1> DEFINE h == HeadSeq(cache)
           w == cache.nextSeqToWriteback
           n == cache.nextSeqToProcess
           c == CacheSeq(cache)
           u == Len(cache.used)
           p == descProcessing(cache)
           v == Len(cache.unused)
           U == SentOf(A)
           E(x) == CHOOSE e \in InProcess : cache.processing[e].seqIdx = w + (x - 1)
           mid == [x \in 1 .. p |-> cache.processing[E(x)].desc]
           b == h + (i - 1)
<1>1. CacheInv(TxDescs, cache) /\ CacheInOrder(cache, A, U)
  BY TxNumbers
<1>2. /\ cache.used \in Seq(TxDescs) /\ cache.unused \in Seq(TxDescs)
      /\ u \in Nat /\ v \in Nat /\ p \in Nat /\ w \in Nat /\ n \in Nat /\ n = w + p
  BY <1>1, CacheFacts, ProcessingFacts
<1>3. h \in Nat /\ h + u = w /\ c \in Nat /\ c = n + v
  BY <1>1, OrderFacts DEF CacheSeq
<1>4. ASSUME NEW x \in 1 .. p
      PROVE  /\ cache.processing[E(x)].desc \in TxDescs
             /\ cache.processing[E(x)].desc \in {A[w + (x - 1)], U[w + (x - 1)]}
  <2> DEFINE s == w + (x - 1)
  <2>1. s \in w .. n - 1
    <3> HIDE DEF w, n, p
    <3> QED
      BY <1>2
  <2> HIDE DEF s
  <2>2. \E e \in InProcess : cache.processing[e].seqIdx = s
    BY <1>1, <2>1, ProcessingCovers DEF InProcess
  <2>3. E(x) \in InProcess /\ cache.processing[E(x)].seqIdx = s
    BY <2>2 DEF s
  <2> HIDE DEF E
  <2>4. E(x) \in PktEngines /\ cache.processing[E(x)].desc # NULL
    BY <2>3 DEF InProcess
  <2>5. cache.processing[E(x)].desc \in TxDescs
    BY <1>1, <2>4, ProcessingFacts
  <2>6. cache.processing[E(x)].desc
           = IF cache.processing[E(x)].done THEN U[s] ELSE A[s]
    BY <1>1, <2>3, <2>4 DEF CacheInOrder
  <2> QED
    BY <2>5, <2>6 DEF s
<1>5. /\ mid \in [1 .. p -> TxDescs]
      /\ \A x \in 1 .. p : mid[x] \in {A[w + (x - 1)], U[w + (x - 1)]}
  BY <1>4, Zenon
<1>6. Holds = (cache.used \o mid) \o cache.unused
  BY DEF Holds
<1> HIDE DEF mid
<1>7. mid \in Seq(TxDescs) /\ Len(mid) = p
  <2> HIDE DEF p
  <2> QED
    BY <1>2, <1>5, FcnIsSeq
<1>8. /\ Len(Holds) = (u + p) + v
      /\ \A x \in 1 .. u : Holds[x] = cache.used[x]
      /\ \A x \in 1 .. p : Holds[u + x] = mid[x]
      /\ \A x \in 1 .. v : Holds[(u + p) + x] = cache.unused[x]
  <2>1. InARow((cache.used \o mid) \o cache.unused, cache.used, mid, cache.unused)
    BY <1>2, <1>7, ThreeInARow, Zenon
  <2>2. InARow(Holds, cache.used, mid, cache.unused)
    BY <1>6, <2>1, Zenon
  <2> QED
    BY <1>7, <2>2, Zenon DEF InARow
<1>10. /\ \A x \in 1 .. u : cache.used[x] = U[h + (x - 1)]
       /\ \A x \in 1 .. v : cache.unused[x] = A[n + (x - 1)]
  BY <1>1 DEF CacheInOrder
<1>11. i \in 1 .. (u + p) + v
  BY <1>8
<1> HIDE DEF h, w, n, c, u, p, v, U
<1>12. b \in Nat /\ b < c
  BY <1>2, <1>3, <1>11
<1>13. Holds[i] \in {A[b], U[b]}
  <2>1. CASE i <= u
    <3>1. i \in 1 .. u
      BY <1>2, <1>11, <2>1
    <3> QED
      BY <1>8, <1>10, <3>1
  <2>2. CASE ~ (i <= u) /\ i <= u + p
    <3> DEFINE x == i - u
    <3>1. x \in 1 .. p /\ w + (x - 1) = b /\ u + x = i
      BY <1>2, <1>3, <1>11, <2>2
    <3> HIDE DEF x, b
    <3>2. Holds[i] = mid[x]
      BY <1>8, <3>1
    <3> QED
      BY <1>5, <3>1, <3>2
  <2>3. CASE ~ (i <= u + p)
    <3> DEFINE x == i - (u + p)
    <3>1. x \in 1 .. v /\ n + (x - 1) = b /\ (u + p) + x = i
      BY <1>2, <1>3, <1>11, <2>3
    <3> HIDE DEF x, b
    <3>2. Holds[i] = cache.unused[x]
      BY <1>8, <3>1
    <3> QED
      BY <1>10, <3>1, <3>2
  <2> QED
    BY <2>1, <2>2, <2>3
<1> QED
  BY <1>12, <1>13 DEF h, c, U

LEMMA HoldsInPlace ==
    ASSUME TxInv, DriverInRing, NEW A, NEW g \in Nat, RingInv(A, g),
           NEW i \in cache.wb.ing + 1 .. Len(Holds)
    PROVE  SameButStatus(Holds[i], ring[(cache.head + i - 1) % DescLen])
<1> DEFINE h == HeadSeq(cache)
           k == cache.wb.ing
           y == i - 1
           b == h + y
<1>1. /\ CacheInv(TxDescs, cache) /\ CacheInOrder(cache, A, SentOf(A))
  BY TxNumbers
<1>2. /\ cache.wb \in JobsType(TxDescs) /\ cache.head \in Slots /\ k \in Nat
      /\ JobsContiguous(cache.wb, cache.head) /\ TransfersAgree(cache.wb)
  BY <1>1, CacheFacts DEF CacheInv, BanksContiguous, BuffersFilled
<1>3. h \in Nat /\ cache.head = h % DescLen
  BY <1>1 DEF CacheInOrder
<1>4. i \in 1 .. Len(Holds) /\ y \in Nat /\ k <= y /\ i \in Nat
  BY <1>2
<1>5. b < CacheSeq(cache) /\ Holds[i] \in {A[b], SentOf(A)[b]}
  BY <1>4, HoldsNumbered
<1>6. b \in Nat /\ ~ (b < h + k)
  <2> HIDE DEF h, k, y
  <2> QED
    BY <1>2, <1>3, <1>4
<1>7. ~ Written(cache, b)
  BY <1>2, <1>3, <1>6, ReachedBound DEF Written
<1>8. (cache.head + y) % DescLen = b % DescLen
  <2> HIDE DEF h, y
  <2>1. ((h % DescLen) + y) % DescLen = (h + y) % DescLen
    BY <1>3, <1>4, ModAdd, DescLenAssumption
  <2> QED
    BY <1>3, <2>1, Zenon
<1> HIDE DEF b
<1>9. SameButStatus(Holds[i], ring[b % DescLen])
  BY <1>5, <1>6, <1>7, InPlace
<1> QED
  BY <1>8, <1>9, Zenon

LEMMA TxInPlace ==
    ASSUME TxInv, TxRingInv
    PROVE  WritesBackInPlace
<1>1. DriverInRing
  BY DEF TxRingInv
<1>2. PICK A : \E g \in Nat : RingInv(A, g)
  BY DEF TxRingInv
<1>3. PICK g \in Nat : RingInv(A, g)
  BY <1>2
<1>4. \A i \in cache.wb.ing + 1 .. Len(Holds) :
         SameButStatus(Holds[i], ring[(cache.head + i - 1) % DescLen])
  BY <1>1, <1>3, HoldsInPlace
<1>5. \A e \in DescEngines : cache.wb.ev[e] # "idle" =>
         \A x \in cache.wb.moved[e] + 1 .. cache.wb.num[e] :
            SameButStatus(cache.wb.buf[e][x], ring[cache.wb.base[e] + x - 1])
  BY <1>1, <1>3, WbInPlace
<1> QED
  BY <1>4, <1>5 DEF WritesBackInPlace

(* Whatever the card has yet to write back goes to the slot it was fetched *)
(* from, and the driver has not put another descriptor there: the used     *)
(* cache, the packet engines and the unused cache hold the ring's          *)
(* descriptors one after the other from the head on, and every write-back  *)
(* under way lies over its own.                                            *)
THEOREM TxWritesBackInPlace ==
    ASSUME ThresholdsFit, OnePerPacket, StatusInOrder
    PROVE  Spec => []WritesBackInPlace
<1>1. TxInv /\ TxRingInv => WritesBackInPlace
  BY TxInPlace
<1> QED
  BY <1>1, TxNumbersAgree, PTL

-----------------------------------------------------------------------------
(* The driver's slots and what the card has yet to read. *)

(* The distance along the ring between two numbers less than a round apart.*)
LEMMA RingDistance ==
    ASSUME NEW L \in Nat \ {0}, NEW a \in Nat, NEW b \in Nat, a <= b, b < a + L
    PROVE  (IF a % L > b % L THEN L - (a % L) + (b % L) ELSE (b % L) - (a % L)) = b - a
<1> DEFINE r == a % L
           t == b % L
           d == b - a
<1>0. d \in 0 .. (L - 1) /\ d \in Nat /\ a + d = b
  OBVIOUS
<1> HIDE DEF d
<1>1. r \in 0 .. (L - 1) /\ d \in 0 .. (L - 1) /\ a + d = b
  BY <1>0, DivMod
<1>2. t = (r + d) % L
  <2>1. (r + d) % L = (a + d) % L
    BY <1>0, ModAdd
  <2> QED
    BY <1>0, <2>1
<1>3. r + d < L => t = r + d
  <2> SUFFICES ASSUME r + d < L PROVE t = r + d
    OBVIOUS
  <2>1. (a + d) % L = r + d
    BY <1>0, ModWithin
  <2> QED
    BY <1>0, <2>1
<1> HIDE DEF r, t
<1>4. ~ (r + d < L) => t = (r + d) - L
  <2> SUFFICES ASSUME ~ (r + d < L) PROVE t = (r + d) - L
    OBVIOUS
  <2> DEFINE x == (r + d) - L
  <2>1. x \in 0 .. (L - 1) /\ (L * 1) + x = r + d
    BY <1>1
  <2> HIDE DEF x
  <2>2. ((L * 1) + x) % L = x
    BY <2>1, ModUnique
  <2> QED
    BY <1>2, <2>1, <2>2 DEF x
<1>5. (IF r > t THEN L - r + t ELSE t - r) = d
  BY <1>1, <1>3, <1>4
<1> QED
  BY <1>5 DEF r, t, d

(* What the card has yet to read is what the driver has not cleaned. *)
LEMMA UnreadNumbered ==
    ASSUME TxInv, DriverInRing, PacketsUnderWay, NEW A, NEW g \in Nat, RingInv(A, g),
           NEW u \in UnreadBufs
    PROVE  \E b \in Cleaned .. submitted - 1 : u = <<b + 1, 1>>
<1> DEFINE w == cache.nextSeqToWriteback
           n == cache.nextSeqToProcess
           c == CacheSeq(cache)
           f == FetchSeq(cache)
           C == Cleaned
           N == submitted
           v == Len(cache.unused)
<1>1. CacheInv(TxDescs, cache) /\ CacheInOrder(cache, A, SentOf(A))
  BY TxNumbers
<1>2. /\ C \in Nat /\ N \in Nat /\ w \in Nat /\ n \in Nat /\ c \in Nat /\ f \in Nat
      /\ C <= w /\ w <= n /\ n <= c /\ c <= f /\ f <= g /\ g <= N
  BY TxNumbers
<1>3. v \in Nat /\ c = n + v /\ cache.cachePnt = c % DescLen
  BY <1>1, CacheFacts, OrderFacts DEF CacheSeq
<1>4. \A b \in Nat : A[b].buf = <<b + 1, 1>> /\ SentOf(A)[b].buf = <<b + 1, 1>>
  <2> SUFFICES ASSUME NEW b \in Nat
               PROVE  A[b].buf = <<b + 1, 1>> /\ SentOf(A)[b].buf = <<b + 1, 1>>
    OBVIOUS
  <2> DEFINE a == A[b]
  <2>1. a \in ArmedDesc(b) /\ SentOf(A)[b] = SetStatus(a)
    BY DEF RingInv, AllArmed, SentOf
  <2> HIDE DEF a
  <2>2. a.buf = <<b + 1, 1>> /\ SetStatus(a).buf = <<b + 1, 1>>
    BY <2>1 DEF ArmedDesc, SetStatus
  <2> QED
    BY <2>1, <2>2 DEF a
<1>5. CASE u \in {cache.unused[i].buf : i \in 1 .. Len(cache.unused)}
  <2>1. PICK i \in 1 .. v : u = cache.unused[i].buf
    BY <1>5
  <2> DEFINE b == n + (i - 1)
  <2>2. cache.unused[i] = A[b]
    BY <1>1, <2>1 DEF CacheInOrder
  <2>3. b \in Nat /\ b \in C .. N - 1
    <3> HIDE DEF w, n, c, f, C, N, v
    <3> QED
      BY <1>2, <1>3, <2>1
  <2> HIDE DEF b
  <2> QED
    BY <1>4, <2>1, <2>2, <2>3
<1>6. CASE u \in {engine[e].pkt.buf : e \in {h \in PktEngines : engine[h].ev = "dma"}}
  <2>1. PICK e \in PktEngines : engine[e].ev = "dma" /\ u = engine[e].pkt.buf
    BY <1>6
  <2> DEFINE p == engine[e].pkt
             s == cache.processing[e].seqIdx
  <2>2. p \in Frame /\ p # NULL /\ cache.processing[e].desc # NULL
    BY <2>1, EngineFacts
  <2>3. WholePacket(p) /\ p.buf[1] = s + 1
    BY <2>1, <2>2 DEF PacketsUnderWay, EngineOK
  <2>4. w <= s /\ s < n /\ s \in Nat
    BY <1>1, <2>2, ProcessingFacts DEF CacheInv, ProcessingInOrder
  <2>5. u = <<s + 1, 1>>
    BY <2>1, <2>2, <2>3, FrameNumber
  <2>6. s \in C .. N - 1
    <3> HIDE DEF w, n, c, f, C, N, s
    <3> QED
      BY <1>2, <2>4
  <2> QED
    BY <2>5, <2>6
<1>7. CASE u \in {ring[(cache.cachePnt + i) % DescLen].buf :
                     i \in 0 .. descLeft(cache) - descUnused(cache) - 1}
  <2>1. descLeft(cache) - descUnused(cache) = g - c
    <3>1. cache.tail = g % DescLen /\ g < w + DescLen
      BY TxNumbers DEF Ordered, WithinGiven
    <3>2. (IF c % DescLen > g % DescLen
           THEN DescLen - (c % DescLen) + (g % DescLen)
           ELSE (g % DescLen) - (c % DescLen)) = g - c
      <4>1. c <= g /\ g < c + DescLen
        <5> HIDE DEF w, n, c, f
        <5> QED
          BY <1>2, <3>1, DescLenAssumption
      <4> HIDE DEF c
      <4> QED
        BY <1>2, <4>1, RingDistance, DescLenAssumption
    <3> DEFINE k == descUnused(cache)
    <3>3. k \in Nat
      <4>1. v \in Nat /\ descProcessing(cache) \in Nat
        BY <1>1, CacheFacts
      <4> QED
        BY <4>1 DEF descUnused
    <3>4. descLeft(cache) = k + (g - c)
      BY <1>3, <3>1, <3>2, Zenon DEF descLeft
    <3> HIDE DEF k, c
    <3>5. (k + (g - c)) - k = g - c
      BY <1>2, <3>3
    <3> QED
      BY <3>4, <3>5 DEF k
  <2>2. PICK i \in 0 .. (g - c) - 1 : u = ring[(cache.cachePnt + i) % DescLen].buf
    BY <1>7, <2>1
  <2> DEFINE b == c + i
  <2>3. b \in Nat /\ b \in C .. N - 1 /\ i \in Nat
    <3> HIDE DEF w, n, c, f, C, N
    <3> QED
      BY <1>2, <2>2
  <2>4. (cache.cachePnt + i) % DescLen = b % DescLen
    <3> HIDE DEF c
    <3>1. ((c % DescLen) + i) % DescLen = (c + i) % DescLen
      BY <1>2, <2>3, ModAdd, DescLenAssumption
    <3> QED
      BY <1>3, <3>1, Zenon
  <2> HIDE DEF b
  <2>5. ring[b % DescLen] \in {A[b], SentOf(A)[b]}
    <3>1. ring[b % DescLen] = IF Written(cache, b) THEN SentOf(A)[b] ELSE A[b]
      BY <2>3 DEF RingInv, RingHolds
    <3> QED
      BY <3>1
  <2>6. u = ring[b % DescLen].buf
    BY <2>2, <2>4, Zenon
  <2> QED
    BY <1>4, <2>3, <2>5, <2>6
<1> QED
  BY <1>5, <1>6, <1>7, Zenon DEF UnreadBufs

LEMMA CleanedDone ==
    ASSUME TxInv, TxRingInv
    PROVE  CleanedAreDone
<1>1. DriverInRing /\ PacketsUnderWay
  BY DEF TxRingInv
<1>2. PICK A : \E g \in Nat : RingInv(A, g)
  BY DEF TxRingInv
<1>3. PICK g \in Nat : RingInv(A, g)
  BY <1>2
<1> SUFFICES ASSUME NEW s \in CleanedSlots, txq.sw_ring[s] \in UnreadBufs, txq.sw_ring[s] # NULL
             PROVE  FALSE
  BY DEF CleanedAreDone
<1> DEFINE C == Cleaned
           N == submitted
           k == InUse(txq)
           L == DescLen
<1>4. PICK b \in C .. N - 1 : txq.sw_ring[s] = <<b + 1, 1>>
  BY <1>1, <1>3, UnreadNumbered
<1>5. PICK i \in 0 .. txq.nb_tx_free : s = (txq.tx_id + i) % L
  BY DEF CleanedSlots
<1>6. /\ C \in Nat /\ N \in Nat /\ k \in 0 .. L - 1 /\ C = N - k
      /\ txq.nb_tx_free = L - 1 - k /\ txq.tx_id = N % L /\ L \in Nat \ {0}
  <2>1. txq.nb_tx_free \in 0 .. L - 1
    BY TxqFacts DEF TxInv, DriverOK
  <2>2. /\ C \in Nat /\ N \in Nat /\ C = N - k /\ txq.tx_id = N % L
    BY <1>1, <1>3, TxNumbers DEF DriverInRing, SlotsNumbered, Cleaned
  <2> QED
    BY <2>1, <2>2, DescLenAssumption DEF InUse
<1>7. s = (N + i) % L
  BY <1>5, <1>6, ModAdd
<1>8. s \in Slots
  <2> HIDE DEF N, L, C, k
  <2>1. N + i \in Nat
    BY <1>5, <1>6
  <2>2. (N + i) % DescLen \in Slots
    BY <2>1, ModInSlots, Zenon
  <2> QED
    BY <1>7, <2>2 DEF L
<1>9. PICK a \in 0 .. N - 1 : a % L = s /\ txq.sw_ring[s] = <<a + 1, 1>>
  BY <1>1, <1>8 DEF DriverInRing, BuffersHeld
<1>10. a = b
  BY <1>4, <1>6, <1>9
<1> HIDE DEF C, N, k, L
<1>11. b \in C .. C + L - 1 /\ N + i \in C .. C + L - 1
  BY <1>4, <1>5, <1>6
<1>12. b = N + i
  BY <1>6, <1>7, <1>9, <1>10, <1>11, ModWindow
<1> QED
  BY <1>4, <1>5, <1>6, <1>12

(* em_xmit_cleanup may take one status for all the descriptors up to it:   *)
(* a slot that the driver counts as done never has a buffer that the card  *)
(* has yet to read, whether its descriptor lies in the ring, in the card's *)
(* cache or in a packet engine.                                            *)
THEOREM TxCleanedAreDone ==
    ASSUME ThresholdsFit, OnePerPacket, StatusInOrder
    PROVE  Spec => []CleanedAreDone
<1>1. TxInv /\ TxRingInv => CleanedAreDone
  BY CleanedDone
<1> QED
  BY <1>1, TxNumbersAgree, PTL

=============================================================================
