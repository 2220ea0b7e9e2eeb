------------------------- MODULE ChunkReaderProofs -------------------------
(***************************************************************************)
(* Proofs about ChunkReader, for texts of any length, any encoding and any *)
(* chunk size.  Offsets are sums over the runes of the text, so they rest   *)
(* on induction; it is done over sets, with the well-foundedness of the    *)
(* natural numbers.                                                        *)
(***************************************************************************)
EXTENDS ChunkReader, SequenceTheorems, FiniteSetTheorems,
        WellFoundedInduction, TLAPS

-----------------------------------------------------------------------------
(* Least and greatest numbers, and induction *)

\* A set of natural numbers has a least element.
LEMMA LeastNat ==
    ASSUME NEW T \in SUBSET Nat, T # {}
    PROVE  \E x \in T : \A y \in T : x <= y
PROOF
  <1> DEFINE Less == {ss \in Nat \X Nat : ss[1] < ss[2]}
  <1>1. Less = OpToRel(<, Nat)
    BY DEF OpToRel
  <1>2. IsWellFoundedOn(Less, Nat)
    BY <1>1, NatLessThanWellFounded
  <1>3. PICK x \in T : \A y \in T : ~(<<y, x>> \in Less)
    BY <1>2, WFMin
  <1>4. ASSUME NEW y \in T PROVE x <= y
    <2>1. <<y, x>> \in Less <=> y < x
      OBVIOUS
    <2>2. QED
      BY <1>3, <2>1
  <1>5. QED
    BY <1>4

\* A set with 0 and the successor of each of its numbers has all of them.
LEMMA SetInduction ==
    ASSUME NEW T, 0 \in T, \A n \in Nat : n \in T => n + 1 \in T
    PROVE  \A n \in Nat : n \in T
PROOF
  <1> DEFINE Missing == Nat \ T
  <1>1. SUFFICES ASSUME Missing # {} PROVE FALSE
    OBVIOUS
  <1>2. PICK x \in Missing : \A y \in Missing : x <= y
    BY <1>1, LeastNat
  <1>3. x # 0 /\ x - 1 \in Nat
    BY <1>2
  <1>4. x - 1 \in T
    BY <1>2, <1>3
  <1>5. QED
    BY <1>2, <1>3, <1>4

\* Min and Max of numbers up to n are what their names say.
LEMMA MinFacts ==
    ASSUME NEW T \in SUBSET Nat, T # {}
    PROVE  Min(T) \in T /\ \A y \in T : Min(T) <= y
PROOF
  <1>1. \E x \in T : \A y \in T : x <= y
    BY LeastNat
  <1>2. QED
    BY <1>1 DEF Min

LEMMA MaxFacts ==
    ASSUME NEW n \in Nat, NEW T \in SUBSET (0..n), T # {}
    PROVE  Max(T) \in T /\ \A y \in T : y <= Max(T)
PROOF
  <1> DEFINE Down == {n - y : y \in T}
  <1>0. Down \in SUBSET Nat /\ Down # {}
    <2>1. \A y \in T : n - y \in Nat
      OBVIOUS
    <2>2. PICK y : y \in T
      OBVIOUS
    <2>3. n - y \in Down
      BY <2>2
    <2>4. QED
      BY <2>1, <2>3
  <1>1. PICK d \in Down : \A y \in Down : d <= y
    BY <1>0, LeastNat
  <1>2. PICK x \in T : d = n - x
    BY <1>1
  <1>3. ASSUME NEW y \in T PROVE y <= x
    <2>1. n - y \in Down
      OBVIOUS
    <2>2. QED
      BY <1>1, <1>2, <2>1
  <1>4. QED
    BY <1>3 DEF Max

-----------------------------------------------------------------------------
(* Offsets *)

\* The sum that Offset stands for exists.
LEMMA OffsetDefined ==
    ASSUME NEW t \in Seq(Kinds)
    PROVE  LET upTo[n \in 0..Len(t)] ==
                   IF n = 0 THEN 0 ELSE upTo[n - 1] + Bytes[t[n]]
           IN upTo = [n \in 0..Len(t) |->
                         IF n = 0 THEN 0 ELSE upTo[n - 1] + Bytes[t[n]]]
PROOF
  <1> DEFINE L == Len(t)
             Sum(f, m) == /\ f \in [0..m -> Nat]
                          /\ f[0] = 0
                          /\ \A n \in 1..m : f[n] = f[n - 1] + Bytes[t[n]]
             T == {m \in Nat : m <= L => \E f : Sum(f, m)}
  <1>0. L \in Nat /\ \A n \in 1..L : Bytes[t[n]] \in Nat
    BY ChunkAssumption, ElementOfSeq
  <1>1. 0 \in T
    <2>1. Sum([n \in 0..0 |-> 0], 0)
      OBVIOUS
    <2>2. QED
      BY <2>1
  <1>2. ASSUME NEW m \in Nat, m \in T PROVE m + 1 \in T
    <2> HIDE DEF Sum, L
    <2>1. SUFFICES ASSUME m + 1 <= L PROVE \E f : Sum(f, m + 1)
      OBVIOUS
    <2>2. PICK f : Sum(f, m)
      BY <1>0, <1>2, <2>1
    <2> USE DEF Sum, L
    <2> DEFINE g == [n \in 0..(m + 1) |->
                       IF n = m + 1 THEN f[m] + Bytes[t[m + 1]] ELSE f[n]]
    <2>3. g \in [0..(m + 1) -> Nat]
      BY <1>0, <2>1, <2>2
    <2>4. ASSUME NEW n \in 1..(m + 1) PROVE g[n] = g[n - 1] + Bytes[t[n]]
      BY <2>2
    <2>5. Sum(g, m + 1)
      BY <2>2, <2>3, <2>4
    <2>6. QED
      BY <2>5
  <1>3. L \in T
    <2> HIDE DEF T
    <2>1. QED
      BY <1>0, <1>1, <1>2, SetInduction
  <1>4. PICK f : Sum(f, L)
    BY <1>0, <1>3
  <1>5. f = [n \in 0..L |-> IF n = 0 THEN 0 ELSE f[n - 1] + Bytes[t[n]]]
    BY <1>0, <1>4
  <1>6. QED
    BY <1>5

\* Each rune begins where the one before it ends, and takes a byte at least.
LEMMA OffsetFacts ==
    ASSUME NEW t \in Seq(Kinds)
    PROVE  /\ Offset(t, 0) = 0
           /\ \A i \in 1..Len(t) : Offset(t, i) = Offset(t, i - 1) + Bytes[t[i]]
           /\ \A i \in 0..Len(t) : Offset(t, i) \in Nat
PROOF
  <1> DEFINE upTo == CHOOSE f : f = [n \in 0..Len(t) |->
                        IF n = 0 THEN 0 ELSE f[n - 1] + Bytes[t[n]]]
             T == {m \in Nat : m <= Len(t) => Offset(t, m) \in Nat}
  <1>0. Len(t) \in Nat /\ \A n \in 1..Len(t) : Bytes[t[n]] \in Nat
    BY ChunkAssumption, ElementOfSeq
  <1>1. upTo = [n \in 0..Len(t) |-> IF n = 0 THEN 0 ELSE upTo[n - 1] + Bytes[t[n]]]
    BY OffsetDefined
  <1>2. \A i : Offset(t, i) = upTo[i]
    BY DEF Offset
  <1> HIDE DEF upTo
  <1>3. /\ Offset(t, 0) = 0
        /\ \A i \in 1..Len(t) : Offset(t, i) = Offset(t, i - 1) + Bytes[t[i]]
    BY <1>0, <1>1, <1>2
  <1>4. 0 \in T
    BY <1>3
  <1>5. ASSUME NEW m \in Nat, m \in T PROVE m + 1 \in T
    BY <1>0, <1>3, <1>5
  <1>6. \A m \in Nat : m \in T
    <2> HIDE DEF T
    <2>1. QED
      BY <1>4, <1>5, SetInduction
  <1>7. QED
    BY <1>0, <1>3, <1>6

\* Later runes begin later, by a byte for each rune between at least.
LEMMA OffsetsRise ==
    ASSUME NEW t \in Seq(Kinds), NEW i \in 0..Len(t), NEW j \in i..Len(t)
    PROVE  Offset(t, i) + (j - i) <= Offset(t, j)
PROOF
  <1> DEFINE T == {m \in Nat : i + m <= Len(t) =>
                                 Offset(t, i) + m <= Offset(t, i + m)}
  <1>0. /\ Len(t) \in Nat
        /\ \A n \in 1..Len(t) : Bytes[t[n]] \in Nat \ {0}
        /\ \A n \in 0..Len(t) : Offset(t, n) \in Nat
        /\ \A n \in 1..Len(t) : Offset(t, n) = Offset(t, n - 1) + Bytes[t[n]]
    BY ChunkAssumption, ElementOfSeq, OffsetFacts
  <1>1. 0 \in T
    BY <1>0
  <1>2. ASSUME NEW m \in Nat, m \in T PROVE m + 1 \in T
    <2>1. SUFFICES ASSUME i + (m + 1) <= Len(t)
                   PROVE  Offset(t, i) + (m + 1) <= Offset(t, i + (m + 1))
      OBVIOUS
    <2>2. Offset(t, i) + m <= Offset(t, i + m)
      BY <1>0, <1>2, <2>1
    <2>3. /\ i + (m + 1) \in 1..Len(t) /\ (i + (m + 1)) - 1 = i + m
          /\ i + m \in 0..Len(t) /\ i \in 0..Len(t)
      BY <1>0, <2>1
    <2>4. Offset(t, i + (m + 1)) = Offset(t, i + m) + Bytes[t[i + (m + 1)]]
      BY <1>0, <2>3
    <2>5. Bytes[t[i + (m + 1)]] \in Nat \ {0}
      BY <1>0, <2>3
    <2>6. Offset(t, i) \in Nat /\ Offset(t, i + m) \in Nat
      BY <1>0, <2>3
    <2>7. \A x, y, z \in Nat, w \in Nat \ {0} :
            x + m <= y /\ z = y + w => x + (m + 1) <= z
      OBVIOUS
    <2>8. Offset(t, i + (m + 1)) \in Nat
      BY <1>0, <2>3
    <2>9. QED
      BY <2>2, <2>4, <2>5, <2>6, <2>7, <2>8
  <1>3. j - i \in T
    <2> HIDE DEF T
    <2>1. j - i \in Nat
      OBVIOUS
    <2>2. QED
      BY <1>1, <1>2, <2>1, SetInduction
  <1>4. i + (j - i) = j
    BY <1>0
  <1>5. QED
    BY <1>0, <1>3, <1>4

\* The runes before the offset of a rune are those with a smaller index.
LEMMA BeforeOffset ==
    ASSUME NEW t \in Seq(Kinds), NEW k \in 0..Len(t)
    PROVE  Before(t, Offset(t, k)) = k
PROOF
  <1> DEFINE S == {i \in DOMAIN t : Offset(t, i - 1) < Offset(t, k)}
  <1>0. /\ Len(t) \in Nat /\ DOMAIN t = 1..Len(t)
        /\ \A n \in 0..Len(t) : Offset(t, n) \in Nat
    BY LenProperties, OffsetFacts
  <1>1. ASSUME NEW i \in 1..Len(t) PROVE i \in S <=> i \in 1..k
    <2>1. CASE i <= k
      <3>1. i - 1 \in 0..Len(t) /\ k \in (i - 1)..Len(t)
        BY <1>0, <2>1
      <3>2. Offset(t, i - 1) + (k - (i - 1)) <= Offset(t, k)
        BY <3>1, OffsetsRise
      <3>3. QED
        BY <1>0, <2>1, <3>1, <3>2
    <2>2. CASE k < i
      <3>1. i - 1 \in k..Len(t) /\ i - 1 \in 0..Len(t)
        BY <1>0, <2>2
      <3>2. Offset(t, k) + ((i - 1) - k) <= Offset(t, i - 1)
        BY <3>1, OffsetsRise
      <3>3. QED
        BY <1>0, <2>2, <3>1, <3>2
    <2>3. QED
      BY <1>0, <2>1, <2>2
  <1>2. S = 1..k
    BY <1>0, <1>1
  <1>3. Cardinality(1..k) = k
    BY <1>0, FS_Interval
  <1>4. QED
    BY <1>2, <1>3 DEF Before

\* Runes: one record for each rune of the text.
RuneRecords == [kind : Kinds, at : Nat]

LEMMA RunesFacts ==
    ASSUME NEW t \in Seq(Kinds)
    PROVE  /\ Runes(t) \in Seq(RuneRecords) /\ Len(Runes(t)) = Len(t)
           /\ \A i \in 1..Len(t) : Runes(t)[i] = [kind |-> t[i],
                                                  at |-> Offset(t, i - 1)]
PROOF
  <1>1. /\ Len(t) \in Nat /\ \A i \in 1..Len(t) : t[i] \in Kinds
        /\ \A i \in 0..Len(t) : Offset(t, i) \in Nat
    BY ElementOfSeq, OffsetFacts
  <1>2. \A i \in 1..Len(t) : [kind |-> t[i], at |-> Offset(t, i - 1)] \in RuneRecords
    BY <1>1 DEF RuneRecords
  <1>3. QED
    BY <1>1, <1>2 DEF Runes

\* The runes with the indexes i + 1 to j.
Part(t, i, j) == SubSeq(Runes(t), i + 1, j)

LEMMA PartFacts ==
    ASSUME NEW t \in Seq(Kinds), NEW i \in 0..Len(t), NEW j \in i..Len(t)
    PROVE  /\ Part(t, i, j) \in Seq(RuneRecords) /\ Len(Part(t, i, j)) = j - i
           /\ \A k \in 1..(j - i) :
                Part(t, i, j)[k] = [kind |-> t[i + k], at |-> Offset(t, i + k - 1)]
PROOF
  <1>1. Len(t) \in Nat
    OBVIOUS
  <1>2. /\ Runes(t) \in Seq(RuneRecords) /\ Len(Runes(t)) = Len(t)
        /\ \A k \in 1..Len(t) : Runes(t)[k] = [kind |-> t[k], at |-> Offset(t, k - 1)]
    BY RunesFacts
  <1>3. \A k \in (i + 1)..j : Runes(t)[k] \in RuneRecords
    BY <1>1, <1>2, ElementOfSeq
  <1>4. /\ Part(t, i, j) \in Seq(RuneRecords)
        /\ Len(Part(t, i, j)) = IF i + 1 <= j THEN j - (i + 1) + 1 ELSE 0
        /\ \A k \in 1..(j - (i + 1) + 1) : Part(t, i, j)[k] = Runes(t)[(i + 1) + k - 1]
    BY <1>1, <1>3, SubSeqProperties DEF Part
  <1>5. ASSUME NEW k \in 1..(j - i)
        PROVE  Part(t, i, j)[k] = [kind |-> t[i + k], at |-> Offset(t, i + k - 1)]
    <2>1. k \in 1..(j - (i + 1) + 1) /\ (i + 1) + k - 1 = i + k /\ i + k \in 1..Len(t)
      BY <1>1
    <2>2. Part(t, i, j)[k] = Runes(t)[i + k]
      BY <1>4, <2>1
    <2>3. Runes(t)[i + k] = [kind |-> t[i + k], at |-> Offset(t, i + k - 1)]
      BY <1>2, <2>1
    <2>4. QED
      BY <2>2, <2>3
  <1>6. QED
    BY <1>1, <1>4, <1>5

\* Adjacent parts make one, and a part of a part is a part.
LEMMA PartsJoin ==
    ASSUME NEW t \in Seq(Kinds), NEW i \in 0..Len(t), NEW j \in i..Len(t),
           NEW k \in j..Len(t)
    PROVE  Part(t, i, j) \o Part(t, j, k) = Part(t, i, k)
PROOF
  <1>1. /\ Runes(t) \in Seq(RuneRecords) /\ Len(Runes(t)) = Len(t)
        /\ Len(t) \in Nat
    BY RunesFacts
  <1>2. /\ i + 1 \in 1..(Len(t) + 1) /\ j \in ((i + 1) - 1)..Len(t)
        /\ k \in j..Len(t)
    BY <1>1
  <1>3. QED
    BY <1>1, <1>2, ConcatAdjacentSubSeq DEF Part

LEMMA PartOfPart ==
    ASSUME NEW t \in Seq(Kinds), NEW i \in 0..Len(t), NEW j \in i..Len(t),
           NEW a \in 0..(j - i), NEW b \in a..(j - i)
    PROVE  SubSeq(Part(t, i, j), a + 1, b) = Part(t, i + a, i + b)
PROOF
  <1> DEFINE p == Part(t, i, j)
             q == SubSeq(p, a + 1, b)
             r == Part(t, i + a, i + b)
  <1>1. Len(t) \in Nat /\ i + a \in 0..Len(t) /\ i + b \in (i + a)..Len(t)
    OBVIOUS
  <1>2. /\ p \in Seq(RuneRecords) /\ Len(p) = j - i
        /\ \A k \in 1..(j - i) : p[k] = [kind |-> t[i + k], at |-> Offset(t, i + k - 1)]
    BY PartFacts
  <1>3. /\ r \in Seq(RuneRecords) /\ Len(r) = (i + b) - (i + a)
        /\ \A k \in 1..((i + b) - (i + a)) :
             r[k] = [kind |-> t[(i + a) + k], at |-> Offset(t, (i + a) + k - 1)]
    BY <1>1, PartFacts
  <1> HIDE DEF p, r
  <1>4. \A k \in (a + 1)..b : p[k] \in RuneRecords
    BY <1>1, <1>2, ElementOfSeq
  <1>5. /\ q \in Seq(RuneRecords)
        /\ Len(q) = IF a + 1 <= b THEN b - (a + 1) + 1 ELSE 0
        /\ \A k \in 1..(b - (a + 1) + 1) : q[k] = p[(a + 1) + k - 1]
    BY <1>1, <1>4, SubSeqProperties
  <1> HIDE DEF q
  <1>6. Len(q) = Len(r) /\ Len(r) = b - a
    <2>1. /\ i \in Int /\ a \in Int /\ b \in Int /\ a <= b
      BY <1>1
    <2>2. Len(r) = b - a
      BY <1>3, <2>1
    <2>3. Len(q) = b - a
      BY <1>5, <2>1
    <2>4. QED
      BY <2>2, <2>3
  <1>7. ASSUME NEW k \in 1..(b - a) PROVE q[k] = r[k]
    <2>1. /\ k \in 1..(b - (a + 1) + 1) /\ (a + 1) + k - 1 = a + k
          /\ a + k \in 1..(j - i) /\ k \in 1..((i + b) - (i + a))
          /\ i + (a + k) = (i + a) + k
      BY <1>1
    <2>2. q[k] = p[a + k]
      BY <1>5, <2>1
    <2>3. p[a + k] = [kind |-> t[i + (a + k)], at |-> Offset(t, i + (a + k) - 1)]
      BY <1>2, <2>1
    <2>4. r[k] = [kind |-> t[(i + a) + k], at |-> Offset(t, (i + a) + k - 1)]
      BY <1>3, <2>1
    <2>5. QED
      BY <2>1, <2>2, <2>3, <2>4
  <1>8. q = r
    BY <1>3, <1>5, <1>6, <1>7, SeqEqual
  <1>9. QED
    BY <1>8 DEF p, q, r

-----------------------------------------------------------------------------
(* The cut *)

\* Half of a length, as smartChunkCut divides it.
LEMMA HalfFacts ==
    ASSUME NEW n \in Nat \ {0}
    PROVE  /\ MinCut(n) \in 1..n /\ n <= 2 * MinCut(n) + 1
           /\ \A i \in 1..n : i > n \div 2 /\ i > 1 => i > MinCut(n)
PROOF
  <1> DEFINE h == n \div 2
  <1>1. h \in Nat /\ 2 * h <= n /\ n <= 2 * h + 1
    OBVIOUS
  <1> HIDE DEF h
  <1>2. {h, 1} \in SUBSET (0..n) /\ {h, 1} # {}
    BY <1>1
  <1>3. Max({h, 1}) \in {h, 1} /\ h <= Max({h, 1}) /\ 1 <= Max({h, 1})
    BY <1>2, MaxFacts
  <1>4. MinCut(n) = Max({h, 1})
    BY DEF MinCut, h
  <1>5. \A i \in 1..n : i > h /\ i > 1 => i > MinCut(n)
    BY <1>1, <1>3, <1>4
  <1>6. MinCut(n) \in 1..n /\ n <= 2 * MinCut(n) + 1
    BY <1>1, <1>3, <1>4
  <1>7. QED
    BY <1>5, <1>6 DEF h

\* The cut leaves at least half of the runes in the chunk, which ends with a
\* sentence or a space if the second half has one.
LEMMA CutFacts ==
    ASSUME NEW items \in Seq(RuneRecords), items # <<>>
    PROVE  LET n == Len(items)  c == SmartCut(items) IN
           /\ n \in Nat /\ c \in 1..n /\ n <= 2 * c
           /\ \/ EndsWord(items[c])
              \/ /\ c = n
                 /\ \A i \in 1..n : i > n \div 2 /\ i > 1 => ~EndsWord(items[i])
PROOF
  <1> DEFINE n == Len(items)
             c == SmartCut(items)
             stops == CutsAfter(items, "stop")
             spaces == CutsAfter(items, "space")
  <1>1. n \in Nat \ {0}
    BY EmptySeq
  <1>2. /\ MinCut(n) \in 1..n /\ n <= 2 * MinCut(n) + 1
        /\ \A i \in 1..n : i > n \div 2 /\ i > 1 => i > MinCut(n)
    BY <1>1, HalfFacts
  <1>3. /\ stops \in SUBSET (0..n) /\ spaces \in SUBSET (0..n)
        /\ \A i \in stops \cup spaces : /\ i \in (MinCut(n) + 1)..n
                                        /\ EndsWord(items[i])
    BY <1>1, <1>2 DEF CutsAfter, EndsWord
  <1>4. \A i \in (MinCut(n) + 1)..n : EndsWord(items[i]) => i \in stops \cup spaces
    BY <1>1, <1>2 DEF CutsAfter, EndsWord
  <1>5. c = IF n > 1 /\ stops # {} THEN Max(stops)
            ELSE IF n > 1 /\ spaces # {} THEN Max(spaces) ELSE n
    BY DEF SmartCut
  <1> HIDE DEF n, c, stops, spaces
  <1>6. CASE n > 1 /\ stops \cup spaces # {}
    <2>1. c \in stops \cup spaces
      BY <1>1, <1>3, <1>5, <1>6, MaxFacts
    <2>2. c \in 1..n /\ n <= 2 * c /\ EndsWord(items[c])
      BY <1>1, <1>2, <1>3, <2>1
    <2>3. QED
      BY <1>1, <2>2 DEF n, c
  <1>7. CASE ~(n > 1 /\ stops \cup spaces # {})
    <2>1. c = n
      BY <1>5, <1>7
    <2>2. ASSUME NEW i \in 1..n, i > n \div 2, i > 1
          PROVE  ~EndsWord(items[i])
      <3>1. n > 1 /\ i \in (MinCut(n) + 1)..n
        BY <1>1, <1>2, <2>2
      <3>2. QED
        BY <1>4, <1>7, <3>1
    <2>3. QED
      BY <1>1, <2>1, <2>2 DEF n, c
  <1>8. QED
    BY <1>6, <1>7

-----------------------------------------------------------------------------
(* The invariant *)

\* The reader began at rune from, has spoken up to rune said and read up to rune
\* read; what it has read and not spoken is pending.
Stands(from, said, read) ==
    /\ from \in 0..Len(text) /\ said \in from..Len(text) /\ read \in said..Len(text)
    /\ start = Offset(text, from) /\ nextByte = Offset(text, read)
    /\ spoken = Part(text, from, said) /\ pending = Part(text, said, read)
    /\ read - said < limit

ReaderTypes ==
    /\ text \in Seq(Kinds) /\ phrase \in Seq(Kinds \ {"bad"})
    /\ limit \in Nat \ {0}
    /\ step \in {"open", "read", "end", "failed"}
    /\ chunk \in Seq(RuneRecords)

NothingOpen == start = 0 /\ nextByte = 0 /\ pending = <<>> /\ chunk = <<>> /\ spoken = <<>>

ReaderInv ==
    /\ ReaderTypes
    /\ \E from, said, read \in Nat : Stands(from, said, read)
    /\ step = "open" => NothingOpen
    /\ step = "end" => pending = <<>> /\ nextByte = Size(text)
    /\ step \in {"read", "end"} /\ phrase # <<>> => start \in PhraseOffsets(text, phrase)
    /\ step = "failed" => \E i \in DOMAIN text : text[i] = "bad"
    /\ ChunksEndWell

\* A text of the model is a sequence of runes.
LEMMA TextType == \A t \in Texts : t \in Seq(Kinds)
PROOF
  BY ChunkAssumption DEF Texts

LEMMA ReaderInit == Init => ReaderInv
PROOF
  <1> SUFFICES ASSUME Init PROVE ReaderInv
    OBVIOUS
  <1>1. /\ ReaderTypes /\ NothingOpen /\ step = "open"
    BY ChunkAssumption, TextType, EmptySeq DEF Init, ReaderTypes, NothingOpen, RuneRecords
  <1>2. Part(text, 0, 0) = <<>> /\ Offset(text, 0) = 0 /\ Len(text) \in Nat
    BY <1>1, OffsetFacts, SubSeqEmpty DEF ReaderTypes, Part
  <1>3. Stands(0, 0, 0)
    BY <1>1, <1>2 DEF Stands, ReaderTypes, NothingOpen
  <1>4. ChunksEndWell
    BY <1>1 DEF NothingOpen, ChunksEndWell
  <1>5. QED
    BY <1>1, <1>3, <1>4 DEF ReaderInv

-----------------------------------------------------------------------------
(* Reading *)

\* A part of the text ends where its last rune does.
LEMMA PartLast ==
    ASSUME NEW t \in Seq(Kinds), NEW i \in 0..Len(t), NEW j \in i..Len(t)
    PROVE  LET p == Part(t, i, j)  last == p[Len(p)] IN
           IF i = j THEN p = <<>>
           ELSE p # <<>> /\ last.at + Bytes[last.kind] = Offset(t, j)
PROOF
  <1> DEFINE p == Part(t, i, j)
  <1>1. /\ p \in Seq(RuneRecords) /\ Len(p) = j - i /\ Len(t) \in Nat
        /\ \A k \in 1..(j - i) : p[k] = [kind |-> t[i + k], at |-> Offset(t, i + k - 1)]
    BY PartFacts, LenProperties
  <1> HIDE DEF p
  <1>2. CASE i = j
    BY <1>1, <1>2, EmptySeq DEF p
  <1>3. CASE i # j
    <2>1. p # <<>> /\ j - i \in 1..(j - i) /\ i + (j - i) = j /\ j \in 1..Len(t)
      BY <1>1, <1>3, EmptySeq
    <2>2. p[Len(p)] = [kind |-> t[j], at |-> Offset(t, j - 1)]
      BY <1>1, <2>1
    <2>3. Offset(t, j - 1) + Bytes[t[j]] = Offset(t, j)
      BY <2>1, OffsetFacts
    <2>4. QED
      BY <1>3, <2>1, <2>2, <2>3 DEF p
  <1>4. QED
    BY <1>2, <1>3

LEMMA PartEnds ==
    ASSUME text \in Seq(Kinds), NEW i \in 0..Len(text), NEW j \in i..Len(text)
    PROVE  EndOf(Part(text, i, j)) = IF i = j THEN nextByte ELSE Offset(text, j)
PROOF
  BY PartLast DEF EndOf

\* What remains after the runes that were read are the other runes.
LEMMA RestIsPart ==
    ASSUME NEW t \in Seq(Kinds), NEW k \in 0..Len(t)
    PROVE  From(t, Offset(t, k)) = Part(t, k, Len(t))
PROOF
  <1>1. Len(t) \in Nat /\ Offset(t, k) \in Boundaries(t)
    BY DEF Boundaries
  <1>2. Before(t, Offset(t, k)) = k
    BY BeforeOffset
  <1>3. Part(t, k, Len(t)) \in Seq(RuneRecords)
    BY <1>1, PartFacts
  <1>4. From(t, Offset(t, k)) = <<>> \o Part(t, k, Len(t))
    BY <1>1, <1>2 DEF From, Part
  <1>5. QED
    BY <1>3, <1>4, ConcatEmptySeq

\* A call of Next reads up to some rune: until it has limit runes, or all.
LEMMA NextReads ==
    ASSUME ReaderTypes, NEW from \in Nat, NEW said \in Nat, NEW read \in Nat,
           Stands(from, said, read)
    PROVE  LET upTo == read + Wanted IN
           /\ upTo \in read..Len(text)
           /\ upTo - said <= limit
           /\ upTo = Len(text) \/ upTo - said = limit
           /\ Read = Part(text, read, upTo)
           /\ Items = Part(text, said, upTo)
           /\ EndOf(Read) = Offset(text, upTo)
PROOF
  <1> DEFINE w == Wanted
  <1>1. /\ text \in Seq(Kinds) /\ Len(text) \in Nat /\ limit \in Nat
        /\ from \in 0..Len(text) /\ said \in from..Len(text) /\ read \in said..Len(text)
        /\ read \in 0..Len(text) /\ said \in 0..Len(text) /\ Len(text) \in read..Len(text)
        /\ nextByte = Offset(text, read)
        /\ pending = Part(text, said, read) /\ read - said < limit
    BY DEF Stands, ReaderTypes
  <1>2. Rest = Part(text, read, Len(text))
    BY <1>1, RestIsPart DEF Rest
  <1>3. Len(Rest) = Len(text) - read /\ Len(pending) = read - said
    BY <1>1, <1>2, PartFacts
  <1> DEFINE room == limit - (read - said)
             left == Len(text) - read
  <1>4. room \in Nat /\ left \in Nat
    BY <1>1
  <1>5. w = Min({room, left})
    BY <1>3 DEF Wanted
  <1> HIDE DEF w, room, left
  <1>6. w \in {room, left} /\ w <= room /\ w <= left
    <2>1. {room, left} \in SUBSET Nat /\ {room, left} # {}
      BY <1>4
    <2>2. QED
      BY <1>5, <2>1, MinFacts
  <1>7. /\ read + w \in read..Len(text) /\ read + w - said <= limit
        /\ read + w = Len(text) \/ read + w - said = limit
        /\ w \in 0..(Len(text) - read)
    BY <1>1, <1>4, <1>6 DEF room, left
  <1>8. Read = Part(text, read, read + w)
    <2>1. Read = SubSeq(Part(text, read, Len(text)), 0 + 1, w)
      BY <1>2 DEF Read, w
    <2>2. 0 \in 0..(Len(text) - read) /\ read + 0 = read
      BY <1>1
    <2>3. SubSeq(Part(text, read, Len(text)), 0 + 1, w) = Part(text, read + 0, read + w)
      BY <1>1, <1>7, <2>2, PartOfPart
    <2>4. QED
      BY <2>1, <2>2, <2>3
  <1>9. Items = Part(text, said, read + w)
    BY <1>1, <1>7, <1>8, PartsJoin DEF Items
  <1>10. EndOf(Read) = Offset(text, read + w)
    <2>1. EndOf(Read) = IF read = read + w THEN nextByte ELSE Offset(text, read + w)
      BY <1>1, <1>7, <1>8, PartEnds
    <2>2. QED
      BY <1>1, <2>1
  <1>11. QED
    BY <1>7, <1>8, <1>9, <1>10 DEF w

\* A call of Next speaks some of what it has read, a rune at least, and keeps
\* the rest.
LEMMA NextSpeaks ==
    ASSUME ReaderTypes, NEW from \in Nat, NEW said \in Nat, NEW read \in Nat,
           Stands(from, said, read), NextChunk
    PROVE  \E now, upTo \in Nat :
             /\ now = said + SmartCut(Items) /\ upTo = read + Wanted
             /\ Stands(from, now, upTo)' /\ now > said
             /\ chunk' = Part(text, said, now)
PROOF
  <1> DEFINE n == Len(Items)
  <1>1. /\ text \in Seq(Kinds) /\ Len(text) \in Nat /\ limit \in Nat
        /\ from \in 0..Len(text) /\ said \in from..Len(text) /\ read \in said..Len(text)
        /\ said \in 0..Len(text)
        /\ start = Offset(text, from) /\ spoken = Part(text, from, said)
    BY DEF Stands, ReaderTypes
  <1>a. PICK upTo : upTo = read + Wanted
    OBVIOUS
  <1>b. PICK cut : cut = SmartCut(Items)
    OBVIOUS
  <1> DEFINE now == said + cut
  <1>2. /\ upTo \in read..Len(text) /\ upTo - said <= limit
        /\ Items = Part(text, said, upTo) /\ EndOf(Read) = Offset(text, upTo)
    BY <1>a, NextReads
  <1>3. upTo \in said..Len(text)
    BY <1>1, <1>2
  <1>4. Items \in Seq(RuneRecords) /\ n = upTo - said
    BY <1>1, <1>2, <1>3, PartFacts
  <1>5. cut \in 1..n /\ n \in Nat
    BY <1>b, <1>4, CutFacts DEF NextChunk
  <1> HIDE DEF n
  <1>6. chunk' = Part(text, said, now)
    <2>1. chunk' = SubSeq(Part(text, said, upTo), 0 + 1, cut)
      BY <1>b, <1>2 DEF NextChunk
    <2>2. 0 \in 0..(upTo - said) /\ cut \in 0..(upTo - said) /\ said + 0 = said
      BY <1>4, <1>5
    <2>3. SubSeq(Part(text, said, upTo), 0 + 1, cut) = Part(text, said + 0, said + cut)
      BY <1>1, <1>3, <2>2, PartOfPart
    <2>4. QED
      BY <2>1, <2>2, <2>3
  <1>7. pending' = Part(text, now, upTo)
    <2>1. pending' = SubSeq(Part(text, said, upTo), cut + 1, n)
      BY <1>b, <1>2 DEF NextChunk, Kept, n
    <2>2. cut \in 0..(upTo - said) /\ n \in cut..(upTo - said) /\ said + n = upTo
      BY <1>1, <1>3, <1>4, <1>5
    <2>3. SubSeq(Part(text, said, upTo), cut + 1, n) = Part(text, said + cut, said + n)
      BY <1>1, <1>3, <2>2, PartOfPart
    <2>4. QED
      BY <2>1, <2>2, <2>3
  <1>8. /\ now \in said..Len(text) /\ now \in from..Len(text) /\ upTo \in now..Len(text)
        /\ upTo - now < limit /\ now > said
    BY <1>1, <1>2, <1>3, <1>4, <1>5
  <1>9. spoken' = Part(text, from, now)
    BY <1>1, <1>6, <1>8, PartsJoin DEF NextChunk
  <1>10. nextByte' = Offset(text, upTo) /\ UNCHANGED <<text, limit, start>>
    BY <1>2 DEF NextChunk
  <1>11. Stands(from, now, upTo)'
    <2>1. /\ Part(text, from, now)' = Part(text, from, now)
          /\ Part(text, now, upTo)' = Part(text, now, upTo)
      BY <1>10 DEF Part
    <2>2. QED
      BY <1>1, <1>7, <1>8, <1>9, <1>10, <2>1 DEF Stands
  <1>12. now \in Nat /\ upTo \in Nat
    BY <1>1, <1>2, <1>8
  <1>13. QED
    BY <1>a, <1>b, <1>6, <1>8, <1>11, <1>12

-----------------------------------------------------------------------------
(* Every step keeps the invariant *)

\* The chunk a call of Next returns ends as it should.
LEMMA NextEndsWell ==
    ASSUME ReaderTypes, NEW from \in Nat, NEW said \in Nat, NEW read \in Nat,
           Stands(from, said, read), NextChunk
    PROVE  ChunksEndWell' /\ chunk' \in Seq(RuneRecords)
PROOF
  <1>1. PICK now, upTo \in Nat :
          /\ now = said + SmartCut(Items) /\ upTo = read + Wanted
          /\ Stands(from, now, upTo)' /\ now > said
          /\ chunk' = Part(text, said, now)
    BY NextSpeaks
  <1>2. /\ text \in Seq(Kinds) /\ Len(text) \in Nat /\ limit \in Nat
        /\ said \in 0..Len(text)
    BY DEF Stands, ReaderTypes
  <1>3. UNCHANGED <<text, limit>>
    BY DEF NextChunk
  <1>4. /\ now \in said..Len(text) /\ upTo \in now..Len(text) /\ now \in 0..Len(text)
        /\ nextByte' = Offset(text, upTo) /\ pending' = Part(text, now, upTo)
    <2>1. Part(text, now, upTo)' = Part(text, now, upTo)
      BY <1>3 DEF Part
    <2>2. QED
      BY <1>1, <1>2, <1>3, <2>1 DEF Stands
  <1>5. /\ upTo - said <= limit /\ (upTo = Len(text) \/ upTo - said = limit)
        /\ Items = Part(text, said, upTo)
    BY <1>1, NextReads
  <1> DEFINE n == now - said
             m == upTo - said
  <1>6. /\ Items \in Seq(RuneRecords) /\ Len(Items) = m
        /\ \A k \in 1..m : Items[k] = [kind |-> text[said + k],
                                       at |-> Offset(text, said + k - 1)]
    <2>1. upTo \in said..Len(text)
      BY <1>2, <1>4
    <2>2. QED
      BY <1>2, <1>5, <2>1, PartFacts
  <1>7. /\ chunk' \in Seq(RuneRecords) /\ Len(chunk') = n
        /\ \A k \in 1..n : chunk'[k] = Items[k]
    <2>1. /\ chunk' \in Seq(RuneRecords) /\ Len(chunk') = n
          /\ \A k \in 1..n : chunk'[k] = [kind |-> text[said + k],
                                         at |-> Offset(text, said + k - 1)]
      BY <1>1, <1>2, <1>4, PartFacts
    <2>2. \A k \in 1..n : k \in 1..m
      BY <1>2, <1>4
    <2>3. QED
      BY <1>6, <2>1, <2>2
  <1>8. /\ n \in 1..m /\ m <= 2 * n
        /\ \/ EndsWord(Items[n])
           \/ /\ n = m
              /\ \A i \in 1..m : i > m \div 2 /\ i > 1 => ~EndsWord(Items[i])
    <2>1. Items # <<>>
      BY DEF NextChunk
    <2>2. SmartCut(Items) \in 1..m
      BY <1>6, <2>1, CutFacts
    <2>3. SmartCut(Items) = n
      BY <1>1, <1>2, <1>4, <2>2
    <2>4. QED
      BY <1>6, <2>1, <2>3, CutFacts
  <1>9. n <= limit
    BY <1>2, <1>4, <1>5, <1>8
  <1>10. EndOf(pending)' = Size(text)' \/ 2 * n >= limit
    <2>1. CASE upTo = Len(text)
      <3>1. Size(text)' = nextByte' /\ pending' = Part(text, now, upTo)
        BY <1>3, <1>4, <2>1 DEF Size
      <3>2. LET last == pending'[Len(pending')] IN
            pending' = <<>> \/ last.at + Bytes[last.kind] = Offset(text, upTo)
        BY <1>2, <1>4, <3>1, PartLast
      <3>3. QED
        BY <1>4, <3>1, <3>2 DEF EndOf
    <2>2. CASE upTo - said = limit
      BY <1>2, <1>8, <2>2
    <2>3. QED
      BY <1>5, <2>1, <2>2
  <1>11. \/ EndsWord(chunk'[n])
         \/ \A i \in 1..n : i > n \div 2 /\ i > 1 => ~EndsWord(chunk'[i])
    <2>1. CASE EndsWord(Items[n])
      BY <1>7, <1>8, <2>1
    <2>2. CASE n = m /\ \A i \in 1..m : i > m \div 2 /\ i > 1 => ~EndsWord(Items[i])
      <3>1. ASSUME NEW i \in 1..n, i > n \div 2 /\ i > 1
            PROVE  ~EndsWord(chunk'[i])
        <4>1. chunk'[i] = Items[i]
          BY <1>7
        <4>2. i \in 1..m /\ i > m \div 2
          BY <2>2, <3>1
        <4>3. ~EndsWord(Items[i])
          BY <2>2, <3>1, <4>2
        <4>4. QED
          BY <4>1, <4>3
      <3>2. QED
        BY <3>1
    <2>3. QED
      BY <1>8, <2>1, <2>2
  <1> HIDE DEF n
  <1>12. ChunksEndWell'
    BY <1>3, <1>7, <1>9, <1>10, <1>11 DEF ChunksEndWell, EndsWord
  <1>13. QED
    BY <1>7, <1>12

LEMMA NextChunkKeeps == ReaderInv /\ NextChunk => ReaderInv'
PROOF
  <1> SUFFICES ASSUME ReaderInv, NextChunk PROVE ReaderInv'
    OBVIOUS
  <1>1. PICK from, said, read \in Nat : Stands(from, said, read)
    BY DEF ReaderInv
  <1>2. ReaderTypes
    BY DEF ReaderInv
  <1>3. \E now, upTo \in Nat : Stands(from, now, upTo)'
    BY <1>1, <1>2, NextSpeaks
  <1>4. ChunksEndWell' /\ chunk' \in Seq(RuneRecords)
    BY <1>1, <1>2, NextEndsWell
  <1>5. ReaderTypes'
    BY <1>2, <1>4 DEF ReaderTypes, NextChunk
  <1>6. step' = "read" /\ step = "read" /\ UNCHANGED <<text, phrase, start>>
    BY DEF NextChunk
  <1>7. QED
    BY <1>3, <1>4, <1>5, <1>6 DEF ReaderInv

LEMMA AtEndKeeps == ReaderInv /\ AtEnd => ReaderInv'
PROOF
  <1> SUFFICES ASSUME ReaderInv, AtEnd PROVE ReaderInv'
    OBVIOUS
  <1>1. PICK from, said, read \in Nat : Stands(from, said, read)
    BY DEF ReaderInv
  <1>2. ReaderTypes
    BY DEF ReaderInv
  <1>3. UNCHANGED <<text, phrase, limit, nextByte, pending, chunk, start, spoken>>
    BY DEF AtEnd
  <1>4. pending = <<>> /\ nextByte = Size(text)
    <2>1. PICK upTo : upTo = read + Wanted
      OBVIOUS
    <2>2. /\ upTo \in read..Len(text) /\ (upTo = Len(text) \/ upTo - said = limit)
          /\ Items = Part(text, said, upTo)
      BY <1>1, <1>2, <2>1, NextReads
    <2>3. /\ Len(text) \in Nat /\ said \in 0..Len(text) /\ read \in said..Len(text)
          /\ limit \in Nat \ {0} /\ text \in Seq(Kinds)
          /\ nextByte = Offset(text, read) /\ pending = Part(text, said, read)
      BY <1>1, <1>2 DEF Stands, ReaderTypes
    <2>4. Len(Items) = upTo - said
      <3>1. upTo \in said..Len(text)
        BY <2>2, <2>3
      <3>2. QED
        BY <2>2, <2>3, <3>1, PartFacts
    <2>5. Len(Items) = 0
      BY DEF AtEnd
    <2>6. upTo = said /\ read = said /\ upTo = Len(text)
      BY <2>2, <2>3, <2>4, <2>5
    <2>7. pending = Items /\ Items = <<>>
      BY <2>2, <2>3, <2>6 DEF AtEnd
    <2>8. QED
      BY <2>3, <2>6, <2>7 DEF Size
  <1>5. Stands(from, said, read)'
    BY <1>1, <1>3 DEF Stands, Part
  <1>6. ChunksEndWell'
    BY <1>3 DEF ReaderInv, ChunksEndWell, EndOf
  <1>7. ReaderTypes' /\ step' = "end" /\ step = "read"
    BY <1>2, <1>3 DEF ReaderTypes, AtEnd
  <1>8. QED
    BY <1>3, <1>4, <1>5, <1>6, <1>7 DEF ReaderInv

LEMMA FailKeeps == ReaderInv /\ Fail => ReaderInv'
PROOF
  <1> SUFFICES ASSUME ReaderInv, Fail PROVE ReaderInv'
    OBVIOUS
  <1>1. PICK from, said, read \in Nat : Stands(from, said, read)
    BY DEF ReaderInv
  <1>2. ReaderTypes
    BY DEF ReaderInv
  <1>3. UNCHANGED <<text, phrase, limit, nextByte, pending, chunk, start, spoken>>
    BY DEF Fail
  <1>4. \E i \in DOMAIN text : text[i] = "bad"
    <2>1. PICK upTo : upTo = read + Wanted
      OBVIOUS
    <2>2. upTo \in read..Len(text) /\ Read = Part(text, read, upTo)
      BY <1>1, <1>2, <2>1, NextReads
    <2>3. Len(text) \in Nat /\ read \in 0..Len(text) /\ text \in Seq(Kinds)
      BY <1>1, <1>2 DEF Stands, ReaderTypes
    <2>4. /\ Read \in Seq(RuneRecords) /\ Len(Read) = upTo - read
          /\ \A k \in 1..(upTo - read) : Read[k] = [kind |-> text[read + k],
                                                   at |-> Offset(text, read + k - 1)]
      BY <2>2, <2>3, PartFacts
    <2>5. PICK k \in 1..(upTo - read) : Read[k].kind = "bad"
      BY <2>4 DEF Fail, Invalid
    <2>6. text[read + k] = "bad"
      BY <2>4, <2>5
    <2>7. read + k \in DOMAIN text
      <3>1. read + k \in 1..Len(text)
        BY <2>2, <2>3
      <3>2. QED
        BY <2>3, <3>1, LenProperties
    <2>8. QED
      BY <2>6, <2>7
  <1>5. Stands(from, said, read)'
    BY <1>1, <1>3 DEF Stands, Part
  <1>6. ChunksEndWell'
    BY <1>3 DEF ReaderInv, ChunksEndWell, EndOf
  <1>7. ReaderTypes' /\ step' = "failed"
    BY <1>2, <1>3 DEF ReaderTypes, Fail
  <1>8. QED
    BY <1>3, <1>4, <1>5, <1>6, <1>7 DEF ReaderInv

\* The search fails only at a rune that is not UTF-8.
LEMMA SearchFailsKeeps == ReaderInv /\ SearchFails => ReaderInv'
PROOF
  <1> SUFFICES ASSUME ReaderInv, SearchFails PROVE ReaderInv'
    OBVIOUS
  <1>1. PICK from, said, read \in Nat : Stands(from, said, read)
    BY DEF ReaderInv
  <1>2. UNCHANGED <<text, phrase, limit, nextByte, pending, chunk, start, spoken>>
    BY DEF SearchFails
  <1>3. \E i \in DOMAIN text : text[i] = "bad"
    BY DEF SearchFails, PhraseOffsets
  <1>4. Stands(from, said, read)'
    BY <1>1, <1>2 DEF Stands, Part
  <1>5. ChunksEndWell'
    BY <1>2 DEF ReaderInv, ChunksEndWell, EndOf
  <1>6. ReaderTypes' /\ step' = "failed"
    BY <1>2 DEF ReaderInv, ReaderTypes, SearchFails
  <1>7. QED
    BY <1>2, <1>3, <1>4, <1>5, <1>6 DEF ReaderInv

\* A phrase is found where a rune begins.
LEMMA FoundOnRune ==
    ASSUME NEW t \in Seq(Kinds), NEW p \in Seq(Kinds), NEW b \in PhraseOffsets(t, p)
    PROVE  \E k \in 0..Len(t) : b = Offset(t, k)
PROOF
  <1> DEFINE ends == {i \in DOMAIN t : Matches(t, p, i)}
  <1>1. Len(t) \in Nat /\ DOMAIN t = 1..Len(t) /\ Len(p) \in Nat
    BY LenProperties
  <1>2. CASE p # <<>> /\ ends # {}
    <2>1. ends \in SUBSET Nat
      BY <1>1
    <2>2. Min(ends) \in ends
      BY <1>2, <2>1, MinFacts
    <2>3. b = Offset(t, Min(ends) - Len(p))
      BY <1>2 DEF PhraseOffsets, Found
    <2>4. Min(ends) - Len(p) \in 0..Len(t)
      <3> DEFINE i == Min(ends)
      <3>1. i \in 1..Len(t) /\ i >= Len(p)
        BY <1>1, <2>2 DEF Matches
      <3> HIDE DEF i
      <3>2. i - Len(p) \in 0..Len(t)
        BY <1>1, <3>1
      <3>3. QED
        BY <3>2 DEF i
    <2>5. QED
      BY <2>3, <2>4
  <1>3. CASE ~(p # <<>> /\ ends # {})
    <2>1. b = 0
      BY <1>3 DEF PhraseOffsets
    <2>2. QED
      BY <1>1, <2>1, OffsetFacts
  <1>4. QED
    BY <1>2, <1>3

LEMMA OpenKeeps == ReaderInv /\ Open => ReaderInv'
PROOF
  <1> SUFFICES ASSUME ReaderInv, Open PROVE ReaderInv'
    OBVIOUS
  <1>1. PICK b \in 0..Size(text) :
          /\ IF phrase # <<>> THEN b \in PhraseOffsets(text, phrase)
                              ELSE IsFileUTF8Boundary(text, b)
          /\ start' = b /\ nextByte' = b
    BY DEF Open
  <1>2. ReaderTypes /\ NothingOpen
    BY DEF ReaderInv, Open
  <1>3. UNCHANGED <<text, phrase, limit, pending, chunk, spoken>> /\ step' = "read"
    BY DEF Open
  <1>4. PICK k \in 0..Len(text) : b = Offset(text, k)
    <2>1. CASE phrase # <<>>
      <3>1. phrase \in Seq(Kinds)
        BY <1>2, SeqMonotonic DEF ReaderTypes
      <3>2. QED
        BY <1>1, <1>2, <2>1, <3>1, FoundOnRune DEF ReaderTypes
    <2>2. CASE phrase = <<>>
      BY <1>1, <2>2 DEF IsFileUTF8Boundary, Boundaries
    <2>3. QED
      BY <2>1, <2>2
  <1>5. Stands(k, k, k)' /\ k \in Nat
    <2>1. Len(text) \in Nat
      BY <1>2 DEF ReaderTypes
    <2>2. Part(text, k, k)' = <<>>
      BY <2>1, SubSeqEmpty DEF Part
    <2>3. k - k < limit'
      BY <1>2, <1>3, <2>1 DEF ReaderTypes
    <2>4. QED
      BY <1>1, <1>2, <1>3, <1>4, <2>1, <2>2, <2>3 DEF Stands, NothingOpen
  <1>6. ChunksEndWell'
    BY <1>2, <1>3 DEF ChunksEndWell, NothingOpen
  <1>7. ReaderTypes'
    BY <1>2, <1>3 DEF ReaderTypes
  <1>8. phrase # <<>> => (start \in PhraseOffsets(text, phrase))'
    BY <1>1, <1>3
  <1>9. QED
    BY <1>3, <1>5, <1>6, <1>7, <1>8 DEF ReaderInv

LEMMA ReaderNext == ReaderInv /\ [Next]_vars => ReaderInv'
PROOF
  <1> SUFFICES ASSUME ReaderInv, [Next]_vars PROVE ReaderInv'
    OBVIOUS
  <1>1. CASE UNCHANGED vars
    <2>1. PICK from, said, read \in Nat : Stands(from, said, read)
      BY DEF ReaderInv
    <2>2. Stands(from, said, read)'
      BY <1>1, <2>1 DEF Stands, Part, vars
    <2>3. ChunksEndWell'
      BY <1>1 DEF ReaderInv, ChunksEndWell, EndOf, vars
    <2>4. QED
      BY <1>1, <2>2, <2>3 DEF ReaderInv, ReaderTypes, NothingOpen, vars
  <1>2. QED
    BY <1>1, OpenKeeps, SearchFailsKeeps, NextChunkKeeps, AtEndKeeps, FailKeeps
       DEF Next, ReaderStep

\* The state of the reader is as ReaderInv says, in every state.
THEOREM ReaderInvariant == Spec => []ReaderInv
PROOF
  BY ReaderInit, ReaderNext, PTL DEF Spec

-----------------------------------------------------------------------------
(* The text is read as it is *)

\* What has been spoken and is pending is the text from where the reader began to
\* where it has read; at the end, all of it has been spoken.
THEOREM TextIsReadOnce == Spec => []NothingSkippedOrRepeated
PROOF
  <1>1. ReaderInv => NothingSkippedOrRepeated
    <2> SUFFICES ASSUME ReaderInv PROVE NothingSkippedOrRepeated
      OBVIOUS
    <2>1. PICK from, said, read \in Nat : Stands(from, said, read)
      BY DEF ReaderInv
    <2>2. /\ text \in Seq(Kinds) /\ Len(text) \in Nat
          /\ from \in 0..Len(text) /\ said \in from..Len(text) /\ read \in said..Len(text)
          /\ said \in 0..Len(text) /\ read \in 0..Len(text)
      BY <2>1 DEF ReaderInv, ReaderTypes, Stands
    <2>3. Between(start, nextByte) = Part(text, from, read)
      BY <2>1, <2>2, BeforeOffset DEF Between, Part, Stands
    <2>4. spoken \o pending = Part(text, from, read)
      BY <2>1, <2>2, PartsJoin DEF Stands
    <2>5. ASSUME step = "end" PROVE spoken = Between(start, Size(text))
      <3>1. pending = <<>> /\ nextByte = Size(text)
        BY <2>5 DEF ReaderInv
      <3>2. spoken \in Seq(RuneRecords)
        BY <2>1, <2>2, PartFacts DEF Stands
      <3>3. spoken \o pending = spoken
        BY <3>1, <3>2, ConcatEmptySeq
      <3>4. QED
        BY <2>3, <2>4, <3>1, <3>3
    <2>6. QED
      BY <2>3, <2>4, <2>5 DEF NothingSkippedOrRepeated
  <1>2. QED
    BY <1>1, ReaderInvariant, PTL

\* Chunks are neither too long nor too short, and end inside a word only where
\* nothing else is near.
THEOREM CutsAreGood == Spec => []ChunksEndWell
PROOF
  <1>1. ReaderInv => ChunksEndWell
    BY DEF ReaderInv
  <1>2. QED
    BY <1>1, ReaderInvariant, PTL

\* Only a text that is not UTF-8 makes the reader fail.
THEOREM ValidTextsNeverFail ==
    Spec => [](step = "failed" => \E i \in DOMAIN text : text[i] = "bad")
PROOF
  <1>1. ReaderInv => (step = "failed" => \E i \in DOMAIN text : text[i] = "bad")
    BY DEF ReaderInv
  <1>2. QED
    BY <1>1, ReaderInvariant, PTL

\* What is spoken from rune from on up to the end has the runes of the text.
LEMMA SpokenAtEnd ==
    ASSUME ReaderInv, step = "end"
    PROVE  \E from \in 0..Len(text) :
             /\ start = Offset(text, from)
             /\ spoken = Part(text, from, Len(text))
             /\ Len(spoken) = Len(text) - from
             /\ \A k \in 1..Len(spoken) : spoken[k].kind = text[from + k]
PROOF
  <1>1. PICK from, said, read \in Nat : Stands(from, said, read)
    BY DEF ReaderInv
  <1>2. /\ text \in Seq(Kinds) /\ Len(text) \in Nat
        /\ from \in 0..Len(text) /\ said \in from..Len(text) /\ read \in said..Len(text)
        /\ said \in 0..Len(text) /\ read \in 0..Len(text) /\ Len(text) \in read..Len(text)
        /\ start = Offset(text, from) /\ nextByte = Offset(text, read)
        /\ spoken = Part(text, from, said) /\ pending = Part(text, said, read)
    BY <1>1 DEF ReaderInv, ReaderTypes, Stands
  <1>3. pending = <<>> /\ nextByte = Offset(text, Len(text))
    BY DEF ReaderInv, Size
  <1>4. said = read
    BY <1>2, <1>3, PartLast
  <1>5. read = Len(text)
    <2>1. Before(text, Offset(text, read)) = read
      BY <1>2, BeforeOffset
    <2>2. Before(text, Offset(text, Len(text))) = Len(text)
      BY <1>2, BeforeOffset
    <2>3. QED
      BY <1>2, <1>3, <2>1, <2>2
  <1>6. /\ Len(spoken) = Len(text) - from
        /\ \A k \in 1..(Len(text) - from) :
             spoken[k] = [kind |-> text[from + k], at |-> Offset(text, from + k - 1)]
    BY <1>2, <1>4, <1>5, PartFacts
  <1>7. ASSUME NEW k \in 1..Len(spoken) PROVE spoken[k].kind = text[from + k]
    <2>1. spoken[k] = [kind |-> text[from + k], at |-> Offset(text, from + k - 1)]
      BY <1>6
    <2>2. QED
      BY <2>1
  <1>8. QED
    BY <1>2, <1>4, <1>5, <1>6, <1>7

\* A reader that was given a phrase has read the phrase first when it ends, or
\* the whole book when the phrase is not in it.
THEOREM PhraseComesFirst == Spec => [](step = "end" => StartsWithPhrase)
PROOF
  <1>1. ASSUME ReaderInv, step = "end" PROVE StartsWithPhrase
    <2> DEFINE ends == {i \in DOMAIN text : Matches(text, phrase, i)}
    <2>1. PICK from \in 0..Len(text) :
             /\ start = Offset(text, from)
             /\ spoken = Part(text, from, Len(text))
             /\ Len(spoken) = Len(text) - from
             /\ \A k \in 1..Len(spoken) : spoken[k].kind = text[from + k]
      BY <1>1, SpokenAtEnd
    <2>2. /\ text \in Seq(Kinds) /\ phrase \in Seq(Kinds \ {"bad"})
          /\ Len(text) \in Nat /\ DOMAIN text = 1..Len(text)
          /\ Len(phrase) \in Nat /\ DOMAIN phrase = 1..Len(phrase)
      BY <1>1, LenProperties DEF ReaderInv, ReaderTypes
    <2>3. phrase # <<>> => start \in PhraseOffsets(text, phrase)
      BY <1>1 DEF ReaderInv
    <2>4. CASE phrase = <<>>
      <3>1. Len(phrase) = 0 /\ DOMAIN phrase = {} /\ Len(spoken) \in Nat
        BY <2>1, <2>2, <2>4
      <3>2. QED
        BY <2>4, <3>1 DEF StartsWithPhrase
    <2>5. CASE phrase # <<>> /\ ends # {}
      <3> DEFINE last == Min(ends)
                 first == last - Len(phrase)
      <3>1. ends \in SUBSET Nat
        BY <2>2
      <3>2. last \in ends
        BY <2>5, <3>1, MinFacts
      <3>3. start = Offset(text, first)
        BY <2>3, <2>5 DEF PhraseOffsets, Found
      <3>4. /\ last \in 1..Len(text) /\ last >= Len(phrase)
            /\ SubSeq(text, last - Len(phrase) + 1, last) = phrase
        BY <2>2, <3>2 DEF Matches
      <3> HIDE DEF last
      <3>5. first \in 0..Len(text) /\ last - Len(phrase) + 1 = first + 1
        BY <2>2, <3>4
      <3>6. from = first
        <4>1. Before(text, Offset(text, from)) = from
          BY <2>1, <2>2, BeforeOffset
        <4>2. Before(text, Offset(text, first)) = first
          BY <2>2, <3>5, BeforeOffset
        <4>3. QED
          BY <2>1, <3>3, <4>1, <4>2
      <3>7. Len(phrase) <= Len(spoken)
        BY <2>1, <2>2, <3>4, <3>6
      <3>8. ASSUME NEW i \in 1..Len(phrase) PROVE phrase[i] = text[first + i]
        <4>1. \A j \in (first + 1)..last : text[j] \in Kinds
          BY <2>2, <3>4, <3>5, ElementOfSeq
        <4>2. \A j \in 1..(last - (first + 1) + 1) :
                 SubSeq(text, first + 1, last)[j] = text[(first + 1) + j - 1]
          BY <2>2, <3>4, <3>5, <4>1, SubSeqProperties
        <4>3. i \in 1..(last - (first + 1) + 1) /\ (first + 1) + i - 1 = first + i
          BY <2>2, <3>4, <3>5
        <4>4. SubSeq(text, first + 1, last) = phrase
          BY <3>4, <3>5
        <4>5. QED
          BY <4>2, <4>3, <4>4
      <3>9. \A i \in DOMAIN phrase : spoken[i].kind = phrase[i]
        <4>1. \A i \in 1..Len(phrase) : i \in 1..Len(spoken)
          BY <2>1, <2>2, <3>7
        <4>2. QED
          BY <2>1, <2>2, <3>6, <3>8, <4>1
      <3>10. QED
        BY <2>5, <3>7, <3>9 DEF StartsWithPhrase
    <2>6. CASE phrase # <<>> /\ ends = {}
      <3>1. start = 0 /\ Offset(text, 0) = 0
        BY <2>2, <2>3, <2>6, OffsetFacts DEF PhraseOffsets
      <3>2. from = 0
        <4>1. Before(text, Offset(text, from)) = from
          BY <2>1, <2>2, BeforeOffset
        <4>2. Before(text, Offset(text, 0)) = 0
          BY <2>2, BeforeOffset
        <4>3. QED
          BY <2>1, <3>1, <4>1, <4>2
      <3>3. spoken = Runes(text)
        <4>1. Runes(text) \in Seq(RuneRecords) /\ Len(Runes(text)) = Len(text)
          BY <2>2, RunesFacts
        <4>2. SubSeq(Runes(text), 1, Len(Runes(text))) = Runes(text)
          BY <4>1, SubSeqFull
        <4>3. QED
          BY <2>1, <3>2, <4>1, <4>2 DEF Part
      <3>4. QED
        BY <2>6, <3>3 DEF StartsWithPhrase
    <2>7. QED
      BY <2>4, <2>5, <2>6
  <1>2. ReaderInv => (step = "end" => StartsWithPhrase)
    BY <1>1
  <1>3. QED
    BY <1>2, ReaderInvariant, PTL

-----------------------------------------------------------------------------
(* What the playback manager and the command line reader rely on *)

\* Where the last chunk ended: the EndByte they go on from.
Position == IF spoken = <<>> THEN start ELSE EndOf(spoken)

LEMMA PositionIsSaid ==
    ASSUME ReaderTypes, NEW from \in Nat, NEW said \in Nat, NEW read \in Nat,
           Stands(from, said, read)
    PROVE  Position = Offset(text, said)
PROOF
  <1>1. /\ text \in Seq(Kinds) /\ from \in 0..Len(text) /\ said \in from..Len(text)
        /\ start = Offset(text, from) /\ spoken = Part(text, from, said)
    BY DEF Stands, ReaderTypes
  <1>2. QED
    BY <1>1, PartLast DEF Position, EndOf

\* A chunk starts where the last one ended and ends later, where a rune begins,
\* after at most limit runes.
ChunksFollow ==
    [][NextChunk =>
         /\ chunk'[1].at = Position
         /\ Position' \in {p \in Boundaries(text) : p > Position}
         /\ Before(text, Position') - Before(text, Position) \in 1..limit]_vars

\* Each chunk is one that PlaybackManager and CliReader allow their reader to
\* return, and io.EOF comes at the end of the book and nowhere else.
THEOREM ReaderOfTheManager ==
    Spec => [](step = "end" => Position = Size(text)) /\ ChunksFollow
PROOF
  <1>1. ASSUME ReaderInv, step = "end" PROVE Position = Size(text)
    <2>1. PICK from, said, read \in Nat : Stands(from, said, read)
      BY <1>1 DEF ReaderInv
    <2>2. /\ text \in Seq(Kinds) /\ Len(text) \in Nat /\ ReaderTypes
          /\ said \in 0..Len(text) /\ read \in said..Len(text)
          /\ nextByte = Offset(text, read) /\ pending = Part(text, said, read)
      BY <1>1, <2>1 DEF ReaderInv, ReaderTypes, Stands
    <2>3. pending = <<>> /\ nextByte = Size(text)
      BY <1>1 DEF ReaderInv
    <2>4. said = read
      BY <2>2, <2>3, PartLast
    <2>5. QED
      BY <2>1, <2>2, <2>3, <2>4, PositionIsSaid
  <1>2. ASSUME ReaderInv, ReaderInv', NextChunk
        PROVE  /\ chunk'[1].at = Position
               /\ Position' \in {p \in Boundaries(text) : p > Position}
               /\ Before(text, Position') - Before(text, Position) \in 1..limit
    <2>1. PICK from, said, read \in Nat : Stands(from, said, read)
      BY <1>2 DEF ReaderInv
    <2>2. ReaderTypes /\ UNCHANGED <<text, limit, start>>
      BY <1>2 DEF ReaderInv, NextChunk
    <2>3. PICK now, upTo \in Nat :
             /\ now = said + SmartCut(Items) /\ upTo = read + Wanted
             /\ Stands(from, now, upTo)' /\ now > said
             /\ chunk' = Part(text, said, now)
      BY <1>2, <2>1, <2>2, NextSpeaks
    <2>4. /\ text \in Seq(Kinds) /\ Len(text) \in Nat /\ limit \in Nat
          /\ from \in 0..Len(text) /\ said \in from..Len(text) /\ read \in said..Len(text)
          /\ said \in 0..Len(text)
      BY <2>1, <2>2 DEF Stands, ReaderTypes
    <2>5. upTo - said <= limit
      BY <2>1, <2>2, <2>3, NextReads
    <2>6. /\ now \in from..Len(text) /\ now \in said..Len(text) /\ upTo \in now..Len(text)
          /\ now \in 0..Len(text)
          /\ start = Offset(text, from) /\ spoken' = Part(text, from, now)
      <3>1. Part(text, from, now)' = Part(text, from, now)
        BY <2>2 DEF Part
      <3>2. QED
        BY <2>1, <2>2, <2>3, <2>4, <3>1 DEF Stands
    <2>7. Position = Offset(text, said)
      BY <2>1, <2>2, PositionIsSaid
    <2>8. Position' = Offset(text, now)
      <3>1. LET last == spoken'[Len(spoken')] IN
            /\ spoken' # <<>>
            /\ last.at + Bytes[last.kind] = Offset(text, now)
        BY <2>3, <2>4, <2>6, PartLast
      <3>2. QED
        BY <3>1 DEF Position, EndOf
    <2>9. chunk'[1].at = Offset(text, said)
      <3>1. \A k \in 1..(now - said) :
               chunk'[k] = [kind |-> text[said + k], at |-> Offset(text, said + k - 1)]
        BY <2>3, <2>4, <2>6, PartFacts
      <3>2. 1 \in 1..(now - said) /\ said + 1 - 1 = said
        BY <2>3, <2>4, <2>6
      <3>3. chunk'[1] = [kind |-> text[said + 1], at |-> Offset(text, said + 1 - 1)]
        BY <3>1, <3>2
      <3>4. QED
        BY <3>2, <3>3
    <2>10. Offset(text, now) \in Boundaries(text) /\ Offset(text, now) > Offset(text, said)
      <3>1. Offset(text, said) + (now - said) <= Offset(text, now)
        BY <2>4, <2>6, OffsetsRise
      <3>2. Offset(text, said) \in Nat /\ Offset(text, now) \in Nat
        BY <2>4, <2>6, OffsetFacts
      <3>3. QED
        BY <2>3, <2>6, <3>1, <3>2 DEF Boundaries
    <2>11. Before(text, Offset(text, now)) = now /\ Before(text, Offset(text, said)) = said
      BY <2>4, <2>6, BeforeOffset
    <2>12. now - said \in 1..limit
      BY <2>3, <2>4, <2>5, <2>6
    <2>13. QED
      BY <2>7, <2>8, <2>9, <2>10, <2>11, <2>12
  <1>3. QED
    <2>1. ReaderInv => (step = "end" => Position = Size(text))
      BY <1>1
    <2>2. ReaderInv /\ ReaderInv' /\ [Next]_vars =>
            [NextChunk =>
               /\ chunk'[1].at = Position
               /\ Position' \in {p \in Boundaries(text) : p > Position}
               /\ Before(text, Position') - Before(text, Position) \in 1..limit]_vars
      BY <1>2
    <2>3. QED
      BY <2>1, <2>2, ReaderInvariant, PTL DEF ChunksFollow, Spec
=============================================================================
