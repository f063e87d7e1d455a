--------------------------- MODULE DatapathsProofs ---------------------------
(***************************************************************************)
(* The data paths of the three cores compute what the architecture defines, *)
(* for every width of a byte, size of the memory and set of registers.     *)
(***************************************************************************)
EXTENDS Datapaths, FiniteSetTheorems, NaturalsInduction, WellFoundedInduction,
        TLAPS

-----------------------------------------------------------------------------
(* Powers of two *)

LEMMA NatHasLeast ==
    ASSUME NEW S \in SUBSET Nat, S # {}
    PROVE  \E n \in S : \A m \in S : n <= m
<1> DEFINE Less == {ss \in Nat \X Nat : ss[1] < ss[2]}
<1>1. IsWellFoundedOn(Less, Nat)
  BY NatLessThanWellFounded, Zenon DEF OpToRel
<1>2. PICK n \in S : \A m \in S : ~(<<m, n>> \in Less)
  BY <1>1, WFMin
<1>3. ASSUME NEW m \in S PROVE n <= m
  <2>1. m \in Nat /\ n \in Nat /\ ~(<<m, n>> \in Less)
    BY <1>2
  <2>2. m < n => <<m, n>> \in Less
    BY <2>1
  <2> HIDE DEF Less
  <2> QED
    BY <2>1, <2>2
<1> QED
  BY <1>3

LEMMA PowerOfZero == 2 ^ 0 = 1
  OBVIOUS

LEMMA PowerStep ==
    ASSUME NEW n \in Nat
    PROVE  2 ^ n \in Nat \ {0} /\ 2 ^ (n + 1) = 2 * 2 ^ n
<1> DEFINE S == 1 .. n
           T == 1 .. n + 1
           Old == SUBSET S
           New == {s \cup {n + 1} : s \in Old}
<1>1. IsFiniteSet(S) /\ Cardinality(S) = n /\ IsFiniteSet(T) /\ Cardinality(T) = n + 1
  BY FS_Interval
<1>2. /\ IsFiniteSet(Old) /\ Cardinality(Old) = 2 ^ n
      /\ IsFiniteSet(SUBSET T) /\ Cardinality(SUBSET T) = 2 ^ (n + 1)
  BY <1>1, FS_SUBSET
<1>3. SUBSET T = Old \cup New
  <2>1. T = S \cup {n + 1}
    OBVIOUS
  <2>2. ASSUME NEW s \in SUBSET T, n + 1 \in s PROVE s \in New
    <3>1. s \ {n + 1} \in Old /\ s = (s \ {n + 1}) \cup {n + 1}
      BY <2>1, <2>2
    <3> QED
      BY <3>1
  <2> QED
    BY <2>1, <2>2
<1>4. Old \cap New = {}
  OBVIOUS
<1>5. Cardinality(New) = 2 ^ n /\ IsFiniteSet(New)
  <2> DEFINE f == [s \in Old |-> s \cup {n + 1}]
  <2>1. f \in Bijection(Old, New)
    <3>1. \A s \in Old : n + 1 \notin s
      OBVIOUS
    <3>2. \A s, t \in Old : s \cup {n + 1} = t \cup {n + 1} => s = t
      BY <3>1
    <3>3. f \in [Old -> New] /\ \A s \in Old : f[s] = s \cup {n + 1}
      OBVIOUS
    <3>4. \A s, t \in Old : f[s] = f[t] => s = t
      BY <3>2, <3>3
    <3>5. \A u \in New : \E s \in Old : f[s] = u
      BY <3>3
    <3> HIDE DEF f, Old, New
    <3> QED
      BY <3>3, <3>4, <3>5, Zenon DEF Bijection, Injection, Surjection, IsInjective
  <2>2. ExistsBijection(Old, New)
    BY <2>1 DEF ExistsBijection
  <2> QED
    BY <1>2, <2>2, FS_Bijection
<1>6. Cardinality(SUBSET T) = 2 ^ n + 2 ^ n
  <2>1. Cardinality(Old \cup New) = Cardinality(Old) + Cardinality(New) - Cardinality(Old \cap New)
    BY <1>2, <1>5, FS_Union
  <2>2. Cardinality(Old \cap New) = 0
    BY <1>4, FS_EmptySet
  <2>3. 2 ^ n \in Nat
    BY <1>2, FS_CardinalityType
  <2>4. Cardinality(SUBSET T) = Cardinality(Old \cup New)
    BY <1>3, Zenon
  <2>5. Cardinality(Old) = 2 ^ n /\ Cardinality(New) = 2 ^ n
    BY <1>2, <1>5
  <2> HIDE DEF Old, New, S, T
  <2> QED
    BY <2>1, <2>2, <2>3, <2>4, <2>5
<1>7. 2 ^ n \in Nat
  BY <1>2, FS_CardinalityType
<1>8. 2 ^ n # 0
  BY <1>2, FS_EmptySet
<1> QED
  BY <1>2, <1>6, <1>7, <1>8

LEMMA PowerPositive == \A n \in Nat : 2 ^ n \in Nat \ {0}
BY PowerStep

LEMMA PowerSum ==
    ASSUME NEW m \in Nat, NEW n \in Nat
    PROVE  2 ^ (m + n) = 2 ^ m * 2 ^ n
<1> DEFINE Bad == {k \in Nat : 2 ^ (m + k) # 2 ^ m * 2 ^ k}
<1>1. SUFFICES ASSUME Bad # {} PROVE FALSE
  OBVIOUS
<1>2. PICK k \in Bad : \A j \in Bad : k <= j
  BY <1>1, NatHasLeast
<1>3. k # 0
  <2>1. 2 ^ m \in Nat /\ m + 0 = m
    BY PowerPositive
  <2>2. 2 ^ (m + 0) = 2 ^ m * 2 ^ 0
    BY <2>1, PowerOfZero
  <2> QED
    BY <2>2
<1>4. k - 1 \in Nat /\ k - 1 \notin Bad
  BY <1>2, <1>3
<1>5. 2 ^ (m + (k - 1)) = 2 ^ m * 2 ^ (k - 1)
  BY <1>4
<1>6. /\ 2 ^ ((m + (k - 1)) + 1) = 2 * 2 ^ (m + (k - 1))
      /\ 2 ^ ((k - 1) + 1) = 2 * 2 ^ (k - 1)
  BY <1>4, PowerStep
<1>7. (m + (k - 1)) + 1 = m + k /\ (k - 1) + 1 = k
  OBVIOUS
<1>8. 2 ^ m \in Nat /\ 2 ^ (k - 1) \in Nat
  BY <1>4, PowerPositive
<1>9. 2 ^ (m + k) = 2 ^ m * 2 ^ k
  BY <1>5, <1>6, <1>7, <1>8
<1> QED
  BY <1>9

LEMMA PowerSplits ==
    ASSUME NEW n \in Nat, NEW k \in 0 .. n
    PROVE  /\ 2 ^ n = 2 ^ k * 2 ^ (n - k) /\ 2 ^ k <= 2 ^ n
           /\ k < n => \E h \in Nat : 2 ^ (n - k) = 2 * h
<1>1. n - k \in Nat /\ k + (n - k) = n
  OBVIOUS
<1>2. 2 ^ n = 2 ^ k * 2 ^ (n - k)
  BY <1>1, PowerSum
<1>3. 2 ^ k \in Nat /\ 2 ^ (n - k) \in Nat \ {0}
  BY <1>1, PowerPositive
<1>4. ASSUME k < n PROVE \E h \in Nat : 2 ^ (n - k) = 2 * h
  <2>1. n - k - 1 \in Nat /\ (n - k - 1) + 1 = n - k
    BY <1>4
  <2> QED
    BY <2>1, PowerStep
<1>5. 2 ^ k <= 2 ^ n
  BY <1>2, <1>3
<1> QED
  BY <1>2, <1>4, <1>5

-----------------------------------------------------------------------------
(* Quotients and remainders *)

LEMMA Euclid ==
    ASSUME NEW a \in Int, NEW s \in Nat \ {0}
    PROVE  /\ a \div s \in Int /\ a % s \in 0 .. s - 1
           /\ a = s * (a \div s) + (a % s)
OBVIOUS

LEMMA EuclidUnique ==
    ASSUME NEW s \in Nat \ {0}, NEW q \in Int, NEW r \in 0 .. s - 1,
           NEW a \in Int, a = s * q + r
    PROVE  a \div s = q /\ a % s = r
OBVIOUS

LEMMA NestedQuotients ==
    ASSUME NEW s \in Nat \ {0}, NEW t \in Nat \ {0}, NEW u \in Int,
           NEW v \in 0 .. t - 1, NEW w \in 0 .. s - 1
    PROVE  /\ s * t \in Nat \ {0} /\ s * v + w \in 0 .. (s * t) - 1
           /\ s * (t * u + v) + w = (s * t) * u + (s * v + w)
<1>1. s * v <= s * (t - 1) /\ s * v \in Nat
  <2>1. v <= t - 1 /\ t - 1 \in Nat
    OBVIOUS
  <2>2. \A x \in Nat, y \in Nat : x <= y => s * x <= s * y
    OBVIOUS
  <2> QED
    BY <2>1, <2>2
<1>2. s * (t - 1) = s * t - s
  OBVIOUS
<1>3. s * t \in Nat \ {0}
  OBVIOUS
<1>4. s * v + w \in 0 .. (s * t) - 1
  BY <1>1, <1>2, <1>3
<1> QED
  BY <1>3, <1>4

LEMMA DivDiv ==
    ASSUME NEW a \in Int, NEW s \in Nat \ {0}, NEW t \in Nat \ {0}
    PROVE  (a \div s) \div t = a \div (s * t)
<1>1. PICK q \in Int, w \in 0 .. s - 1 : q = a \div s /\ a = s * q + w
  BY Euclid
<1>2. PICK u \in Int, v \in 0 .. t - 1 : u = q \div t /\ q = t * u + v
  BY Euclid
<1>3. /\ s * t \in Nat \ {0} /\ s * v + w \in 0 .. (s * t) - 1
      /\ s * (t * u + v) + w = (s * t) * u + (s * v + w)
  BY NestedQuotients
<1>4. a = (s * t) * u + (s * v + w)
  BY <1>1, <1>2, <1>3
<1>5. a \div (s * t) = u
  BY <1>3, <1>4, EuclidUnique
<1> QED
  BY <1>1, <1>2, <1>5

LEMMA AddMultiple ==
    ASSUME NEW a \in Int, NEW s \in Nat \ {0}, NEW q \in Int
    PROVE  (a + s * q) \div s = (a \div s) + q /\ (a + s * q) % s = a % s
<1>1. PICK u \in Int, r \in 0 .. s - 1 : a = s * u + r
  BY Euclid
<1>2. a + s * q = s * (u + q) + r /\ u + q \in Int /\ a + s * q \in Int
  BY <1>1
<1>3. a \div s = u /\ a % s = r
  BY <1>1, EuclidUnique
<1>4. (a + s * q) \div s = u + q /\ (a + s * q) % s = r
  BY <1>2, EuclidUnique
<1> QED
  BY <1>3, <1>4

LEMMA SmallRemains ==
    ASSUME NEW s \in Nat \ {0}, NEW a \in 0 .. s - 1
    PROVE  a % s = a /\ a \div s = 0
OBVIOUS

-----------------------------------------------------------------------------
(* Words *)

P    == 2 ^ ByteBits
Half == Size \div 2

LEMMA WidthFacts ==
    /\ Width \in Nat \ {0} /\ Size \in Nat \ {0}
    /\ Half \in Nat \ {0} /\ Size = 2 * Half
    /\ Words = 0 .. Size - 1
<1>1. Width \in Nat \ {0} /\ Width - 1 \in Nat /\ (Width - 1) + 1 = Width
  BY SizesAssumption DEF Width
<1>2. Size \in Nat \ {0}
  BY <1>1, PowerPositive DEF Size
<1>3. 2 ^ (Width - 1) \in Nat \ {0} /\ Size = 2 * 2 ^ (Width - 1)
  BY <1>1, PowerStep DEF Size
<1>4. Half = 2 ^ (Width - 1)
  BY <1>2, <1>3 DEF Half
<1> QED
  BY <1>1, <1>2, <1>3, <1>4 DEF Words

LEMMA ByteFacts ==
    /\ P \in Nat \ {0} /\ P >= 2
    /\ 2 ^ (ByteBits * 0) = 1 /\ 2 ^ (ByteBits * 1) = P
    /\ 2 ^ (ByteBits * 2) = P * P /\ 2 ^ (2 * ByteBits) = P * P
    /\ 2 ^ (ByteBits * 3) = P * (P * P) /\ 2 ^ (3 * ByteBits) = P * (P * P)
    /\ 2 ^ (ByteBits * 4) = P * (P * (P * P)) /\ Size = P * (P * (P * P))
<1>0. ByteBits \in Nat \ {0}
  BY SizesAssumption
<1>1. P \in Nat \ {0} /\ P >= 2
  <2>1. ByteBits - 1 \in Nat /\ (ByteBits - 1) + 1 = ByteBits
    BY <1>0
  <2>2. 2 ^ (ByteBits - 1) \in Nat \ {0} /\ P = 2 * 2 ^ (ByteBits - 1)
    BY <2>1, PowerStep DEF P
  <2> QED
    BY <2>2
<1>2. /\ ByteBits * 0 = 0 /\ ByteBits * 1 = ByteBits
      /\ ByteBits * 2 = ByteBits + ByteBits /\ 2 * ByteBits = ByteBits + ByteBits
      /\ ByteBits * 3 = ByteBits + 2 * ByteBits /\ 3 * ByteBits = ByteBits + 2 * ByteBits
      /\ ByteBits * 4 = ByteBits + 3 * ByteBits /\ Width = ByteBits + 3 * ByteBits
      /\ 2 * ByteBits \in Nat /\ 3 * ByteBits \in Nat
  BY <1>0 DEF Width
<1>3. 2 ^ (ByteBits + ByteBits) = P * P
  BY <1>0, PowerSum DEF P
<1>4. 2 ^ (ByteBits + 2 * ByteBits) = P * (P * P)
  BY <1>0, <1>2, <1>3, PowerSum DEF P
<1>5. 2 ^ (ByteBits + 3 * ByteBits) = P * (P * (P * P))
  BY <1>0, <1>2, <1>4, PowerSum DEF P
<1> QED
  BY <1>1, <1>2, <1>3, <1>4, <1>5, PowerOfZero DEF P, Size

\* A sum or a difference of words, cut to the width.
LEMMA WrapFacts ==
    ASSUME NEW v \in Int
    PROVE  /\ Wrap(v) \in Words
           /\ v \in Words => Wrap(v) = v
           /\ v - Size \in Words => Wrap(v) = v - Size
           /\ v + Size \in Words => Wrap(v) = v + Size
           /\ Wrap(v + Size) = Wrap(v)
<1>1. Size \in Nat \ {0} /\ Words = 0 .. Size - 1
  BY WidthFacts
<1>2. v % Size \in 0 .. Size - 1
  BY <1>1, Euclid
<1>3. v \in Words => Wrap(v) = v
  BY <1>1, SmallRemains DEF Wrap
<1>4. \A q \in {1, -1} : (v + Size * q) % Size = v % Size
  <2> TAKE q \in {1, -1}
  <2>1. q \in Int
    OBVIOUS
  <2> QED
    BY <1>1, <2>1, AddMultiple
<1>5. v + Size * 1 = v + Size /\ v + Size * (-1) = v - Size
  BY <1>1
<1>6. Wrap(v + Size) = Wrap(v) /\ Wrap(v - Size) = Wrap(v)
  BY <1>4, <1>5 DEF Wrap
<1>7. \A u \in Words : u % Size = u
  BY <1>1, SmallRemains
<1> QED
  BY <1>1, <1>2, <1>3, <1>6, <1>7 DEF Wrap

\* Every set of bits is that of a word.
LEMMA BitsExist ==
    \A n \in Nat : \A s \in SUBSET (0 .. n - 1) :
        \E v \in 0 .. 2 ^ n - 1 : \A k \in 0 .. n - 1 : (v \div 2 ^ k) % 2 = 1 <=> k \in s
<1> DEFINE Has(v, n, s) == \A k \in 0 .. n - 1 : (v \div 2 ^ k) % 2 = 1 <=> k \in s
           Good(n) == \A s \in SUBSET (0 .. n - 1) : \E v \in 0 .. 2 ^ n - 1 : Has(v, n, s)
           Bad == {n \in Nat : ~Good(n)}
<1>1. SUFFICES \A n \in Nat : Good(n)
  OBVIOUS
<1> HIDE DEF Good
<1>2. SUFFICES ASSUME Bad # {} PROVE FALSE
  OBVIOUS
<1>3. PICK n \in Bad : \A j \in Bad : n <= j
  BY <1>2, NatHasLeast
<1>4. n # 0
  <2>1. Good(0)
    <3> USE DEF Good
    <3> SUFFICES ASSUME NEW s \in SUBSET (0 .. -1) PROVE \E v \in 0 .. 2 ^ 0 - 1 : Has(v, 0, s)
      OBVIOUS
    <3>1. 0 \in 0 .. 2 ^ 0 - 1 /\ Has(0, 0, s)
      BY PowerOfZero
    <3> QED
      BY <3>1
  <2> QED
    BY <2>1
<1> DEFINE m == n - 1
<1>5. m \in Nat /\ n = m + 1 /\ n \in Nat /\ Good(m)
  BY <1>3, <1>4
<1> HIDE DEF m
<1>6. Good(n)
  <2> SUFFICES ASSUME NEW s \in SUBSET (0 .. n - 1) PROVE \E v \in 0 .. 2 ^ n - 1 : Has(v, n, s)
    BY DEF Good
  <2>1. s \ {m} \in SUBSET (0 .. m - 1)
    BY <1>5
  <2>2. PICK v \in 0 .. 2 ^ m - 1 : Has(v, m, s \ {m})
    BY <1>5, <2>1 DEF Good
  <2>3. 2 ^ m \in Nat \ {0} /\ 2 ^ n = 2 * 2 ^ m
    BY <1>5, PowerStep
  <2>4. v \div 2 ^ m = 0 /\ (v + 2 ^ m) \div 2 ^ m = 1
    <3>1. /\ v = 2 ^ m * 0 + v /\ v + 2 ^ m = 2 ^ m * 1 + v
          /\ v \in Int /\ v + 2 ^ m \in Int /\ 2 ^ m \in Nat \ {0}
      BY <2>3
    <3>2. v \div 2 ^ m = 0
      BY <3>1, EuclidUnique
    <3>3. (v + 2 ^ m) \div 2 ^ m = 1
      BY <3>1, EuclidUnique
    <3> QED
      BY <3>2, <3>3
  <2>5. CASE m \in s
    <3>1. v + 2 ^ m \in 0 .. 2 ^ n - 1
      BY <2>3
    <3>2. ASSUME NEW k \in 0 .. m - 1
          PROVE  ((v + 2 ^ m) \div 2 ^ k) % 2 = (v \div 2 ^ k) % 2
      <4>1. k \in Nat /\ k \in 0 .. m /\ k < m
        BY <1>5
      <4>2. PICK h \in Nat : 2 ^ (m - k) = 2 * h
        BY <1>5, <4>1, PowerSplits
      <4>3. 2 ^ k \in Nat \ {0} /\ 2 ^ m = 2 ^ k * (2 * h) /\ 2 * h \in Int
        <5>1. 2 ^ m = 2 ^ k * 2 ^ (m - k)
          BY <1>5, <4>1, PowerSplits
        <5> QED
          BY <4>1, <4>2, <5>1, PowerPositive
      <4>4. (v + 2 ^ k * (2 * h)) \div 2 ^ k = (v \div 2 ^ k) + 2 * h
        <5>1. v \in Int
          BY <2>3
        <5> QED
          BY <4>3, <5>1, AddMultiple
      <4>5. v \div 2 ^ k \in Int
        BY <4>3, Euclid
      <4>6. ((v \div 2 ^ k) + 2 * h) % 2 = (v \div 2 ^ k) % 2
        BY <4>5, AddMultiple
      <4> QED
        BY <4>3, <4>4, <4>6
    <3>3. ASSUME NEW k \in 0 .. n - 1
          PROVE  ((v + 2 ^ m) \div 2 ^ k) % 2 = 1 <=> k \in s
      <4>1. CASE k = m
        BY <2>4, <2>5, <4>1
      <4>2. CASE k # m
        <5>1. k \in 0 .. m - 1
          BY <1>5, <4>2
        <5> QED
          BY <2>2, <3>2, <4>2, <5>1
      <4> QED
        BY <4>1, <4>2
    <3> QED
      BY <3>1, <3>3
  <2>6. CASE m \notin s
    <3>1. v \in 0 .. 2 ^ n - 1
      BY <2>3
    <3>2. ASSUME NEW k \in 0 .. n - 1 PROVE (v \div 2 ^ k) % 2 = 1 <=> k \in s
      <4>1. CASE k = m
        BY <2>4, <2>6, <4>1
      <4>2. CASE k # m
        <5>1. k \in 0 .. m - 1
          BY <1>5, <4>2
        <5> QED
          BY <2>2, <2>6, <5>1
      <4> QED
        BY <4>1, <4>2
    <3> QED
      BY <3>1, <3>2
  <2> QED
    BY <2>5, <2>6
<1> QED
  BY <1>3, <1>6

LEMMA OfOnesFacts ==
    ASSUME NEW s \in SUBSET (0 .. Width - 1)
    PROVE  OfOnes(s) \in Words /\ Ones(OfOnes(s)) = s
<1>1. PICK v \in 0 .. 2 ^ Width - 1 : \A k \in 0 .. Width - 1 : (v \div 2 ^ k) % 2 = 1 <=> k \in s
  BY WidthFacts, BitsExist
<1>2. v \in Words /\ Ones(v) = s
  BY <1>1 DEF Words, Size, Ones
<1> QED
  BY <1>2 DEF OfOnes

-----------------------------------------------------------------------------
(* The ALU: what it computes for each of its operations *)

AddOp  == <<FALSE, TRUE, FALSE>>
SubOp  == <<TRUE, TRUE, FALSE>>
SltOp  == <<TRUE, TRUE, TRUE>>
SltuOp == <<FALSE, TRUE, TRUE>>
AndOp  == <<FALSE, FALSE, FALSE>>
OrOp   == <<FALSE, FALSE, TRUE>>
XorOp  == <<TRUE, FALSE, FALSE>>

LEMMA AluArms ==
    ASSUME NEW a, NEW b
    PROVE  /\ AluResult(a, b, AddOp) = Wrap(add_res(a, b, AddOp))
           /\ AluResult(a, b, SubOp) = Wrap(add_res(a, b, SubOp))
           /\ AluResult(a, b, SltOp) = Wire(Slt(a, b, SltOp))
           /\ AluResult(a, b, SltuOp) = Wire(CarryOut(a, b, SltuOp))
           /\ AluResult(a, b, AndOp) = OfOnes(Ones(a) \cap Ones(b))
           /\ AluResult(a, b, OrOp) = OfOnes(Ones(a) \cup Ones(b))
           /\ AluResult(a, b, XorOp) = OfOnes((Ones(a) \cup Ones(b)) \ (Ones(a) \cap Ones(b)))
BY DEF AluResult, AddOp, SubOp, SltOp, SltuOp, AndOp, OrOp, XorOp

LEMMA CinFacts ==
    ~Cin(AddOp) /\ Cin(SubOp) /\ Cin(SltOp) /\ Cin(SltuOp)
BY DEF Cin, AddOp, SubOp, SltOp, SltuOp

\* The adder adds, and subtracts with the carry set.
LEMMA AdderFacts ==
    ASSUME NEW a \in Words, NEW b \in Words, NEW op
    PROVE  /\ ~Cin(op) => add_res(a, b, op) = a + b
           /\ Cin(op) => add_res(a, b, op) = (a - b) + Size
           /\ Cin(op) => Signed_B(b, op) = Size - 1 - b
BY WidthFacts DEF add_res, Signed_B, Wire

LEMMA AluAdds ==
    ASSUME NEW a \in Words, NEW b \in Words
    PROVE  AluResult(a, b, AddOp) = Wrap(a + b)
<1>1. add_res(a, b, AddOp) = a + b
  BY CinFacts, AdderFacts
<1> QED
  BY <1>1, AluArms

LEMMA AluSubtracts ==
    ASSUME NEW a \in Words, NEW b \in Words
    PROVE  /\ AluResult(a, b, SubOp) = Wrap(a - b)
           /\ AluResult(a, b, SubOp) = 0 <=> a = b
<1>1. a - b \in Int /\ (a - b \in Words \/ a - b + Size \in Words)
  BY WidthFacts
<1>2. Wrap(a - b + Size) = Wrap(a - b)
  BY <1>1, WrapFacts
<1>3. AluResult(a, b, SubOp) = Wrap(a - b)
  <2>1. add_res(a, b, SubOp) = a - b + Size
    BY CinFacts, AdderFacts
  <2>2. AluResult(a, b, SubOp) = Wrap(add_res(a, b, SubOp))
    BY AluArms
  <2> QED
    BY <1>2, <2>1, <2>2
<1>4. Wrap(a - b) = IF a - b \in Words THEN a - b ELSE a - b + Size
  BY <1>1, WrapFacts
<1> QED
  BY <1>3, <1>4, WidthFacts

\* The carry of a subtraction is lost when it borrows.
LEMMA AluComparesUnsigned ==
    ASSUME NEW a \in Words, NEW b \in Words
    PROVE  AluResult(a, b, SltuOp) = IF a < b THEN 1 ELSE 0
<1>1. CarryOut(a, b, SltuOp) <=> (a - b) + Size < Size
  BY CinFacts, AdderFacts DEF CarryOut
<1>2. CarryOut(a, b, SltuOp) <=> a < b
  BY <1>1, WidthFacts
<1> QED
  BY <1>2, AluArms DEF Wire

\* The sign of the difference is wrong exactly when the subtraction overflows.
LEMMA AluComparesSigned ==
    ASSUME NEW a \in Words, NEW b \in Words
    PROVE  AluResult(a, b, SltOp) = IF Arch!Signed(a) < Arch!Signed(b) THEN 1 ELSE 0
<1>1. /\ Half \in Nat \ {0} /\ Size = 2 * Half
      /\ a \in 0 .. Size - 1 /\ b \in 0 .. Size - 1
  BY WidthFacts
<1>2. /\ Arch!Signed(a) = IF a >= Half THEN a - Size ELSE a
      /\ Arch!Signed(b) = IF b >= Half THEN b - Size ELSE b
      /\ \A v : Sign(v) <=> v >= Half
  BY DEF Arch!Signed, Arch!Size, Arch!Width, Size, Width, Half, Sign
<1>3. Wrap(a - b + Size) = IF a >= b THEN a - b ELSE a - b + Size
  <2>1. a - b \in Int /\ a - b + Size \in Int /\ Wrap(a - b + Size) = Wrap(a - b)
    BY <1>1, WrapFacts
  <2>2. a >= b => a - b \in Words
    BY <1>1, WidthFacts
  <2>3. ~(a >= b) => a - b + Size \in Words
    BY <1>1, WidthFacts
  <2> QED
    BY <2>1, <2>2, <2>3, WrapFacts
<1>4. Overflow(a, b, SltOp)
        <=> /\ a >= Half <=> Size - 1 - b >= Half
            /\ ~(a >= Half <=> Wrap(a - b + Size) >= Half)
  <2>1. Overflow(a, b, SltOp)
          <=> /\ Sign(a) = Sign(Size - 1 - b)
              /\ Sign(a) # Sign(Wrap(a - b + Size))
    BY CinFacts, AdderFacts DEF Overflow
  <2>2. \A v : Sign(v) \in BOOLEAN
    BY DEF Sign
  <2>3. \A u, v : (Sign(u) = Sign(v)) <=> (Sign(u) <=> Sign(v))
    BY <2>2, Zenon
  <2> QED
    BY <1>2, <2>1, <2>3
<1>5. Slt(a, b, SltOp) <=> ~(Wrap(a - b + Size) >= Half <=> Overflow(a, b, SltOp))
  <2>1. Slt(a, b, SltOp) <=> Sign(Wrap(a - b + Size)) # Overflow(a, b, SltOp)
    BY CinFacts, AdderFacts DEF Slt
  <2>2. Sign(Wrap(a - b + Size)) \in BOOLEAN /\ Overflow(a, b, SltOp) \in BOOLEAN
    BY DEF Sign, Overflow
  <2>3. (Sign(Wrap(a - b + Size)) = Overflow(a, b, SltOp))
          <=> (Sign(Wrap(a - b + Size)) <=> Overflow(a, b, SltOp))
    BY <2>2, Zenon
  <2> QED
    BY <1>2, <2>1, <2>3
<1>6. Slt(a, b, SltOp) <=> Arch!Signed(a) < Arch!Signed(b)
  <2>1. Size - 1 - b >= Half <=> ~(b >= Half)
    BY <1>1
  <2>2. CASE a >= Half /\ b >= Half
    <3>1. Arch!Signed(a) < Arch!Signed(b) <=> a < b
      BY <1>1, <1>2, <2>2
    <3>2. ~Overflow(a, b, SltOp)
      BY <1>4, <2>1, <2>2
    <3>3. Wrap(a - b + Size) >= Half <=> a < b
      BY <1>1, <1>3, <2>2
    <3> QED
      BY <1>5, <3>1, <3>2, <3>3
  <2>3. CASE ~(a >= Half) /\ ~(b >= Half)
    <3>1. Arch!Signed(a) < Arch!Signed(b) <=> a < b
      BY <1>1, <1>2, <2>3
    <3>2. ~Overflow(a, b, SltOp)
      BY <1>4, <2>1, <2>3
    <3>3. Wrap(a - b + Size) >= Half <=> a < b
      BY <1>1, <1>3, <2>3
    <3> QED
      BY <1>5, <3>1, <3>2, <3>3
  <2>4. CASE a >= Half /\ ~(b >= Half)
    <3>1. Arch!Signed(a) < Arch!Signed(b)
      BY <1>1, <1>2, <2>4
    <3> QED
      BY <1>4, <1>5, <2>1, <2>4, <3>1
  <2>5. CASE ~(a >= Half) /\ b >= Half
    <3>1. ~(Arch!Signed(a) < Arch!Signed(b))
      BY <1>1, <1>2, <2>5
    <3> QED
      BY <1>4, <1>5, <2>1, <2>5, <3>1
  <2> QED
    BY <2>2, <2>3, <2>4, <2>5
<1> QED
  BY <1>6, AluArms DEF Wire

\* The three operations of the shifter.  Repeating the sign on the left adds a
\* multiple of the size, before the shift and after it.
LEMMA ShifterFacts ==
    ASSUME NEW a \in Words, NEW b \in 0 .. Width - 1
    PROVE  /\ ShiftResult(a, b, <<FALSE, FALSE>>) = Wrap(a * 2 ^ b)
           /\ ShiftResult(a, b, <<FALSE, TRUE>>) = Wrap(a \div 2 ^ b)
           /\ ShiftResult(a, b, <<TRUE, TRUE>>) = Wrap(Arch!Signed(a) \div 2 ^ b)
<1>1. /\ Width \in Nat /\ b \in 0 .. Width /\ Size \in Nat \ {0} /\ a \in Int /\ b \in Nat
      /\ a \in 0 .. Size - 1 /\ Words = 0 .. Size - 1
  BY WidthFacts
<1>2. /\ ShiftResult(a, b, <<FALSE, FALSE>>) = Wrap(a * 2 ^ b)
      /\ ShiftResult(a, b, <<FALSE, TRUE>>) = a \div 2 ^ b
      /\ ShiftResult(a, b, <<TRUE, TRUE>>) = Wrap(a_sign_ext(a) \div 2 ^ b)
  BY DEF ShiftResult
<1>3. PICK p \in Nat \ {0}, q \in Nat : p = 2 ^ b /\ Size = p * q
  <2>1. 2 ^ b \in Nat \ {0} /\ 2 ^ (Width - b) \in Nat \ {0}
    BY <1>1, PowerPositive
  <2>2. Size = 2 ^ b * 2 ^ (Width - b)
    BY <1>1, PowerSplits DEF Size
  <2> QED
    BY <2>1, <2>2
<1>4. a \div p \in Words
  <2>1. PICK u \in Int, r \in 0 .. p - 1 : u = a \div p /\ a = p * u + r
    <3>1. a \div p \in Int /\ a % p \in 0 .. p - 1 /\ a = p * (a \div p) + (a % p)
      BY <1>1, <1>3, Euclid
    <3> QED
      BY <3>1
  <2>2. u >= 0
    BY <1>1, <1>3, <2>1
  <2>3. u <= a
    BY <1>1, <1>3, <2>1, <2>2
  <2> QED
    BY <1>1, <2>1, <2>2, <2>3
<1>5. a_sign_ext(a) \div p \in Int /\ Wrap(a_sign_ext(a) \div p) = Wrap(Arch!Signed(a) \div p)
  <2>1. Arch!Signed(a) = IF Sign(a) THEN a - Size ELSE a
    BY DEF Arch!Signed, Arch!Size, Arch!Width, Size, Width, Sign
  <2>2. CASE ~Sign(a)
    BY <1>1, <1>3, <2>1, <2>2, Euclid DEF a_sign_ext
  <2>3. CASE Sign(a)
    <3>1. a_sign_ext(a) = (a - Size) + p * (q * Size)
      BY <1>1, <1>3, <2>3 DEF a_sign_ext
    <3>2. PICK m \in Int, d \in Int, k \in Int :
              m = a - Size /\ d = m \div p /\ k = q * Size /\ k = Size * q
      <4>1. q * Size \in Int /\ a - Size \in Int /\ q * Size = Size * q
        BY <1>1, <1>3
      <4>2. (a - Size) \div p \in Int
        BY <1>3, <4>1, Euclid
      <4> QED
        BY <4>1, <4>2
    <3>3. (m + p * k) \div p = d + k
      <4>1. p \in Nat \ {0} /\ d = m \div p
        BY <1>3, <3>2
      <4> QED
        BY <4>1, AddMultiple
    <3>4. (d + Size * q) % Size = d % Size
      <4>1. Size \in Nat \ {0} /\ q \in Int
        BY <1>1, <1>3
      <4> QED
        BY <4>1, AddMultiple
    <3>5. a_sign_ext(a) = m + p * k
      BY <3>1, <3>2
    <3>6. a_sign_ext(a) \div p = d + Size * q /\ d + Size * q \in Int
      BY <1>1, <1>3, <3>2, <3>3, <3>5
    <3> QED
      BY <2>1, <2>3, <3>2, <3>4, <3>6 DEF Wrap
  <2> QED
    BY <2>2, <2>3
<1> QED
  BY <1>1, <1>2, <1>3, <1>4, <1>5, WrapFacts

-----------------------------------------------------------------------------
(* Decoding *)

LEMMA InstructionFacts ==
    ASSUME NEW i \in Instructions
    PROVE  /\ i.type \in Types /\ i.funct3 \in 0 .. 7 /\ i.funct3 \in Funct3(i.type)
           /\ i.alt \in BOOLEAN /\ i.mul \in BOOLEAN
           /\ i.alt /\ i.type = "R" => i.funct3 \in {0, 5}
           /\ i.alt /\ i.type = "I" => i.funct3 # 1
           /\ i.mul => i.type = "R" /\ i.funct3 = 0 /\ ~i.alt
           /\ i.rd \in Regs /\ i.rs1 \in Regs /\ i.rs2 \in Regs
           /\ i.imm \in Words
           /\ i.type = "B" => i.funct3 \in {0, 1, 4, 5, 6, 7}
           /\ i.type = "L" => i.funct3 \in {0, 1, 2, 4, 5}
           /\ i.type = "S" => i.funct3 \in {0, 1, 2}
<1>1. i.funct3 \in Funct3(i.type) /\ i.type \in Types
  BY InstructionsAssumption
<1> QED
  BY <1>1, InstructionsAssumption DEF Funct3, Types

LEMMA Funct3Bits ==
    ASSUME NEW i \in Instructions
    PROVE  /\ F(i, 0) <=> i.funct3 \in {1, 3, 5, 7}
           /\ F(i, 1) <=> i.funct3 \in {2, 3, 6, 7}
           /\ F(i, 2) <=> i.funct3 \in {4, 5, 6, 7}
           /\ is_shift(i) <=> i.type \in {"R", "I"} /\ i.funct3 \in {1, 5}
<1>1. i.funct3 \in 0 .. 7
  BY InstructionFacts
<1>2. /\ F(i, 0) <=> i.funct3 \in {1, 3, 5, 7}
      /\ F(i, 1) <=> i.funct3 \in {2, 3, 6, 7}
      /\ F(i, 2) <=> i.funct3 \in {4, 5, 6, 7}
  BY <1>1 DEF F
<1> QED
  BY <1>1, <1>2 DEF is_shift

\* What an operation must be, for an instruction that uses the ALU.
Decodes(i, op) ==
    /\ i.type \in {"R", "I"} =>
        /\ i.funct3 = 0 => op = IF i.type = "R" /\ i.alt THEN SubOp ELSE AddOp
        /\ i.funct3 = 2 => op = SltOp
        /\ i.funct3 = 3 => op = SltuOp
        /\ i.funct3 = 4 => op = XorOp
        /\ i.funct3 = 6 => op = OrOp
        /\ i.funct3 = 7 => op = AndOp
    /\ i.type = "B" =>
        /\ i.funct3 \in {0, 1} => op = SubOp
        /\ i.funct3 \in {4, 5} => op = SltOp
        /\ i.funct3 \in {6, 7} => op = SltuOp
    /\ i.type \notin {"R", "I", "B"} => op = AddOp

\* The bits of funct3 as they are put together to an operation.
LEMMA OpBits ==
    ASSUME NEW i \in Instructions
    PROVE  LET logic   == <<F(i, 2) # F(i, 1), FALSE, F(i, 1) # F(i, 0)>>
               compare == <<~F(i, 0), TRUE, TRUE>>
           IN  /\ i.funct3 = 2 => compare = SltOp
               /\ i.funct3 = 3 => compare = SltuOp
               /\ i.funct3 = 4 => logic = XorOp
               /\ i.funct3 = 6 => logic = OrOp
               /\ i.funct3 = 7 => logic = AndOp
<1>0. F(i, 0) \in BOOLEAN /\ F(i, 1) \in BOOLEAN /\ F(i, 2) \in BOOLEAN
  BY DEF F
<1>1. ASSUME i.funct3 = 2 PROVE <<~F(i, 0), TRUE, TRUE>> = SltOp
  <2>1. ~F(i, 0)
    BY <1>1, Funct3Bits
  <2> QED
    BY <2>1, Zenon DEF SltOp
<1>2. ASSUME i.funct3 = 3 PROVE <<~F(i, 0), TRUE, TRUE>> = SltuOp
  <2>1. F(i, 0)
    BY <1>2, Funct3Bits
  <2> QED
    BY <2>1, Zenon DEF SltuOp
<1>3. ASSUME i.funct3 = 4 PROVE <<F(i, 2) # F(i, 1), FALSE, F(i, 1) # F(i, 0)>> = XorOp
  <2>1. F(i, 2) /\ ~F(i, 1) /\ ~F(i, 0)
    BY <1>3, Funct3Bits
  <2>2. (F(i, 2) # F(i, 1)) = TRUE /\ (F(i, 1) # F(i, 0)) = FALSE
    BY <1>0, <2>1, Zenon
  <2> QED
    BY <2>2, Zenon DEF XorOp
<1>4. ASSUME i.funct3 = 6 PROVE <<F(i, 2) # F(i, 1), FALSE, F(i, 1) # F(i, 0)>> = OrOp
  <2>1. F(i, 2) /\ F(i, 1) /\ ~F(i, 0)
    BY <1>4, Funct3Bits
  <2>2. (F(i, 2) # F(i, 1)) = FALSE /\ (F(i, 1) # F(i, 0)) = TRUE
    BY <1>0, <2>1, Zenon
  <2> QED
    BY <2>2, Zenon DEF OrOp
<1>5. ASSUME i.funct3 = 7 PROVE <<F(i, 2) # F(i, 1), FALSE, F(i, 1) # F(i, 0)>> = AndOp
  <2>1. F(i, 2) /\ F(i, 1) /\ F(i, 0)
    BY <1>5, Funct3Bits
  <2>2. (F(i, 2) # F(i, 1)) = FALSE /\ (F(i, 1) # F(i, 0)) = FALSE
    BY <1>0, <2>1, Zenon
  <2> QED
    BY <2>2, Zenon DEF AndOp
<1> QED
  BY <1>1, <1>2, <1>3, <1>4, <1>5

LEMMA AltOps ==
    ASSUME NEW i \in Instructions
    PROVE  <<i.alt, TRUE, FALSE>> = IF i.alt THEN SubOp ELSE AddOp
<1>1. i.alt \in BOOLEAN
  BY InstructionFacts
<1>2. CASE i.alt
  <2>1. i.alt = TRUE
    BY <1>1, <1>2, Zenon
  <2> QED
    BY <1>2, <2>1 DEF SubOp
<1>3. CASE ~i.alt
  <2>1. i.alt = FALSE
    BY <1>1, <1>3, Zenon
  <2> QED
    BY <1>3, <2>1 DEF AddOp
<1> QED
  BY <1>2, <1>3

\* The comparison of a branch, from funct3 as the two equations combine it.
LEMMA BranchOps ==
    ASSUME NEW i \in Instructions
    PROVE  LET single == <<~F(i, 1), TRUE, F(i, 2)>>
               other  == <<~F(i, 2) \/ ~F(i, 1), TRUE, F(i, 2) \/ F(i, 1)>>
           IN  /\ i.funct3 \in {0, 1} => single = SubOp /\ other = SubOp
               /\ i.funct3 \in {4, 5} => single = SltOp /\ other = SltOp
               /\ i.funct3 \in {6, 7} => single = SltuOp /\ other = SltuOp
<1> DEFINE single == <<~F(i, 1), TRUE, F(i, 2)>>
           other  == <<~F(i, 2) \/ ~F(i, 1), TRUE, F(i, 2) \/ F(i, 1)>>
<1>0. F(i, 1) \in BOOLEAN /\ F(i, 2) \in BOOLEAN
  BY DEF F
<1>1. ASSUME i.funct3 \in {0, 1} PROVE single = SubOp /\ other = SubOp
  <2>1. ~F(i, 2) /\ ~F(i, 1)
    BY <1>1, Funct3Bits
  <2>2. F(i, 2) = FALSE /\ (~F(i, 1)) = TRUE
    BY <1>0, <2>1, Zenon
  <2>3. (~F(i, 2) \/ ~F(i, 1)) = TRUE /\ (F(i, 2) \/ F(i, 1)) = FALSE
    BY <2>1, Zenon
  <2> QED
    BY <2>2, <2>3, Zenon DEF SubOp
<1>2. ASSUME i.funct3 \in {4, 5} PROVE single = SltOp /\ other = SltOp
  <2>1. F(i, 2) /\ ~F(i, 1)
    BY <1>2, Funct3Bits
  <2>2. F(i, 2) = TRUE /\ (~F(i, 1)) = TRUE
    BY <1>0, <2>1, Zenon
  <2>3. (~F(i, 2) \/ ~F(i, 1)) = TRUE /\ (F(i, 2) \/ F(i, 1)) = TRUE
    BY <2>1, Zenon
  <2> QED
    BY <2>2, <2>3, Zenon DEF SltOp
<1>3. ASSUME i.funct3 \in {6, 7} PROVE single = SltuOp /\ other = SltuOp
  <2>1. F(i, 2) /\ F(i, 1)
    BY <1>3, Funct3Bits
  <2>2. F(i, 2) = TRUE /\ (~F(i, 1)) = FALSE
    BY <1>0, <2>1, Zenon
  <2>3. (~F(i, 2) \/ ~F(i, 1)) = FALSE /\ (F(i, 2) \/ F(i, 1)) = TRUE
    BY <2>1, Zenon
  <2> QED
    BY <2>2, <2>3, Zenon DEF SltuOp
<1> QED
  BY <1>1, <1>2, <1>3

LEMMA SingleCycleDecodes ==
    ASSUME NEW i \in Instructions, ~i.mul
    PROVE  Decodes(i, aluop(i))
<1>1. CASE i.type \in {"R", "I"}
  <2>1. ASSUME i.funct3 = 0 PROVE aluop(i) = IF i.type = "R" /\ i.alt THEN SubOp ELSE AddOp
    <3>1. CASE i.type = "R"
      <4>1. /\ i.type = "R" /\ i.funct3 = 0
          /\ ~(i.type = "I" /\ i.funct3 = 0)
          /\ ~(i.type \in {"R", "I"} /\ F(i, 2))
          /\ ~(i.type \in {"R", "I"} /\ ~F(i, 2) /\ F(i, 1))
          /\ ~(i.type = "B")
        BY <2>1, <3>1, Funct3Bits
      <4>2. aluop(i) = <<i.alt, TRUE, FALSE>>
        BY <4>1, Zenon DEF aluop
      <4> QED
        BY <3>1, <4>2, AltOps
    <3>2. CASE i.type = "I"
      <4>1. /\ ~(i.type = "R" /\ i.funct3 = 0)
          /\ i.type = "I" /\ i.funct3 = 0
          /\ ~(i.type \in {"R", "I"} /\ F(i, 2))
          /\ ~(i.type \in {"R", "I"} /\ ~F(i, 2) /\ F(i, 1))
          /\ ~(i.type = "B")
        BY <2>1, <3>2, Funct3Bits
      <4>2. aluop(i) = <<FALSE, TRUE, FALSE>>
        BY <4>1, Zenon DEF aluop
      <4> QED
        BY <3>2, <4>2 DEF AddOp
    <3> QED
      BY <1>1, <3>1, <3>2
  <2>2. ASSUME i.funct3 \in {2, 3} PROVE aluop(i) = <<~F(i, 0), TRUE, TRUE>>
    <3>1. /\ ~(i.type = "R" /\ i.funct3 = 0)
          /\ ~(i.type = "I" /\ i.funct3 = 0)
          /\ ~(i.type \in {"R", "I"} /\ F(i, 2))
          /\ i.type \in {"R", "I"} /\ ~F(i, 2) /\ F(i, 1)
          /\ ~(i.type = "B")
      BY <1>1, <2>2, Funct3Bits
    <3> QED
      BY <3>1, Zenon DEF aluop
  <2>3. ASSUME i.funct3 \in {4, 6, 7}
        PROVE  aluop(i) = <<F(i, 2) # F(i, 1), FALSE, F(i, 1) # F(i, 0)>>
    <3>1. /\ ~(i.type = "R" /\ i.funct3 = 0)
          /\ ~(i.type = "I" /\ i.funct3 = 0)
          /\ i.type \in {"R", "I"} /\ F(i, 2)
          /\ ~(i.type \in {"R", "I"} /\ ~F(i, 2) /\ F(i, 1))
          /\ ~(i.type = "B")
      BY <1>1, <2>3, Funct3Bits
    <3> QED
      BY <3>1, Zenon DEF aluop
  <2> QED
    BY <1>1, <2>1, <2>2, <2>3, OpBits DEF Decodes
<1>2. CASE i.type = "B"
  BY <1>2, BranchOps DEF aluop, Decodes
<1>3. CASE i.type \notin {"R", "I", "B"}
  BY <1>3 DEF aluop, Decodes, AddOp
<1> QED
  BY <1>1, <1>2, <1>3

LEMMA PipelineDecodes ==
    ASSUME NEW i \in Instructions, ~i.mul
    PROVE  Decodes(i, id_aluop(i))
<1>1. CASE i.type \in {"R", "I"}
  <2>1. ASSUME i.funct3 = 0 PROVE id_aluop(i) = IF i.type = "R" /\ i.alt THEN SubOp ELSE AddOp
    <3>1. CASE i.type = "R"
      <4>1. /\ i.type = "R" /\ i.funct3 = 0 /\ ~id_is_mul(i)
          /\ ~(i.type = "I" /\ i.funct3 = 0)
          /\ ~(id_is_logic(i))
          /\ ~(id_is_comp(i))
          /\ ~(i.type = "B")
          /\ ~(id_is_mul(i))
        BY <2>1, <3>1, Funct3Bits DEF id_is_mul, id_is_logic, id_is_comp
      <4>2. id_aluop(i) = <<i.alt, TRUE, FALSE>>
        BY <4>1, Zenon DEF id_aluop
      <4> QED
        BY <3>1, <4>2, AltOps
    <3>2. CASE i.type = "I"
      <4>1. /\ ~(i.type = "R" /\ i.funct3 = 0 /\ ~id_is_mul(i))
          /\ i.type = "I" /\ i.funct3 = 0
          /\ ~(id_is_logic(i))
          /\ ~(id_is_comp(i))
          /\ ~(i.type = "B")
          /\ ~(id_is_mul(i))
        BY <2>1, <3>2, Funct3Bits DEF id_is_mul, id_is_logic, id_is_comp
      <4>2. id_aluop(i) = <<FALSE, TRUE, FALSE>>
        BY <4>1, Zenon DEF id_aluop
      <4> QED
        BY <3>2, <4>2 DEF AddOp
    <3> QED
      BY <1>1, <3>1, <3>2
  <2>2. ASSUME i.funct3 \in {2, 3} PROVE id_aluop(i) = <<~F(i, 0), TRUE, TRUE>>
    <3>1. /\ ~(i.type = "R" /\ i.funct3 = 0 /\ ~id_is_mul(i))
          /\ ~(i.type = "I" /\ i.funct3 = 0)
          /\ ~(id_is_logic(i))
          /\ id_is_comp(i)
          /\ ~(i.type = "B")
          /\ ~(id_is_mul(i))
      BY <1>1, <2>2, Funct3Bits DEF id_is_mul, id_is_logic, id_is_comp
    <3> QED
      BY <3>1, Zenon DEF id_aluop
  <2>3. ASSUME i.funct3 \in {4, 6, 7}
        PROVE  id_aluop(i) = <<F(i, 2) # F(i, 1), FALSE, F(i, 1) # F(i, 0)>>
    <3>1. /\ ~(i.type = "R" /\ i.funct3 = 0 /\ ~id_is_mul(i))
          /\ ~(i.type = "I" /\ i.funct3 = 0)
          /\ id_is_logic(i)
          /\ ~(id_is_comp(i))
          /\ ~(i.type = "B")
          /\ ~(id_is_mul(i))
      BY <1>1, <2>3, Funct3Bits DEF id_is_mul, id_is_logic, id_is_comp
    <3> QED
      BY <3>1, Zenon DEF id_aluop
  <2> QED
    BY <1>1, <2>1, <2>2, <2>3, OpBits DEF Decodes
<1>2. CASE i.type = "B"
  BY <1>2, BranchOps DEF id_aluop, id_is_mul, id_is_logic, id_is_comp, BranchAluop, Decodes
<1>3. CASE i.type \notin {"R", "I", "B"}
  BY <1>3 DEF id_aluop, id_is_mul, id_is_logic, id_is_comp, BranchAluop, Decodes, AddOp
<1> QED
  BY <1>1, <1>2, <1>3

LEMMA MultiCycleDecodes ==
    ASSUME NEW i \in Instructions, ~i.mul
    PROVE  Decodes(i, aluop_EX(i))
<1>1. CASE i.type \in {"R", "I"}
  <2>1. ASSUME i.funct3 = 0 PROVE aluop_EX(i) = IF i.type = "R" /\ i.alt THEN SubOp ELSE AddOp
    <3>1. CASE i.type = "R"
      <4>1. /\ i.type = "R" /\ i.funct3 = 0
          /\ ~(i.type \in {"R", "I"} /\ F(i, 2) /\ ~is_shift(i))
          /\ ~(i.type \in {"R", "I"} /\ i.funct3 \in {2, 3})
          /\ ~(i.type = "B")
        BY <2>1, <3>1, Funct3Bits
      <4>2. aluop_EX(i) = <<i.alt, TRUE, FALSE>>
        BY <4>1, Zenon DEF aluop_EX
      <4> QED
        BY <3>1, <4>2, AltOps
    <3>2. CASE i.type = "I"
      <4>1. /\ ~(i.type = "R" /\ i.funct3 = 0)
          /\ ~(i.type \in {"R", "I"} /\ F(i, 2) /\ ~is_shift(i))
          /\ ~(i.type \in {"R", "I"} /\ i.funct3 \in {2, 3})
          /\ ~(i.type = "B")
        BY <2>1, <3>2, Funct3Bits
      <4>2. aluop_EX(i) = <<FALSE, TRUE, FALSE>>
        BY <4>1, Zenon DEF aluop_EX
      <4> QED
        BY <3>2, <4>2 DEF AddOp
    <3> QED
      BY <1>1, <3>1, <3>2
  <2>2. ASSUME i.funct3 \in {2, 3} PROVE aluop_EX(i) = <<~F(i, 0), TRUE, TRUE>>
    <3>1. /\ ~(i.type = "R" /\ i.funct3 = 0)
          /\ ~(i.type \in {"R", "I"} /\ F(i, 2) /\ ~is_shift(i))
          /\ i.type \in {"R", "I"} /\ i.funct3 \in {2, 3}
          /\ ~(i.type = "B")
      BY <1>1, <2>2, Funct3Bits
    <3> QED
      BY <3>1, Zenon DEF aluop_EX
  <2>3. ASSUME i.funct3 \in {4, 6, 7}
        PROVE  aluop_EX(i) = <<F(i, 2) # F(i, 1), FALSE, F(i, 1) # F(i, 0)>>
    <3>1. /\ ~(i.type = "R" /\ i.funct3 = 0)
          /\ i.type \in {"R", "I"} /\ F(i, 2) /\ ~is_shift(i)
          /\ ~(i.type \in {"R", "I"} /\ i.funct3 \in {2, 3})
          /\ ~(i.type = "B")
      BY <1>1, <2>3, Funct3Bits
    <3> QED
      BY <3>1, Zenon DEF aluop_EX
  <2> QED
    BY <1>1, <2>1, <2>2, <2>3, OpBits DEF Decodes
<1>2. CASE i.type = "B"
  BY <1>2, BranchOps DEF aluop_EX, Decodes
<1>3. CASE i.type \notin {"R", "I", "B"}
  BY <1>3 DEF aluop_EX, Decodes, AddOp
<1> QED
  BY <1>1, <1>2, <1>3

-----------------------------------------------------------------------------
(* The operands, and what an instruction computes from them *)

TypeInv ==
    /\ pc \in Words
    /\ rf \in [Regs -> Words]
    /\ mem \in [0 .. MemWords - 1 -> Words]

LEMMA ArchWords ==
    /\ Arch!Width = Width /\ Arch!Size = Size
    /\ \A v : Arch!Wrap(v) = Wrap(v)
    /\ \A v, n : Arch!Bit(v, n) = (v \div 2 ^ n) % 2
    /\ \A s : Arch!WordOf(s) = OfOnes(s)
<1>1. Arch!Width = Width
  BY DEF Arch!Width, Width
<1>2. Arch!Size = Size
  BY <1>1 DEF Arch!Size, Size
<1>3. \A v, n : Arch!Bit(v, n) = (v \div 2 ^ n) % 2
  BY DEF Arch!Bit
<1>4. \A s : Arch!WordOf(s) = OfOnes(s)
  BY <1>1, <1>2, Zenon DEF Arch!WordOf, OfOnes, Ones, Words, Arch!Bit
<1>5. \A v : Arch!Wrap(v) = Wrap(v)
  BY <1>2 DEF Arch!Wrap, Wrap
<1> QED
  BY <1>1, <1>2, <1>3, <1>4, <1>5

LEMMA Operands ==
    ASSUME TypeInv, NEW i \in Instructions
    PROVE  /\ rdata1(i) \in Words /\ rdata2(i) \in Words
           /\ Arch!Left(i) = rdata1(i) /\ Shown(rf)[i.rs2] = rdata2(i)
           /\ Arch!Right(i) = IF i.type \in {"R", "B"} THEN rdata2(i) ELSE i.imm
           /\ Arch!Right(i) \in Words
           /\ Arch!Places(i) = Arch!Right(i) % Width
<1>1. i.rs1 \in Regs /\ i.rs2 \in Regs /\ i.imm \in Words
  BY InstructionFacts
<1>2. 0 \in Words
  BY WidthFacts
<1>3. rdata1(i) \in Words /\ rdata2(i) \in Words
  BY <1>1, <1>2 DEF TypeInv, rdata1, rdata2, ReadPort
<1>4. Shown(rf)[i.rs1] = rdata1(i) /\ Shown(rf)[i.rs2] = rdata2(i)
  BY <1>1 DEF Shown, rdata1, rdata2
<1>5. Arch!Left(i) = rdata1(i)
  BY <1>4 DEF Arch!Left
<1>6. Arch!Right(i) = IF i.type \in {"R", "B"} THEN rdata2(i) ELSE i.imm
  BY <1>4 DEF Arch!Right
<1>7. Arch!Places(i) = Arch!Right(i) % Width
  BY ArchWords DEF Arch!Places
<1> QED
  BY <1>1, <1>3, <1>4, <1>5, <1>6, <1>7

\* The bits of two words, one by one, and the words of their ones.
LEMMA BitSets ==
    ASSUME TypeInv, NEW i \in Instructions
    PROVE  LET a == Ones(rdata1(i))
               b == Ones(Arch!Right(i))
           IN  /\ Arch!Differ(i) = (a \cup b) \ (a \cap b)
               /\ Arch!Either(i, 1) = a \cup b
               /\ (0 .. Width - 1) \ Arch!Either(i, 0) = a \cap b
<1> DEFINE l(n) == (rdata1(i) \div 2 ^ n) % 2
           r(n) == (Arch!Right(i) \div 2 ^ n) % 2
<1>1. ASSUME NEW v \in Words, NEW n \in 0 .. Width - 1
      PROVE  (v \div 2 ^ n) % 2 \in {0, 1}
  <2>1. v \in Int /\ n \in Nat /\ 2 ^ n \in Nat \ {0}
    BY WidthFacts, PowerPositive
  <2>2. v \div 2 ^ n \in Int
    BY <2>1, Euclid
  <2> QED
    BY <2>2
<1>2. \A n \in 0 .. Width - 1 : l(n) \in {0, 1} /\ r(n) \in {0, 1}
  BY <1>1, Operands
<1>3. /\ Arch!Differ(i) = {n \in 0 .. Width - 1 : l(n) # r(n)}
      /\ \A m : Arch!Either(i, m) = {n \in 0 .. Width - 1 : m \in {l(n), r(n)}}
      /\ Ones(rdata1(i)) = {n \in 0 .. Width - 1 : l(n) = 1}
      /\ Ones(Arch!Right(i)) = {n \in 0 .. Width - 1 : r(n) = 1}
  BY ArchWords, Operands DEF Arch!Differ, Arch!Either, Ones
<1> HIDE DEF l, r
<1> QED
  BY <1>2, <1>3

\* The ALU with the operation that a decoder owes it.
LEMMA AluComputes ==
    ASSUME TypeInv, NEW i \in Instructions, i.type \in {"R", "I"}, ~i.mul, ~is_shift(i),
           NEW op, Decodes(i, op)
    PROVE  AluResult(rdata1(i), Arch!Right(i), op) = Arch!Computed(i)
<1> DEFINE a == rdata1(i)
           b == Arch!Right(i)
<1>1. a \in Words /\ b \in Words /\ Arch!Left(i) = a
  BY Operands
<1>2. i.funct3 \in {0, 2, 3, 4, 6, 7}
  BY InstructionFacts, Funct3Bits
<1>3. /\ i.funct3 = 0 => op = IF i.type = "R" /\ i.alt THEN SubOp ELSE AddOp
      /\ i.funct3 = 2 => op = SltOp
      /\ i.funct3 = 3 => op = SltuOp
      /\ i.funct3 = 4 => op = XorOp
      /\ i.funct3 = 6 => op = OrOp
      /\ i.funct3 = 7 => op = AndOp
  BY DEF Decodes
<1>4. /\ i.funct3 = 0 => Arch!Computed(i) = IF i.type = "R" /\ i.alt THEN Wrap(a - b) ELSE Wrap(a + b)
      /\ i.funct3 = 2 => Arch!Computed(i) = IF Arch!Signed(a) < Arch!Signed(b) THEN 1 ELSE 0
      /\ i.funct3 = 3 => Arch!Computed(i) = IF a < b THEN 1 ELSE 0
      /\ i.funct3 = 4 => Arch!Computed(i) = OfOnes(Arch!Differ(i))
      /\ i.funct3 = 6 => Arch!Computed(i) = OfOnes(Arch!Either(i, 1))
      /\ i.funct3 = 7 => Arch!Computed(i) = OfOnes((0 .. Width - 1) \ Arch!Either(i, 0))
  BY <1>1, ArchWords DEF Arch!Computed
<1>5. CASE i.funct3 = 0
  BY <1>1, <1>3, <1>4, <1>5, AluAdds, AluSubtracts
<1>6. CASE i.funct3 = 2
  BY <1>1, <1>3, <1>4, <1>6, AluComparesSigned
<1>7. CASE i.funct3 = 3
  BY <1>1, <1>3, <1>4, <1>7, AluComparesUnsigned
<1>8. CASE i.funct3 \in {4, 6, 7}
  <2>1. /\ Arch!Differ(i) = (Ones(a) \cup Ones(b)) \ (Ones(a) \cap Ones(b))
        /\ Arch!Either(i, 1) = Ones(a) \cup Ones(b)
        /\ (0 .. Width - 1) \ Arch!Either(i, 0) = Ones(a) \cap Ones(b)
    BY BitSets
  <2>2. CASE i.funct3 = 4
    BY <1>3, <1>4, <2>1, <2>2, AluArms
  <2>3. CASE i.funct3 = 6
    BY <1>3, <1>4, <2>1, <2>3, AluArms
  <2>4. CASE i.funct3 = 7
    BY <1>3, <1>4, <2>1, <2>4, AluArms
  <2> QED
    BY <1>8, <2>2, <2>3, <2>4
<1> QED
  BY <1>2, <1>5, <1>6, <1>7, <1>8

LEMMA ShifterComputes ==
    ASSUME TypeInv, NEW i \in Instructions, is_shift(i)
    PROVE  ShiftResult(rdata1(i), shift_b(i), shiftop(i)) = Arch!Computed(i)
<1> DEFINE a == rdata1(i)
           b == shift_b(i)
<1>1. /\ i.type \in {"R", "I"} /\ i.funct3 \in {1, 5} /\ ~i.mul
      /\ i.alt \in BOOLEAN /\ (i.alt => i.funct3 = 5)
  BY InstructionFacts, Funct3Bits
<1>2. a \in Words /\ b \in 0 .. Width - 1 /\ Arch!Left(i) = a /\ Arch!Places(i) = b
  <2>1. a \in Words /\ Arch!Left(i) = a
    BY Operands
  <2>2. Arch!Places(i) = b
    BY <1>1, Operands DEF shift_b
  <2>3. Arch!Right(i) \in Int /\ Width \in Nat \ {0}
    BY Operands, WidthFacts
  <2>4. Arch!Right(i) % Width \in 0 .. Width - 1
    BY <2>3, Euclid
  <2> QED
    BY <2>1, <2>2, <2>4, Operands
<1>3. /\ i.funct3 = 1 => Arch!Computed(i) = Wrap(a * 2 ^ b)
      /\ i.funct3 = 5 => Arch!Computed(i) = Wrap((IF i.alt THEN Arch!Signed(a) ELSE a) \div 2 ^ b)
  BY <1>1, <1>2, ArchWords DEF Arch!Computed
<1>4. F(i, 2) \in BOOLEAN
  BY DEF F
<1>5. CASE i.funct3 = 1
  <2>1. i.alt = FALSE /\ F(i, 2) = FALSE
    BY <1>1, <1>4, <1>5, Funct3Bits
  <2>2. shiftop(i) = <<FALSE, FALSE>>
    BY <2>1, Zenon DEF shiftop
  <2> QED
    BY <1>2, <1>3, <1>5, <2>2, ShifterFacts
<1>6. CASE i.funct3 = 5 /\ ~i.alt
  <2>1. i.alt = FALSE /\ F(i, 2) = TRUE
    BY <1>1, <1>4, <1>6, Funct3Bits
  <2>2. shiftop(i) = <<FALSE, TRUE>>
    BY <2>1, Zenon DEF shiftop
  <2> QED
    BY <1>2, <1>3, <1>6, <2>2, ShifterFacts
<1>7. CASE i.funct3 = 5 /\ i.alt
  <2>1. i.alt = TRUE /\ F(i, 2) = TRUE
    BY <1>1, <1>4, <1>7, Funct3Bits
  <2>2. shiftop(i) = <<TRUE, TRUE>>
    BY <2>1, Zenon DEF shiftop
  <2> QED
    BY <1>2, <1>3, <1>7, <2>2, ShifterFacts
<1> QED
  BY <1>1, <1>5, <1>6, <1>7

LEMMA TakenArms ==
    ASSUME NEW i
    PROVE  /\ i.funct3 = 0 => (Arch!Taken(i) <=> Arch!Left(i) = Arch!Right(i))
           /\ i.funct3 = 1 => (Arch!Taken(i) <=> Arch!Left(i) # Arch!Right(i))
           /\ i.funct3 = 4 => (Arch!Taken(i) <=> Arch!Signed(Arch!Left(i)) < Arch!Signed(Arch!Right(i)))
           /\ i.funct3 = 5 => (Arch!Taken(i) <=> Arch!Signed(Arch!Left(i)) >= Arch!Signed(Arch!Right(i)))
           /\ i.funct3 = 6 => (Arch!Taken(i) <=> Arch!Left(i) < Arch!Right(i))
           /\ i.funct3 = 7 => (Arch!Taken(i) <=> Arch!Left(i) >= Arch!Right(i))
<1>1. ASSUME i.funct3 = 0 PROVE Arch!Taken(i) <=> Arch!Left(i) = Arch!Right(i)
  <2>1. i.funct3 # 1 /\ i.funct3 # 4 /\ i.funct3 # 5 /\ i.funct3 # 6 /\ i.funct3 # 7
    BY <1>1
  <2> QED
    BY <1>1, <2>1, Zenon DEF Arch!Taken
<1>2. ASSUME i.funct3 = 1 PROVE Arch!Taken(i) <=> Arch!Left(i) # Arch!Right(i)
  <2>1. i.funct3 # 0 /\ i.funct3 # 4 /\ i.funct3 # 5 /\ i.funct3 # 6 /\ i.funct3 # 7
    BY <1>2
  <2> QED
    BY <1>2, <2>1, Zenon DEF Arch!Taken
<1>3. ASSUME i.funct3 = 4 PROVE Arch!Taken(i) <=> Arch!Signed(Arch!Left(i)) < Arch!Signed(Arch!Right(i))
  <2>1. i.funct3 # 0 /\ i.funct3 # 1 /\ i.funct3 # 5 /\ i.funct3 # 6 /\ i.funct3 # 7
    BY <1>3
  <2> QED
    BY <1>3, <2>1, Zenon DEF Arch!Taken
<1>4. ASSUME i.funct3 = 5 PROVE Arch!Taken(i) <=> Arch!Signed(Arch!Left(i)) >= Arch!Signed(Arch!Right(i))
  <2>1. i.funct3 # 0 /\ i.funct3 # 1 /\ i.funct3 # 4 /\ i.funct3 # 6 /\ i.funct3 # 7
    BY <1>4
  <2> QED
    BY <1>4, <2>1, Zenon DEF Arch!Taken
<1>5. ASSUME i.funct3 = 6 PROVE Arch!Taken(i) <=> Arch!Left(i) < Arch!Right(i)
  <2>1. i.funct3 # 0 /\ i.funct3 # 1 /\ i.funct3 # 4 /\ i.funct3 # 5 /\ i.funct3 # 7
    BY <1>5
  <2> QED
    BY <1>5, <2>1, Zenon DEF Arch!Taken
<1>6. ASSUME i.funct3 = 7 PROVE Arch!Taken(i) <=> Arch!Left(i) >= Arch!Right(i)
  <2>1. i.funct3 # 0 /\ i.funct3 # 1 /\ i.funct3 # 4 /\ i.funct3 # 5 /\ i.funct3 # 6
    BY <1>6
  <2> QED
    BY <1>6, <2>1, Zenon DEF Arch!Taken
<1> QED
  BY <1>1, <1>2, <1>3, <1>4, <1>5, <1>6

\* The comparison that decides a branch is read from the result of the ALU: a
\* difference of zero, or the bit of a comparison.
LEMMA BranchIsTaken ==
    ASSUME TypeInv, NEW i \in Instructions, i.type = "B", NEW op, Decodes(i, op)
    PROVE  branch_taken(i, AluResult(rdata1(i), rdata2(i), op)) <=> Arch!Taken(i)
<1> DEFINE a == rdata1(i)
           b == rdata2(i)
           res == AluResult(a, b, op)
<1>1. a \in Words /\ b \in Words /\ Arch!Left(i) = a /\ Arch!Right(i) = b
  BY Operands
<1>2. i.funct3 \in {0, 1, 4, 5, 6, 7}
  BY InstructionFacts
<1>3. /\ i.funct3 \in {0, 1} => op = SubOp
      /\ i.funct3 \in {4, 5} => op = SltOp
      /\ i.funct3 \in {6, 7} => op = SltuOp
  BY DEF Decodes
<1>4. CASE i.funct3 \in {0, 1}
  <2>1. res = 0 <=> a = b
    BY <1>1, <1>3, <1>4, AluSubtracts
  <2>2. branch_taken(i, res) <=> IF i.funct3 = 0 THEN res = 0 ELSE res # 0
    BY <1>4 DEF branch_taken
  <2>3. Arch!Taken(i) <=> IF i.funct3 = 0 THEN a = b ELSE a # b
    BY <1>1, <1>4, TakenArms
  <2> QED
    BY <2>1, <2>2, <2>3
<1>5. CASE i.funct3 \in {4, 5}
  <2>1. res = IF Arch!Signed(a) < Arch!Signed(b) THEN 1 ELSE 0
    BY <1>1, <1>3, <1>5, AluComparesSigned
  <2>2. branch_taken(i, res) <=> IF i.funct3 = 4 THEN res = 1 ELSE res = 0
    BY <1>5, <2>1 DEF branch_taken
  <2>3. Arch!Taken(i) <=> IF i.funct3 = 4 THEN Arch!Signed(a) < Arch!Signed(b)
                                          ELSE Arch!Signed(a) >= Arch!Signed(b)
    BY <1>1, <1>5, TakenArms
  <2>4. Arch!Signed(a) \in Int /\ Arch!Signed(b) \in Int
    BY <1>1, ArchWords, WidthFacts DEF Arch!Signed
  <2> QED
    BY <2>1, <2>2, <2>3, <2>4
<1>6. CASE i.funct3 \in {6, 7}
  <2>1. res = IF a < b THEN 1 ELSE 0
    BY <1>1, <1>3, <1>6, AluComparesUnsigned
  <2>2. branch_taken(i, res) <=> IF i.funct3 = 6 THEN res = 1 ELSE res = 0
    BY <1>6, <2>1 DEF branch_taken
  <2>3. Arch!Taken(i) <=> IF i.funct3 = 6 THEN a < b ELSE a >= b
    BY <1>1, <1>6, TakenArms
  <2> QED
    BY <1>1, <2>1, <2>2, <2>3, WidthFacts
<1> QED
  BY <1>2, <1>4, <1>5, <1>6

\* The sums of the other types: addresses, targets, and the PC with an immediate.
LEMMA AluAddsImmediates ==
    ASSUME TypeInv, NEW i \in Instructions, i.type \notin {"R", "I", "B"}, NEW op, Decodes(i, op)
    PROVE  /\ AluResult(rdata1(i), i.imm, op) = Arch!Target(i)
           /\ AluResult(pc, i.imm, op) = Wrap(pc + i.imm)
           /\ Arch!Target(i) = Wrap(rdata1(i) + i.imm)
           /\ Arch!Target(i) \in Words
<1>1. op = AddOp
  BY DEF Decodes
<1>2. rdata1(i) \in Words /\ i.imm \in Words /\ pc \in Words /\ Arch!Left(i) = rdata1(i)
  BY Operands, InstructionFacts DEF TypeInv
<1>3. Arch!Target(i) = Wrap(rdata1(i) + i.imm)
  BY <1>2, ArchWords DEF Arch!Target
<1>4. rdata1(i) + i.imm \in Int
  BY <1>2, WidthFacts
<1> QED
  BY <1>1, <1>2, <1>3, <1>4, AluAdds, WrapFacts

-----------------------------------------------------------------------------
(* A word and its four bytes *)

Bytes == 0 .. P - 1

Join(l0, l1, l2, l3) == l0 + P * (l1 + P * (l2 + P * l3))

\* The bytes of a word that is put together from four.
LEMMA LanesOfJoin ==
    ASSUME NEW l0 \in Bytes, NEW l1 \in Bytes, NEW l2 \in Bytes, NEW l3 \in Bytes
    PROVE  LET w == Join(l0, l1, l2, l3)
           IN  /\ w \in Words
               /\ Lane(w, 0) = l0 /\ Lane(w, 1) = l1 /\ Lane(w, 2) = l2 /\ Lane(w, 3) = l3
               /\ w % P = l0 /\ w % (P * P) = l0 + P * l1
               /\ w \div (P * P) = l2 + P * l3
<1> DEFINE w3 == l2 + P * l3
           w2 == l1 + P * w3
           w  == l0 + P * w2
<1>1. /\ P \in Nat \ {0} /\ P * P \in Nat \ {0}
      /\ P * (P * P) \in Nat \ {0}
      /\ l0 \in 0 .. P - 1 /\ l1 \in 0 .. P - 1 /\ l2 \in 0 .. P - 1 /\ l3 \in 0 .. P - 1
  <2>1. \A m, n \in Nat \ {0} : m * n \in Nat \ {0}
    OBVIOUS
  <2> QED
    BY <2>1, ByteFacts DEF Bytes
<1>2. w3 = P * l3 + l2 /\ w3 \in 0 .. (P * P) - 1
  BY <1>1, NestedQuotients
<1>3. w2 = P * w3 + l1 /\ w2 \in 0 .. (P * (P * P)) - 1
  <2>1. P * w3 + l1 \in 0 .. (P * (P * P)) - 1
    BY <1>1, <1>2, NestedQuotients
  <2> HIDE DEF w3
  <2>2. w3 \in Int /\ l1 \in Int /\ P \in Int
    BY <1>1, <1>2
  <2> QED
    BY <2>1, <2>2
<1>4. w = P * w2 + l0 /\ w \in 0 .. (P * (P * (P * P))) - 1
  <2>1. P * w2 + l0 \in 0 .. (P * (P * (P * P))) - 1
    BY <1>1, <1>3, NestedQuotients
  <2> HIDE DEF w2
  <2>2. w2 \in Int /\ l0 \in Int /\ P \in Int
    BY <1>1, <1>3
  <2> QED
    BY <2>1, <2>2
<1>5. w3 \in Nat /\ w2 \in Nat /\ w \in Nat /\ w \in Words
  BY <1>2, <1>3, <1>4, ByteFacts, WidthFacts
<1> HIDE DEF w, w2, w3
<1>6. w \div P = w2 /\ w % P = l0
  <2>1. P \in Nat \ {0} /\ w2 \in Int /\ l0 \in 0 .. P - 1 /\ w \in Int /\ w = P * w2 + l0
    BY <1>1, <1>4, <1>5
  <2> QED
    BY <2>1, EuclidUnique
<1>7. w2 \div P = w3 /\ w2 % P = l1
  <2>1. P \in Nat \ {0} /\ w3 \in Int /\ l1 \in 0 .. P - 1 /\ w2 \in Int /\ w2 = P * w3 + l1
    BY <1>1, <1>3, <1>5
  <2> QED
    BY <2>1, EuclidUnique
<1>8. w3 \div P = l3 /\ w3 % P = l2 /\ l3 % P = l3
  <2>1. /\ P \in Nat \ {0} /\ l3 \in Int /\ l2 \in 0 .. P - 1 /\ w3 \in Int
        /\ w3 = P * l3 + l2
    BY <1>1, <1>2, <1>5
  <2>2. w3 \div P = l3 /\ w3 % P = l2
    BY <2>1, EuclidUnique
  <2>3. l3 % P = l3
    BY <1>1, SmallRemains
  <2> QED
    BY <2>2, <2>3
<1>9. w \div (P * P) = w3 /\ w \div (P * (P * P)) = l3 /\ w \div 1 = w
  <2>0. P \in Nat \ {0} /\ P * P \in Nat \ {0} /\ w \in Int /\ w2 \in Int
    BY <1>1, <1>5
  <2>1. (w \div P) \div P = w \div (P * P)
    BY <2>0, DivDiv
  <2>2. (w \div P) \div (P * P) = w \div (P * (P * P))
    BY <2>0, DivDiv
  <2>3. (w2 \div P) \div P = w2 \div (P * P)
    BY <2>0, DivDiv
  <2> QED
    BY <1>5, <1>6, <1>7, <1>8, <2>1, <2>2, <2>3
<1>10. w % (P * P) = l0 + P * l1
  <2>1. P * l1 + l0 \in 0 .. (P * P) - 1
    BY <1>1, NestedQuotients
  <2>2. w = (P * P) * w3 + (P * l1 + l0)
    <3>1. P * (P * w3 + l1) + l0 = (P * P) * w3 + (P * l1 + l0)
      BY <1>1, <1>5, NestedQuotients
    <3> QED
      BY <1>3, <1>4, <3>1
  <2>3. w % (P * P) = P * l1 + l0
    <3>1. PICK s \in Nat \ {0}, r \in Nat :
              s = P * P /\ r = P * l1 + l0 /\ r \in 0 .. s - 1 /\ w = s * w3 + r
      BY <1>1, <2>1, <2>2
    <3>2. w3 \in Int /\ w \in Int
      BY <1>5
    <3>3. w % s = r
      BY <3>1, <3>2, EuclidUnique
    <3> QED
      BY <3>1, <3>3
  <2> QED
    BY <1>1, <2>3
<1>11. /\ Lane(w, 0) = (w \div 1) % P /\ Lane(w, 1) = (w \div P) % P
       /\ Lane(w, 2) = (w \div (P * P)) % P /\ Lane(w, 3) = (w \div (P * (P * P))) % P
  BY ByteFacts DEF Lane, P
<1>12. w = Join(l0, l1, l2, l3) /\ w3 = l2 + P * l3
  BY DEF Join, w, w2, w3
<1> QED
  BY <1>5, <1>6, <1>7, <1>8, <1>9, <1>10, <1>11, <1>12

\* Every word is put together from its bytes.
LEMMA JoinOfLanes ==
    ASSUME NEW w \in Words
    PROVE  /\ \A n \in Lanes : Lane(w, n) \in Bytes
           /\ w = Join(Lane(w, 0), Lane(w, 1), Lane(w, 2), Lane(w, 3))
<1>1. P \in Nat \ {0} /\ P * P \in Nat \ {0} /\ P * (P * P) \in Nat \ {0} /\ w \in Nat
  <2>1. \A m, n \in Nat \ {0} : m * n \in Nat \ {0}
    OBVIOUS
  <2> QED
    BY <2>1, ByteFacts, WidthFacts
<1> DEFINE Split(v) == \E l \in 0 .. P - 1, q \in Int : v = P * q + l
<1>0. ASSUME NEW v \in Int PROVE Split(v)
  <2>1. P \in Nat \ {0}
    BY <1>1
  <2>2. v \div P \in Int /\ v % P \in 0 .. P - 1 /\ v = P * (v \div P) + (v % P)
    BY <2>1, Euclid
  <2> QED
    BY <2>2
<1>2. PICK l0 \in 0 .. P - 1, q1 \in Int : w = P * q1 + l0
  <2>1. w \in Int
    BY <1>1
  <2> QED
    BY <1>0, <2>1
<1>3. PICK l1 \in 0 .. P - 1, q2 \in Int : q1 = P * q2 + l1
  BY <1>0
<1>4. PICK l2 \in 0 .. P - 1, l3 \in Int : q2 = P * l3 + l2
  BY <1>0
<1>5. w = Join(l0, l1, l2, l3)
  BY <1>1, <1>2, <1>3, <1>4 DEF Join
<1>6. l3 \in 0 .. P - 1
  <2>1. w \in 0 .. (P * (P * (P * P))) - 1
    BY ByteFacts, WidthFacts
  <2>2. \A n \in Nat \ {0}, q \in Int, l \in 0 .. P - 1 :
            P * q + l \in 0 .. (P * n) - 1 => q \in 0 .. n - 1
    <3>1. SUFFICES ASSUME NEW n \in Nat \ {0}, NEW q \in Int, NEW l \in 0 .. P - 1,
                          P * q + l \in 0 .. (P * n) - 1
                   PROVE  q \in 0 .. n - 1
      OBVIOUS
    <3>2. q >= 0
      BY <1>1, <3>1
    <3>3. q <= n - 1
      <4>1. SUFFICES ASSUME q >= n PROVE FALSE
        OBVIOUS
      <4>2. P * q >= P * n
        BY <1>1, <4>1
      <4> QED
        BY <1>1, <3>1, <4>2
    <3> QED
      BY <3>2, <3>3
  <2>3. q1 \in 0 .. (P * (P * P)) - 1
    BY <1>1, <1>2, <2>1, <2>2
  <2>4. q2 \in 0 .. (P * P) - 1
    BY <1>1, <1>3, <2>2, <2>3
  <2> QED
    BY <1>1, <1>4, <2>2, <2>4
<1>7. Lane(w, 0) = l0 /\ Lane(w, 1) = l1 /\ Lane(w, 2) = l2 /\ Lane(w, 3) = l3
  BY <1>5, <1>6, LanesOfJoin DEF Bytes
<1> QED
  BY <1>5, <1>6, <1>7 DEF Bytes, Lanes

\* The same word as a sum of its bytes.
LEMMA JoinSums ==
    ASSUME NEW l0 \in Bytes, NEW l1 \in Bytes, NEW l2 \in Bytes, NEW l3 \in Bytes
    PROVE  Join(l0, l1, l2, l3) = l0 * 1 + l1 * P + l2 * (P * P) + l3 * (P * (P * P))
<1>1. P \in Nat
  BY ByteFacts
<1>2. l0 \in Nat /\ l1 \in Nat /\ l2 \in Nat /\ l3 \in Nat
  BY <1>1 DEF Bytes
<1>3. \A p \in Nat : l0 * 1 + l1 * p + l2 * (p * p) + l3 * (p * (p * p))
                       = l0 + p * (l1 + p * (l2 + p * l3))
  BY <1>2
<1> QED
  BY <1>1, <1>3 DEF Join

LEMMA LanesOfFromLanes ==
    ASSUME NEW f \in [Lanes -> Bytes]
    PROVE  FromLanes(f) \in Words /\ \A n \in Lanes : Lane(FromLanes(f), n) = f[n]
<1>1. PICK l0 \in Bytes, l1 \in Bytes, l2 \in Bytes, l3 \in Bytes :
          l0 = f[0] /\ l1 = f[1] /\ l2 = f[2] /\ l3 = f[3]
  BY DEF Lanes
<1>2. l0 \in Nat /\ l0 * 1 = l0
  BY ByteFacts DEF Bytes
<1>3. FromLanes(f) = l0 * 1 + l1 * P + l2 * (P * P) + l3 * (P * (P * P))
  BY <1>1, <1>2, ByteFacts DEF FromLanes, P
<1>4. FromLanes(f) = Join(l0, l1, l2, l3)
  BY <1>3, JoinSums
<1>5. \A n \in Lanes : n = 0 \/ n = 1 \/ n = 2 \/ n = 3
  BY DEF Lanes
<1> QED
  BY <1>1, <1>4, <1>5, LanesOfJoin

-----------------------------------------------------------------------------
(* The bytes that an access is to *)

\* An aligned access stays in one word of the memory: byte k of it is in lane
\* (a % 4) + k of the row.
LEMMA AlignedAccess ==
    ASSUME NEW i \in Instructions, i.type \in {"L", "S"}, Arch!Legal(i), Arch!Target(i) \in Words
    PROVE  LET a == Arch!Target(i)
           IN  /\ Row(a) \in 0 .. MemWords - 1
               /\ i.funct3 % 4 = 2 => Arch!Length(i) = 4 /\ a % 4 = 0
               /\ i.funct3 % 4 = 1 => Arch!Length(i) = 2 /\ a % 4 \in {0, 2}
               /\ i.funct3 % 4 = 0 => Arch!Length(i) = 1 /\ a % 4 \in Lanes
               /\ i.funct3 % 4 \in {0, 1, 2}
               /\ (a \div 2) % 2 = (a % 4) \div 2
               /\ \A k \in 0 .. Arch!Length(i) - 1 :
                    /\ (a % 4) + k \in Lanes
                    /\ Arch!At(i, k) = 4 * Row(a) + ((a % 4) + k)
<1> DEFINE a == Arch!Target(i)
<1>1. a \in Nat /\ MemWords \in Nat \ {0}
  BY WidthFacts, SizesAssumption
<1>2. i.funct3 \in {0, 1, 2, 4, 5}
  BY InstructionFacts
<1>3. Arch!Length(i) = 2 ^ (i.funct3 % 4) /\ a % Arch!Length(i) = 0
  BY DEF Arch!Length, Arch!Legal
<1> HIDE DEF a
<1>4. /\ i.funct3 % 4 = 2 => Arch!Length(i) = 4 /\ a % 4 = 0
      /\ i.funct3 % 4 = 1 => Arch!Length(i) = 2 /\ a % 4 \in {0, 2}
      /\ i.funct3 % 4 = 0 => Arch!Length(i) = 1 /\ a % 4 \in Lanes
      /\ i.funct3 % 4 \in {0, 1, 2}
  <2>1. i.funct3 % 4 \in {0, 1, 2}
    BY <1>2
  <2>2. 2 ^ 0 = 1 /\ 2 ^ 1 = 2 /\ 2 ^ 2 = 4
    OBVIOUS
  <2>3. a % 2 = 0 => a % 4 \in {0, 2}
    BY <1>1
  <2>4. a % 4 \in Lanes
    BY <1>1 DEF Lanes
  <2> QED
    BY <1>3, <2>1, <2>2, <2>3, <2>4
<1>5. (a \div 2) % 2 = (a % 4) \div 2
  BY <1>1
<1>6. PICK h \in Nat, o \in 0 .. 3 : h = a \div 4 /\ o = a % 4 /\ a = 4 * h + o
  BY <1>1
<1>7. PICK q \in Int, r \in 0 .. MemWords - 1 :
          /\ q = h \div MemWords /\ r = h % MemWords /\ h = MemWords * q + r
  <2>1. h \in Int /\ MemWords \in Nat \ {0}
    BY <1>1
  <2> QED
    BY <2>1, Euclid
<1>8. Row(a) = r
  BY <1>6, <1>7 DEF Row
<1>9. ASSUME NEW k \in 0 .. Arch!Length(i) - 1
      PROVE  (a % 4) + k \in Lanes /\ (a + k) % (4 * MemWords) = 4 * Row(a) + ((a % 4) + k)
  <2>1. k \in Nat /\ o + k \in 0 .. 3
    BY <1>4, <1>6 DEF Lanes
  <2>2. /\ 4 * MemWords \in Nat \ {0} /\ 4 * r + (o + k) \in 0 .. (4 * MemWords) - 1
        /\ 4 * (MemWords * q + r) + (o + k) = (4 * MemWords) * q + (4 * r + (o + k))
    <3>1. 4 \in Nat \ {0} /\ o + k \in 0 .. 4 - 1
      BY <2>1
    <3> QED
      BY <1>1, <3>1, NestedQuotients
  <2>3. a + k = (4 * MemWords) * q + (4 * r + (o + k)) /\ a + k \in Int
    BY <1>1, <1>6, <1>7, <2>1, <2>2
  <2>4. (a + k) % (4 * MemWords) = 4 * r + (o + k)
    <3>1. PICK s \in Nat \ {0}, b \in Nat :
              s = 4 * MemWords /\ b = 4 * r + (o + k) /\ b \in 0 .. s - 1 /\ a + k = s * q + b
      BY <2>2, <2>3
    <3>2. (a + k) % s = b
      BY <2>3, <3>1, EuclidUnique
    <3> QED
      BY <3>1, <3>2
  <2> QED
    BY <1>6, <1>8, <2>1, <2>4 DEF Lanes
<1>10. \A k : Arch!At(i, k) = (a + k) % (4 * MemWords)
  BY DEF Arch!At, a
<1> QED
  BY <1>4, <1>5, <1>7, <1>8, <1>9, <1>10 DEF a

LEMMA BytesOfFacts ==
    ASSUME NEW m
    PROVE  /\ DOMAIN BytesOf(m) = 0 .. 4 * MemWords - 1
           /\ \A r \in 0 .. MemWords - 1, n \in Lanes :
                /\ 4 * r + n \in DOMAIN BytesOf(m)
                /\ (4 * r + n) \div 4 = r /\ (4 * r + n) % 4 = n
                /\ BytesOf(m)[4 * r + n] = Lane(m[r], n)
           /\ \A c \in DOMAIN BytesOf(m) :
                /\ c \div 4 \in 0 .. MemWords - 1 /\ c % 4 \in Lanes
                /\ c = 4 * (c \div 4) + (c % 4)
                /\ BytesOf(m)[c] = Lane(m[c \div 4], c % 4)
<1>1. MemWords \in Nat \ {0}
  BY SizesAssumption
<1>2. /\ DOMAIN BytesOf(m) = 0 .. 4 * MemWords - 1
      /\ \A c \in 0 .. 4 * MemWords - 1 : BytesOf(m)[c] = Lane(m[c \div 4], c % 4)
  BY DEF BytesOf
<1>3. ASSUME NEW r \in 0 .. MemWords - 1, NEW n \in Lanes
      PROVE  4 * r + n \in 0 .. 4 * MemWords - 1 /\ (4 * r + n) \div 4 = r /\ (4 * r + n) % 4 = n
  BY <1>1 DEF Lanes
<1>4. ASSUME NEW c \in 0 .. 4 * MemWords - 1
      PROVE  /\ c \div 4 \in 0 .. MemWords - 1 /\ c % 4 \in Lanes
             /\ c = 4 * (c \div 4) + (c % 4)
  BY <1>1 DEF Lanes
<1> QED
  BY <1>2, <1>3, <1>4

-----------------------------------------------------------------------------
(* Loads *)

\* The sign is repeated by adding what is above it.
LEMMA ExtendFacts ==
    ASSUME NEW i \in Instructions, NEW n \in {1, 2}, NEW v \in 0 .. 2 ^ (n * ByteBits) - 1
    PROVE  LET range == 2 ^ (n * ByteBits)
           IN  /\ Extend(i, v, n) = IF ~F(i, 2) /\ v >= range \div 2 THEN Wrap(v - range) ELSE v
               /\ Extend(i, v, n) \in Words
<1> DEFINE range == 2 ^ (n * ByteBits)
<1>1. PICK h \in Nat \ {0} : h = 2 ^ (n * ByteBits - 1) /\ range = 2 * h
  <2>1. n * ByteBits - 1 \in Nat /\ (n * ByteBits - 1) + 1 = n * ByteBits
    BY SizesAssumption
  <2> HIDE DEF range
  <2>2. 2 ^ (n * ByteBits - 1) \in Nat \ {0}
    BY <2>1, PowerPositive
  <2>3. 2 ^ ((n * ByteBits - 1) + 1) = 2 * 2 ^ (n * ByteBits - 1)
    BY <2>1, PowerStep
  <2> QED
    BY <2>1, <2>2, <2>3 DEF range
<1>2. range <= Size /\ Size \in Nat
  <2>1. n * ByteBits \in 0 .. Width /\ Width \in Nat
    BY SizesAssumption DEF Width
  <2> QED
    BY <2>1, PowerSplits, WidthFacts DEF Size
<1>3. v \in 0 .. range - 1
  OBVIOUS
<1> HIDE DEF range
<1>4. v >= h => Wrap(v - range) = v + Size - range
  <2>1. SUFFICES ASSUME v >= h PROVE Wrap(v - range) = v + Size - range
    OBVIOUS
  <2>2. v - range \in Int /\ (v - range) + Size \in Words
    BY <1>1, <1>2, <1>3, WidthFacts
  <2>3. Wrap(v - range) = (v - range) + Size
    BY <2>2, WrapFacts
  <2> QED
    BY <1>1, <1>2, <1>3, <2>3
<1>5. range \div 2 = h
  BY <1>1
<1>6. Extend(i, v, n) = IF ~F(i, 2) /\ v >= h THEN v + Size - range ELSE v
  BY <1>1 DEF Extend, range
<1>7. Wrap(v - range) \in Words /\ v \in Words
  <2>1. v - range \in Int /\ v \in Words
    BY <1>1, <1>2, <1>3, WidthFacts
  <2> QED
    BY <2>1, WrapFacts
<1> QED
  BY <1>4, <1>5, <1>6, <1>7 DEF range

LEMMA Loads ==
    ASSUME TypeInv, NEW i \in Instructions, i.type = "L", Arch!Legal(i),
           Arch!Target(i) \in Words
    PROVE  /\ load_data(i, Arch!Target(i), mem[Row(Arch!Target(i))]) = Arch!Loaded(i)
           /\ Arch!Loaded(i) \in Words
<1> DEFINE a == Arch!Target(i)
           w == mem[Row(a)]
           o == a % 4
           l(n) == Lane(w, n)
<1>1. /\ Row(a) \in 0 .. MemWords - 1
      /\ i.funct3 % 4 = 2 => Arch!Length(i) = 4 /\ o = 0
      /\ i.funct3 % 4 = 1 => Arch!Length(i) = 2 /\ o \in {0, 2}
      /\ i.funct3 % 4 = 0 => Arch!Length(i) = 1 /\ o \in Lanes
      /\ i.funct3 % 4 \in {0, 1, 2}
      /\ (a \div 2) % 2 = o \div 2
      /\ \A k \in 0 .. Arch!Length(i) - 1 :
            o + k \in Lanes /\ Arch!At(i, k) = 4 * Row(a) + (o + k)
  BY AlignedAccess
<1>2. /\ w \in Words /\ \A n \in Lanes : l(n) \in Bytes
      /\ w = Join(l(0), l(1), l(2), l(3))
  BY <1>1, JoinOfLanes DEF TypeInv
<1>3. \A k \in 0 .. Arch!Length(i) - 1 : BytesOf(mem)[Arch!At(i, k)] = l(o + k)
  <2>1. SUFFICES ASSUME NEW k \in 0 .. Arch!Length(i) - 1
                 PROVE  BytesOf(mem)[Arch!At(i, k)] = l(o + k)
    OBVIOUS
  <2>2. /\ Row(a) \in 0 .. MemWords - 1 /\ o + k \in Lanes
        /\ Arch!At(i, k) = 4 * Row(a) + (o + k)
    BY <1>1
  <2> HIDE DEF a, o
  <2> QED
    BY <2>2, BytesOfFacts
<1>4. /\ P \in Nat \ {0} /\ P * P \in Nat \ {0} /\ Size \in Nat \ {0}
  <2>1. \A m, n \in Nat \ {0} : m * n \in Nat \ {0}
    OBVIOUS
  <2> QED
    BY <2>1, ByteFacts, WidthFacts
<1>5. i.funct3 < 4 <=> ~F(i, 2)
  BY InstructionFacts, Funct3Bits
<1>6. Arch!Loaded(i) =
        LET range == 2 ^ (ByteBits * Arch!Length(i))
            part(k) == IF k < Arch!Length(i) THEN BytesOf(mem)[Arch!At(i, k)] * 2 ^ (ByteBits * k) ELSE 0
            v == part(0) + part(1) + part(2) + part(3)
        IN  IF ~F(i, 2) /\ v >= range \div 2 THEN Wrap(v - range) ELSE v
  BY <1>5, ArchWords DEF Arch!Loaded
<1> HIDE DEF w, o, l
<1>7. CASE i.funct3 % 4 = 2
  <2>1. load_data(i, a, w) = w
    BY <1>7 DEF load_data
  <2>2. Arch!Length(i) = 4 /\ o = 0
    BY <1>1, <1>7
  <2>3. \A k \in Lanes : BytesOf(mem)[Arch!At(i, k)] = l(k)
    BY <1>3, <2>2 DEF Lanes
  <2> DEFINE v == l(0) * 1 + l(1) * P + l(2) * (P * P) + l(3) * (P * (P * P))
  <2>4. Arch!Loaded(i) = IF ~F(i, 2) /\ v >= Size \div 2 THEN Wrap(v - Size) ELSE v
    BY <1>6, <2>2, <2>3, ByteFacts DEF Lanes, P
  <2>5. v = w
    BY <1>2, JoinSums DEF Lanes
  <2>6. Wrap(w - Size) = w
    <3>1. w - Size \in Int /\ (w - Size) + Size = w
      BY <1>2, <1>4, WidthFacts
    <3> QED
      BY <1>2, <3>1, WrapFacts
  <2> HIDE DEF v
  <2> QED
    BY <1>2, <2>1, <2>4, <2>5, <2>6 DEF w
<1>8. CASE i.funct3 % 4 = 1
  <2> DEFINE x == (w \div 2 ^ (2 * ByteBits * (o \div 2))) % 2 ^ (2 * ByteBits)
             range == 2 ^ (2 * ByteBits)
  <2>1. load_data(i, a, w) = Extend(i, x, 2)
    BY <1>1, <1>8 DEF load_data
  <2>2. Arch!Length(i) = 2 /\ (o = 0 \/ o = 2)
    BY <1>1, <1>8
  <2>3. BytesOf(mem)[Arch!At(i, 0)] = l(o) /\ BytesOf(mem)[Arch!At(i, 1)] = l(o + 1)
    BY <1>3, <2>2
  <2>4. range = P * P /\ 2 ^ (ByteBits * 2) = range
    BY ByteFacts
  <2>5. l(o) \in Bytes /\ l(o + 1) \in Bytes
    BY <1>2, <2>2 DEF Lanes
  <2>6. x = l(o) + P * l(o + 1)
    <3>1. /\ w % (P * P) = l(0) + P * l(1)
          /\ w \div (P * P) = l(2) + P * l(3)
      BY <1>2, LanesOfJoin DEF Lanes
    <3>2. CASE o = 0
      <4>1. 2 ^ (2 * ByteBits * (o \div 2)) = 1
        <5>1. 2 * ByteBits * (o \div 2) = 0
          BY <3>2, SizesAssumption
        <5> QED
          BY <5>1, PowerOfZero
      <4>2. w \div 1 = w
        BY <1>2, WidthFacts
      <4> QED
        BY <2>4, <3>1, <3>2, <4>1, <4>2
    <3>3. CASE o = 2
      <4>1. 2 ^ (2 * ByteBits * (o \div 2)) = P * P
        <5>1. 2 * ByteBits * (o \div 2) = 2 * ByteBits
          BY <3>3, SizesAssumption
        <5> QED
          BY <5>1, <2>4
      <4>2. (l(2) + P * l(3)) % (P * P) = l(2) + P * l(3)
        <5>1. P * l(3) + l(2) \in 0 .. (P * P) - 1
          BY <1>2, <1>4, NestedQuotients DEF Bytes, Lanes
        <5>2. PICK s \in Nat \ {0}, u \in Nat : s = P * P /\ u = l(2) + P * l(3) /\ u \in 0 .. s - 1
          <6>1. l(2) \in Nat /\ l(3) \in Nat /\ P \in Nat
            BY <1>2, <1>4 DEF Bytes, Lanes
          <6>2. l(2) + P * l(3) = P * l(3) + l(2)
            BY <6>1
          <6> QED
            BY <1>4, <5>1, <6>2
        <5> QED
          BY <5>2, SmallRemains
      <4> QED
        BY <2>4, <3>1, <3>3, <4>1, <4>2
    <3> QED
      BY <2>2, <3>2, <3>3
  <2>7. x \in 0 .. range - 1
    <3>1. P * l(o + 1) + l(o) \in 0 .. (P * P) - 1
      BY <1>4, <2>5, NestedQuotients DEF Bytes
    <3> QED
      BY <1>4, <2>4, <2>5, <2>6, <3>1 DEF Bytes
  <2> HIDE DEF x
  <2>8. /\ Extend(i, x, 2) = IF ~F(i, 2) /\ x >= range \div 2 THEN Wrap(x - range) ELSE x
        /\ Extend(i, x, 2) \in Words
    BY <2>7, ExtendFacts
  <2> DEFINE v == l(o) * 1 + l(o + 1) * P + 0 + 0
  <2>9. Arch!Loaded(i) = IF ~F(i, 2) /\ v >= range \div 2 THEN Wrap(v - range) ELSE v
    BY <1>6, <2>2, <2>3, <2>4, ByteFacts DEF P
  <2>10. v = x
    BY <1>4, <2>5, <2>6 DEF Bytes
  <2> HIDE DEF v, range
  <2> QED
    BY <2>1, <2>8, <2>9, <2>10 DEF w
<1>9. CASE i.funct3 % 4 = 0
  <2> DEFINE x == l(o)
             range == 2 ^ (1 * ByteBits)
  <2>1. load_data(i, a, w) = Extend(i, x, 1)
    BY <1>9 DEF load_data, o, l
  <2>2. Arch!Length(i) = 1 /\ o \in Lanes
    BY <1>1, <1>9
  <2>3. BytesOf(mem)[Arch!At(i, 0)] = x
    BY <1>3, <2>2 DEF Lanes
  <2>4. range = P /\ 2 ^ (ByteBits * 1) = range
    BY ByteFacts, SizesAssumption DEF P
  <2>5. x \in Bytes /\ x \in Nat
    BY <1>2, <1>4, <2>2 DEF Bytes
  <2>6. x \in 0 .. range - 1
    BY <2>4, <2>5 DEF Bytes
  <2> HIDE DEF x
  <2>7. /\ Extend(i, x, 1) = IF ~F(i, 2) /\ x >= range \div 2 THEN Wrap(x - range) ELSE x
        /\ Extend(i, x, 1) \in Words
    BY <2>6, ExtendFacts
  <2> DEFINE v == x * 1 + 0 + 0 + 0
  <2>8. Arch!Loaded(i) = IF ~F(i, 2) /\ v >= range \div 2 THEN Wrap(v - range) ELSE v
    BY <1>6, <2>2, <2>3, <2>4, ByteFacts DEF P
  <2>9. v = x
    BY <2>5
  <2> HIDE DEF v, range
  <2> QED
    BY <2>1, <2>7, <2>8, <2>9 DEF w
<1> QED
  BY <1>1, <1>7, <1>8, <1>9 DEF w

-----------------------------------------------------------------------------
(* Stores *)

\* The strobes are on the lanes of the bytes that the access is to, and the data
\* has the bytes of v on these lanes.
LEMMA StoreLanes ==
    ASSUME NEW i \in Instructions, i.type = "S", Arch!Legal(i), Arch!Target(i) \in Words,
           NEW v \in Words
    PROVE  LET a == Arch!Target(i)
           IN  /\ \A n \in Lanes : n \in Write_strb(i, a)
                                     <=> \E k \in 0 .. Arch!Length(i) - 1 : n = (a % 4) + k
               /\ \A k \in 0 .. Arch!Length(i) - 1 :
                      Lane(Write_data(i, a, v), (a % 4) + k) = Lane(v, k)
               /\ Write_data(i, a, v) \in Words
               /\ mem_strb(i, a) = Write_strb(i, a) /\ strb_ST(i, a) = Write_strb(i, a)
<1> DEFINE a == Arch!Target(i)
           o == a % 4
           l(n) == Lane(v, n)
<1>1. /\ i.funct3 % 4 = 2 => Arch!Length(i) = 4 /\ o = 0
      /\ i.funct3 % 4 = 1 => Arch!Length(i) = 2 /\ o \in {0, 2}
      /\ i.funct3 % 4 = 0 => Arch!Length(i) = 1 /\ o \in Lanes
      /\ (a \div 2) % 2 = o \div 2
  BY AlignedAccess
<1>2. i.funct3 \in {0, 1, 2}
  BY InstructionFacts
<1>3. P \in Nat \ {0} /\ 0 \in Bytes
  BY ByteFacts DEF Bytes
<1>4. v = Join(l(0), l(1), l(2), l(3)) /\ \A n \in Lanes : l(n) \in Bytes
  BY JoinOfLanes
<1>5. PICK l0 \in Bytes, l1 \in Bytes : l0 = l(0) /\ l1 = l(1)
  BY <1>4 DEF Lanes
<1>6. v % P = l0 /\ v % (P * P) = l0 + P * l1
  BY <1>4, <1>5, LanesOfJoin DEF Lanes
<1>7. l0 \in Nat /\ l1 \in Nat
  BY <1>3 DEF Bytes
<1> HIDE DEF a, o, l
<1>8. CASE i.funct3 = 2
  <2>1. Arch!Length(i) = 4 /\ o = 0
    BY <1>1, <1>8
  <2>2. Write_strb(i, a) = Lanes /\ mem_strb(i, a) = Lanes /\ strb_ST(i, a) = Lanes
    BY <1>8 DEF Write_strb, mem_strb, strb_ST
  <2>3. Write_data(i, a, v) = v
    BY <1>8 DEF Write_data
  <2> QED
    BY <2>1, <2>2, <2>3 DEF Lanes, a, o
<1>9. CASE i.funct3 = 1
  <2>1. Arch!Length(i) = 2 /\ (o = 0 \/ o = 2)
    BY <1>1, <1>9
  <2>2. Write_strb(i, a) = {n \in Lanes : n \div 2 = o \div 2}
    BY <1>1, <1>9 DEF Write_strb
  <2>3. Write_strb(i, a) = {o, o + 1}
    BY <2>1, <2>2 DEF Lanes
  <2>4. mem_strb(i, a) = {o, o + 1} /\ strb_ST(i, a) = {o, o + 1}
    <3>1. mem_strb(i, a) = IF (a \div 2) % 2 = 0 THEN {0, 1} ELSE {2, 3}
      BY <1>9 DEF mem_strb
    <3>2. strb_ST(i, a) = IF (a \div 2) % 2 = 1 THEN {2, 3} ELSE {0, 1}
      BY <1>9 DEF strb_ST
    <3>3. o = 0 => (a \div 2) % 2 = 0
      BY <1>1
    <3>4. o = 2 => (a \div 2) % 2 = 1
      BY <1>1
    <3> QED
      BY <2>1, <3>1, <3>2, <3>3, <3>4
  <2> DEFINE d == Write_data(i, a, v)
  <2>5. d = (l0 + P * l1) * 2 ^ (2 * ByteBits * (o \div 2))
    BY <1>1, <1>6, <1>9, ByteFacts DEF Write_data
  <2>6. d = IF o = 0 THEN Join(l0, l1, 0, 0) ELSE Join(0, 0, l0, l1)
    <3> HIDE DEF d
    <3>1. CASE o = 0
      <4>1. 2 * ByteBits * (o \div 2) = 0
        BY <3>1, SizesAssumption
      <4>2. d = (l0 + P * l1) * 1
        BY <2>5, <4>1, PowerOfZero
      <4>3. \A p \in Nat : (l0 + p * l1) * 1 = l0 + p * (l1 + p * (0 + p * 0))
        BY <1>7
      <4> QED
        BY <1>3, <3>1, <4>2, <4>3 DEF Join
    <3>2. CASE o = 2
      <4>1. 2 * ByteBits * (o \div 2) = 2 * ByteBits
        BY <3>2, SizesAssumption
      <4>2. d = (l0 + P * l1) * (P * P)
        BY <2>5, <4>1, ByteFacts
      <4>3. \A p \in Nat : (l0 + p * l1) * (p * p) = 0 + p * (0 + p * (l0 + p * l1))
        BY <1>7
      <4> QED
        BY <1>3, <3>2, <4>2, <4>3 DEF Join
    <3> QED
      BY <2>1, <3>1, <3>2
  <2>7. d \in Words /\ Lane(d, o) = l0 /\ Lane(d, o + 1) = l1
    <3> HIDE DEF d
    <3>1. /\ Join(l0, l1, 0, 0) \in Words
          /\ Lane(Join(l0, l1, 0, 0), 0) = l0 /\ Lane(Join(l0, l1, 0, 0), 1) = l1
      BY <1>3, LanesOfJoin
    <3>2. /\ Join(0, 0, l0, l1) \in Words
          /\ Lane(Join(0, 0, l0, l1), 2) = l0 /\ Lane(Join(0, 0, l0, l1), 3) = l1
      BY <1>3, LanesOfJoin
    <3> QED
      BY <2>1, <2>6, <3>1, <3>2
  <2>8. o + 0 = o /\ \A k \in 0 .. 1 : k = 0 \/ k = 1
    BY <2>1
  <2> HIDE DEF d
  <2> QED
    BY <1>5, <2>1, <2>3, <2>4, <2>7, <2>8 DEF a, o, d, l
<1>10. CASE i.funct3 = 0
  <2>1. Arch!Length(i) = 1 /\ o \in Lanes
    BY <1>1, <1>10
  <2>2. Write_strb(i, a) = {o} /\ mem_strb(i, a) = {o} /\ strb_ST(i, a) = {o}
    BY <1>10 DEF Write_strb, mem_strb, strb_ST, o
  <2> DEFINE d == Write_data(i, a, v)
  <2>3. d = l0 * 2 ^ (ByteBits * o)
    BY <1>6, <1>10 DEF Write_data, P, o
  <2>4. d \in Words /\ Lane(d, o) = l0
    <3> HIDE DEF d
    <3>1. CASE o = 0
      <4>1. d = l0 * 1
        BY <2>3, <3>1, ByteFacts
      <4>2. \A p \in Nat : l0 * 1 = l0 + p * (0 + p * (0 + p * 0))
        BY <1>7
      <4>3. d = Join(l0, 0, 0, 0)
        BY <1>3, <4>1, <4>2 DEF Join
      <4> QED
        BY <1>3, <3>1, <4>3, LanesOfJoin
    <3>2. CASE o = 1
      <4>1. d = l0 * P
        BY <2>3, <3>2, ByteFacts
      <4>2. \A p \in Nat : l0 * p = 0 + p * (l0 + p * (0 + p * 0))
        BY <1>7
      <4> QED
        BY <1>3, <3>2, <4>1, <4>2, LanesOfJoin DEF Join
    <3>3. CASE o = 2
      <4>1. d = l0 * (P * P)
        BY <2>3, <3>3, ByteFacts
      <4>2. \A p \in Nat : l0 * (p * p) = 0 + p * (0 + p * (l0 + p * 0))
        BY <1>7
      <4> QED
        BY <1>3, <3>3, <4>1, <4>2, LanesOfJoin DEF Join
    <3>4. CASE o = 3
      <4>1. d = l0 * (P * (P * P))
        BY <2>3, <3>4, ByteFacts
      <4>2. \A p \in Nat : l0 * (p * (p * p)) = 0 + p * (0 + p * (0 + p * l0))
        BY <1>7
      <4> QED
        BY <1>3, <3>4, <4>1, <4>2, LanesOfJoin DEF Join
    <3> QED
      BY <2>1, <3>1, <3>2, <3>3, <3>4 DEF Lanes
  <2>5. o + 0 = o /\ \A k \in 0 .. 0 : k = 0
    BY <2>1 DEF Lanes
  <2> HIDE DEF d
  <2> QED
    BY <1>5, <2>1, <2>2, <2>4, <2>5 DEF a, o, d, l
<1> QED
  BY <1>2, <1>8, <1>9, <1>10 DEF a, o

\* The memory after a store, byte by byte.
LEMMA Stores ==
    ASSUME TypeInv, NEW i \in Instructions, Arch!Legal(i), NEW a, NEW strb,
           i.type = "S" => /\ a = Arch!Target(i) /\ Arch!Target(i) \in Words
                           /\ strb = Write_strb(i, a)
    PROVE  LET m == MemAfter(i, a, strb, Write_data(i, a, rdata2(i)))
           IN  m \in [0 .. MemWords - 1 -> Words] /\ BytesOf(m) = Arch!NextBytes(i)
<1>1. CASE i.type # "S"
  BY <1>1 DEF MemAfter, Arch!NextBytes, TypeInv
<1>2. CASE i.type = "S"
  <2> DEFINE d == Write_data(i, a, rdata2(i))
             o == a % 4
             f == [n \in Lanes |-> IF n \in strb THEN Lane(d, n) ELSE Lane(mem[Row(a)], n)]
             m == MemAfter(i, a, strb, d)
  <2>0. a = Arch!Target(i) /\ a \in Words /\ strb = Write_strb(i, a)
    BY <1>2
  <2>1. /\ Row(a) \in 0 .. MemWords - 1
        /\ \A k \in 0 .. Arch!Length(i) - 1 :
              o + k \in Lanes /\ Arch!At(i, k) = 4 * Row(a) + (o + k)
    BY <1>2, <2>0, AlignedAccess
  <2>2. /\ \A n \in Lanes : n \in strb <=> \E k \in 0 .. Arch!Length(i) - 1 : n = o + k
        /\ \A k \in 0 .. Arch!Length(i) - 1 : Lane(d, o + k) = Lane(rdata2(i), k)
        /\ d \in Words
    BY <1>2, <2>0, Operands, StoreLanes
  <2>3. f \in [Lanes -> Bytes]
    <3> HIDE DEF d
    <3>1. mem[Row(a)] \in Words
      BY <2>1 DEF TypeInv
    <3> QED
      BY <2>2, <3>1, JoinOfLanes
  <2>4. m = [mem EXCEPT ![Row(a)] = FromLanes(f)]
    BY <1>2 DEF MemAfter
  <2> HIDE DEF f, m, d
  <2>5. FromLanes(f) \in Words /\ \A n \in Lanes : Lane(FromLanes(f), n) = f[n]
    BY <2>3, LanesOfFromLanes
  <2>6. m \in [0 .. MemWords - 1 -> Words]
    BY <2>4, <2>5 DEF TypeInv
  <2>7. /\ m[Row(a)] = FromLanes(f)
        /\ \A r \in 0 .. MemWords - 1 : r # Row(a) => m[r] = mem[r]
    BY <2>1, <2>4 DEF TypeInv
  <2> DEFINE Hit(c) == \E k \in 0 .. Arch!Length(i) - 1 : c = Arch!At(i, k)
             Byte(c) == IF Hit(c)
                        THEN LET k == CHOOSE k \in 0 .. Arch!Length(i) - 1 : c = Arch!At(i, k)
                             IN  Lane(rdata2(i), k)
                        ELSE BytesOf(mem)[c]
  <2>8. Arch!NextBytes(i) = [c \in DOMAIN BytesOf(mem) |-> Byte(c)]
    BY <1>2, Operands DEF Arch!NextBytes, Lane
  <2>9. DOMAIN BytesOf(m) = DOMAIN BytesOf(mem)
    BY BytesOfFacts
  <2>10. ASSUME NEW c \in DOMAIN BytesOf(mem) PROVE BytesOf(m)[c] = Byte(c)
    <3> DEFINE r == c \div 4
               n == c % 4
    <3>1. /\ r \in 0 .. MemWords - 1 /\ n \in Lanes /\ c = 4 * r + n
          /\ BytesOf(m)[c] = Lane(m[r], n) /\ BytesOf(mem)[c] = Lane(mem[r], n)
      BY <2>9, BytesOfFacts
    <3> HIDE DEF r, n, o
    <3>2. \A k \in 0 .. Arch!Length(i) - 1 : c = Arch!At(i, k) <=> r = Row(a) /\ n = o + k
      <4> TAKE k \in 0 .. Arch!Length(i) - 1
      <4>1. o + k \in Lanes /\ Arch!At(i, k) = 4 * Row(a) + (o + k)
        BY <2>1
      <4> QED
        BY <2>1, <3>1, <4>1 DEF Lanes
    <3>3. CASE r # Row(a)
      <4>1. ~Hit(c)
        BY <3>2, <3>3
      <4> QED
        BY <2>7, <3>1, <3>3, <4>1
    <3>4. CASE r = Row(a) /\ n \notin strb
      <4>1. ~Hit(c)
        BY <2>2, <3>1, <3>2, <3>4
      <4>2. BytesOf(m)[c] = Lane(mem[r], n)
        BY <2>5, <2>7, <3>1, <3>4 DEF f
      <4> QED
        BY <3>1, <4>1, <4>2
    <3>5. CASE r = Row(a) /\ n \in strb
      <4>1. PICK k \in 0 .. Arch!Length(i) - 1 : n = o + k /\ c = Arch!At(i, k)
        BY <2>2, <3>1, <3>2, <3>5
      <4>2. \A j \in 0 .. Arch!Length(i) - 1 : c = Arch!At(i, j) => Lane(d, n) = Lane(rdata2(i), j)
        BY <2>2, <3>2, <3>5
      <4>3. BytesOf(m)[c] = Lane(d, n)
        BY <2>5, <2>7, <3>1, <3>5 DEF f
      <4> DEFINE j == CHOOSE j \in 0 .. Arch!Length(i) - 1 : c = Arch!At(i, j)
      <4>4. j \in 0 .. Arch!Length(i) - 1 /\ c = Arch!At(i, j)
        BY <4>1
      <4> HIDE DEF j
      <4>5. Hit(c) /\ Lane(rdata2(i), j) = Lane(d, n)
        BY <4>2, <4>4
      <4> QED
        BY <4>3, <4>5 DEF j
    <3> QED
      BY <3>3, <3>4, <3>5
  <2>11. BytesOf(m) = Arch!NextBytes(i)
    <3>1. BytesOf(m) = [c \in DOMAIN BytesOf(m) |-> BytesOf(m)[c]]
      BY DEF BytesOf
    <3> HIDE DEF Byte
    <3> QED
      BY <2>8, <2>9, <2>10, <3>1
  <2> QED
    BY <2>6, <2>11 DEF m, d
<1> QED
  BY <1>1, <1>2

-----------------------------------------------------------------------------
(* The instructions of the three cores *)

\* What an instruction of each type is to write.
LEMMA WrittenFacts ==
    ASSUME TypeInv, NEW i \in Instructions, Arch!Legal(i), i.type = "L" => Arch!Target(i) \in Words
    PROVE  /\ i.type \in {"R", "I"} => Arch!Written(i) = Arch!Computed(i)
           /\ i.type = "L" => Arch!Written(i) = Arch!Loaded(i)
           /\ i.type \in {"JAL", "JALR"} => Arch!Written(i) = Wrap(pc + 4)
           /\ i.type = "LUI" => Arch!Written(i) = i.imm
           /\ i.type = "AUIPC" => Arch!Written(i) = Wrap(pc + i.imm)
           /\ i.mul => Arch!Computed(i) = Wrap(rdata1(i) * rdata2(i))
           /\ i.type \notin {"S", "B"} => Arch!Written(i) \in Words
<1> DEFINE a == rdata1(i)
           b == Arch!Right(i)
<1>1. i.type \in Types /\ i.imm \in Words /\ i.funct3 \in 0 .. 7 /\ i.mul \in BOOLEAN
  BY InstructionFacts
<1>2. /\ i.type \in {"R", "I"} => Arch!Written(i) = Arch!Computed(i)
      /\ i.type = "L" => Arch!Written(i) = Arch!Loaded(i)
      /\ i.type \in {"JAL", "JALR"} => Arch!Written(i) = Wrap(pc + 4)
      /\ i.type = "LUI" => Arch!Written(i) = i.imm
      /\ i.type = "AUIPC" => Arch!Written(i) = Wrap(pc + i.imm)
  BY ArchWords DEF Arch!Written
<1>3. /\ a \in Int /\ b \in Int /\ pc \in Int /\ i.imm \in Int
      /\ Arch!Left(i) = a /\ {0, 1} \subseteq Words
      /\ i.type = "R" => b = rdata2(i)
  BY <1>1, Operands, WidthFacts DEF TypeInv
<1>4. Wrap(pc + 4) \in Words /\ Wrap(pc + i.imm) \in Words
  BY <1>3, WrapFacts
<1>5. i.mul => Arch!Computed(i) = Wrap(rdata1(i) * rdata2(i))
  <2> SUFFICES ASSUME i.mul PROVE Arch!Computed(i) = Wrap(rdata1(i) * rdata2(i))
    OBVIOUS
  <2>1. i.type = "R" /\ i.funct3 = 0
    BY InstructionFacts
  <2>2. Arch!Computed(i) = Arch!Wrap(Arch!Left(i) * Arch!Right(i))
    <3>1. /\ i.funct3 # 1 /\ i.funct3 # 2 /\ i.funct3 # 3 /\ i.funct3 # 4
          /\ i.funct3 # 5 /\ i.funct3 # 6 /\ i.funct3 # 7
      BY <2>1
    <3> QED
      BY <3>1, Zenon DEF Arch!Computed
  <2> QED
    BY <1>3, <2>1, <2>2, ArchWords
<1>6. Arch!Computed(i) \in Words
  <2>1. 2 ^ Arch!Places(i) \in Nat \ {0}
    <3>1. b \in Int /\ Width \in Nat \ {0}
      BY <1>3, WidthFacts
    <3>2. b % Width \in 0 .. Width - 1
      BY <3>1, Euclid
    <3> QED
      BY <3>2, Operands, PowerPositive
  <2>2. Arch!Signed(a) \in Int
    BY <1>3, ArchWords, WidthFacts DEF Arch!Signed
  <2>3. /\ a * b \in Int /\ a - b \in Int /\ a + b \in Int /\ a * 2 ^ Arch!Places(i) \in Int
    BY <1>3, <2>1
  <2>4. (IF i.alt THEN Arch!Signed(a) ELSE a) \div 2 ^ Arch!Places(i) \in Int
    <3>1. \A u \in Int : u \div 2 ^ Arch!Places(i) \in Int
      BY <2>1, Euclid
    <3> QED
      BY <1>3, <2>2, <3>1
  <2>5. /\ OfOnes(Arch!Differ(i)) \in Words /\ OfOnes(Arch!Either(i, 1)) \in Words
        /\ OfOnes((0 .. Width - 1) \ Arch!Either(i, 0)) \in Words
    <3>1. \A s \in SUBSET (0 .. Width - 1) : OfOnes(s) \in Words
      BY OfOnesFacts
    <3>2. /\ Arch!Differ(i) \in SUBSET (0 .. Width - 1)
          /\ \A m : Arch!Either(i, m) \in SUBSET (0 .. Width - 1)
      BY ArchWords DEF Arch!Differ, Arch!Either
    <3> QED
      BY <3>1, <3>2
  <2>6. \A u \in Int : Wrap(u) \in Words
    BY WrapFacts
  <2> HIDE DEF a, b
  <2>7. CASE i.mul
    <3>1. i.type = "R" /\ a * b \in Int
      BY <2>3, <2>7, InstructionFacts
    <3>2. Arch!Computed(i) = Wrap(a * b)
      BY <1>3, <1>5, <2>7, <3>1 DEF a
    <3> QED
      BY <2>6, <3>1, <3>2
  <2>8. CASE ~i.mul /\ i.funct3 \in {0, 1, 2, 3}
    BY <1>3, <2>3, <2>6, <2>8, ArchWords DEF Arch!Computed, b
  <2>9. CASE ~i.mul /\ i.funct3 \in {4, 5, 6, 7}
    BY <1>3, <2>4, <2>5, <2>6, <2>9, ArchWords DEF Arch!Computed
  <2> QED
    BY <1>1, <2>7, <2>8, <2>9
<1> QED
  BY <1>1, <1>2, <1>4, <1>5, <1>6, Loads DEF Types

LEMMA NextPcFacts ==
    ASSUME TypeInv, NEW i \in Instructions, i.type = "JALR" => Arch!Target(i) \in Words
    PROVE  /\ i.type = "JAL" \/ (i.type = "B" /\ Arch!Taken(i)) => Arch!NextPc(i) = Wrap(pc + i.imm)
           /\ i.type = "JALR" => Arch!NextPc(i) = Arch!Target(i) - (Arch!Target(i) % 2)
           /\ i.type \notin {"JAL", "JALR"} /\ ~(i.type = "B" /\ Arch!Taken(i))
                => Arch!NextPc(i) = Wrap(pc + 4)
           /\ Arch!NextPc(i) \in Words
<1>1. /\ i.type = "JAL" \/ (i.type = "B" /\ Arch!Taken(i)) => Arch!NextPc(i) = Wrap(pc + i.imm)
      /\ i.type = "JALR" => Arch!NextPc(i) = Arch!Target(i) - (Arch!Target(i) % 2)
      /\ i.type \notin {"JAL", "JALR"} /\ ~(i.type = "B" /\ Arch!Taken(i))
            => Arch!NextPc(i) = Wrap(pc + 4)
  BY ArchWords DEF Arch!NextPc
<1>2. pc \in Int /\ i.imm \in Int
  BY InstructionFacts, WidthFacts DEF TypeInv
<1>3. Wrap(pc + 4) \in Words /\ Wrap(pc + i.imm) \in Words
  BY <1>2, WrapFacts
<1>4. \A t \in Words : t - (t % 2) \in Words
  BY WidthFacts
<1> QED
  BY <1>1, <1>3, <1>4

\* The register file after the right value is written back.
LEMMA RfAfterFacts ==
    ASSUME TypeInv, NEW i \in Instructions, NEW v,
           RegWrite(i) => v = Arch!Written(i) /\ v \in Words
    PROVE  RfAfter(i, v) \in [Regs -> Words] /\ Shown(RfAfter(i, v)) = Arch!NextX(i)
<1>1. i.rd \in Regs /\ i.type \in Types
  BY InstructionFacts
<1>2. RegWrite(i) <=> i.type \notin {"S", "B"}
  BY <1>1 DEF RegWrite, Types
<1>3. CASE ~RegWrite(i) \/ i.rd = 0
  BY <1>2, <1>3 DEF RfAfter, Arch!NextX, TypeInv
<1>4. CASE RegWrite(i) /\ i.rd # 0
  <2>1. RfAfter(i, v) = [rf EXCEPT ![i.rd] = v]
    BY <1>4 DEF RfAfter
  <2>2. Arch!NextX(i) = [Shown(rf) EXCEPT ![i.rd] = v]
    BY <1>2, <1>4 DEF Arch!NextX
  <2>3. Shown([rf EXCEPT ![i.rd] = v]) = [Shown(rf) EXCEPT ![i.rd] = v]
    BY <1>1, <1>4 DEF Shown, ReadPort, TypeInv
  <2> QED
    BY <1>1, <1>4, <2>1, <2>2, <2>3 DEF TypeInv
<1> QED
  BY <1>3, <1>4

\* The core that executes an instruction in a cycle.
LEMMA SingleCycleComputes ==
    ASSUME TypeInv, NEW i \in Rv32iInstructions
    PROVE  /\ AsDefined(i, pc_next(i), rf_next(i), mem_next(i))
           /\ pc_next(i) \in Words /\ rf_next(i) \in [Regs -> Words]
           /\ mem_next(i) \in [0 .. MemWords - 1 -> Words]
<1> DEFINE op == aluop(i)
<1>1. i \in Instructions /\ ~i.mul /\ Arch!Legal(i) /\ i.type \in Types
  BY InstructionFacts DEF Rv32iInstructions
<1>2. Decodes(i, op)
  BY <1>1, SingleCycleDecodes
<1> HIDE DEF op
<1>3. /\ rdata1(i) \in Words /\ rdata2(i) \in Words
      /\ Arch!Right(i) = IF i.type \in {"R", "B"} THEN rdata2(i) ELSE i.imm
  BY <1>1, Operands
<1>4. is_shift(i) => i.type \in {"R", "I"}
  BY DEF is_shift
<1>5. /\ alu_res(i) = AluResult(alu_a(i), alu_b(i), op)
      /\ i.type \in {"R", "I"} /\ ~is_shift(i) => alu_a(i) = rdata1(i) /\ alu_b(i) = Arch!Right(i)
      /\ i.type = "B" => alu_a(i) = rdata1(i) /\ alu_b(i) = rdata2(i)
      /\ i.type = "AUIPC" => alu_a(i) = pc /\ alu_b(i) = i.imm
      /\ i.type \in {"L", "S", "JALR"} => alu_a(i) = rdata1(i) /\ alu_b(i) = i.imm
  BY <1>3, <1>4 DEF alu_res, alu_a, alu_b, b_reg, b_imm, op
<1>6. i.type \in {"R", "I"} /\ ~is_shift(i) => alu_res(i) = Arch!Computed(i)
  BY <1>1, <1>2, <1>5, AluComputes
<1>7. i.type = "AUIPC" => alu_res(i) = Wrap(pc + i.imm)
  BY <1>1, <1>2, <1>5, AluAddsImmediates
<1>8. i.type \in {"L", "S"} => alu_res(i) = Arch!Target(i) /\ Arch!Target(i) \in Words
  BY <1>1, <1>2, <1>5, AluAddsImmediates
<1>9. i.type = "JALR" => Arch!Target(i) = Wrap(rdata1(i) + i.imm) /\ Arch!Target(i) \in Words
  BY <1>1, <1>2, AluAddsImmediates
<1>10. branch_taken(i, alu_res(i)) <=> i.type = "B" /\ Arch!Taken(i)
  <2>1. CASE i.type = "B"
    BY <1>1, <1>2, <1>5, <2>1, BranchIsTaken
  <2>2. CASE i.type # "B"
    BY <2>2 DEF branch_taken
  <2> QED
    BY <2>1, <2>2
<1>11. pc_next(i) = Arch!NextPc(i) /\ pc_next(i) \in Words
  <2>1. /\ i.type = "JAL" \/ (i.type = "B" /\ Arch!Taken(i)) => pc_next(i) = Wrap(pc + i.imm)
        /\ i.type = "JALR" => pc_next(i) = Arch!Target(i) - (Arch!Target(i) % 2)
        /\ i.type \notin {"JAL", "JALR"} /\ ~(i.type = "B" /\ Arch!Taken(i))
              => pc_next(i) = Wrap(pc + 4)
    BY <1>9, <1>10 DEF pc_next
  <2> QED
    BY <1>1, <1>9, <2>1, NextPcFacts
<1>12. RegWrite(i) => data_wb(i) = Arch!Written(i) /\ data_wb(i) \in Words
  <2>1. is_shift(i) => shift_res(i) = Arch!Computed(i)
    BY <1>1, ShifterComputes DEF shift_res
  <2>2. /\ i.type = "L" => data_wb(i) = Arch!Loaded(i)
        /\ i.type \in {"JAL", "JALR"} => data_wb(i) = Wrap(pc + 4)
        /\ i.type = "LUI" => data_wb(i) = i.imm
        /\ i.type \in {"R", "I"} => data_wb(i) = Arch!Computed(i)
        /\ i.type = "AUIPC" => data_wb(i) = Wrap(pc + i.imm)
    <3>1. i.type = "L" => load_data(i, alu_res(i), mem[Row(alu_res(i))]) = Arch!Loaded(i)
      BY <1>1, <1>8, Loads
    <3> QED
      BY <1>4, <1>6, <1>7, <2>1, <3>1 DEF data_wb
  <2> QED
    BY <1>1, <1>8, <2>2, WrittenFacts DEF RegWrite
<1>13. rf_next(i) \in [Regs -> Words] /\ Shown(rf_next(i)) = Arch!NextX(i)
  BY <1>1, <1>12, RfAfterFacts DEF rf_next
<1>14. mem_next(i) \in [0 .. MemWords - 1 -> Words] /\ BytesOf(mem_next(i)) = Arch!NextBytes(i)
  <2> DEFINE a == alu_res(i)
  <2>1. mem_next(i) = MemAfter(i, a, Write_strb(i, a), Write_data(i, a, rdata2(i)))
    BY DEF mem_next
  <2> HIDE DEF a
  <2>2. i.type = "S" => a = Arch!Target(i) /\ Arch!Target(i) \in Words
    BY <1>8 DEF a
  <2> QED
    BY <1>1, <2>1, <2>2, Stores
<1> QED
  BY <1>11, <1>13, <1>14 DEF AsDefined

\* The stages of the pipelined core, MUL included.
LEMMA PipelineComputes ==
    ASSUME TypeInv, NEW i \in Instructions, Arch!Legal(i)
    PROVE  AsDefined(i, ex_actual_next_pc(i), RfAfter(i, mem_stage_wdata(i)), mem_stored(i))
<1> DEFINE op == id_aluop(i)
           raw == ex_alu_result_raw(i)
<1>1. i.type \in Types /\ i.imm \in Words /\ i.mul \in BOOLEAN
  BY InstructionFacts
<1>2. ~i.mul => Decodes(i, op)
  BY PipelineDecodes
<1>3. /\ i.mul <=> id_is_mul(i)
      /\ i.mul => i.type = "R" /\ ~is_shift(i)
  BY InstructionFacts, Funct3Bits DEF id_is_mul
<1> HIDE DEF op
<1>4. /\ rdata1(i) \in Words /\ rdata2(i) \in Words
      /\ Arch!Right(i) = IF i.type \in {"R", "B"} THEN rdata2(i) ELSE i.imm
  BY Operands
<1>5. is_shift(i) => i.type \in {"R", "I"}
  BY DEF is_shift
<1>6. /\ raw = AluResult(ex_alu_a(i), Arch!Right(i), op)
      /\ i.type \in {"R", "I", "B", "L", "S", "JALR"} => ex_alu_a(i) = rdata1(i)
      /\ i.type = "AUIPC" => ex_alu_a(i) = pc
  BY <1>4 DEF ex_alu_result_raw, ex_alu_a, ex_alu_b, op
<1>7. i.type \in {"R", "I"} /\ ~is_shift(i) /\ ~i.mul => raw = Arch!Computed(i)
  BY <1>2, <1>6, AluComputes
<1>8. i.type = "AUIPC" => raw = Wrap(pc + i.imm)
  BY <1>2, <1>3, <1>4, <1>6, AluAddsImmediates
<1>9. i.type = "LUI" => raw = i.imm
  <2> SUFFICES ASSUME i.type = "LUI" PROVE raw = i.imm
    OBVIOUS
  <2>1. ~i.mul /\ op = AddOp
    BY <1>2, <1>3 DEF Decodes
  <2>2. ex_alu_a(i) = 0
    BY DEF ex_alu_a
  <2>3. 0 \in Words /\ 0 + i.imm = i.imm
    BY <1>1, WidthFacts
  <2>4. AluResult(0, i.imm, AddOp) = Wrap(0 + i.imm)
    BY <1>1, <2>3, AluAdds
  <2>5. Wrap(i.imm) = i.imm
    <3>1. i.imm \in Int
      BY <1>1, WidthFacts
    <3> QED
      BY <1>1, <3>1, WrapFacts
  <2> QED
    BY <1>4, <1>6, <2>1, <2>2, <2>3, <2>4, <2>5
<1>10. i.type \in {"L", "S", "JALR"} => raw = Arch!Target(i) /\ Arch!Target(i) \in Words
  BY <1>2, <1>3, <1>4, <1>6, AluAddsImmediates
<1>11. branch_taken(i, raw) <=> i.type = "B" /\ Arch!Taken(i)
  <2>1. CASE i.type = "B"
    BY <1>2, <1>3, <1>4, <1>6, <2>1, BranchIsTaken
  <2>2. CASE i.type # "B"
    BY <2>2 DEF branch_taken
  <2> QED
    BY <2>1, <2>2
<1> HIDE DEF raw
<1>12. i.type = "JALR" => ex_jalr_target(i) = Arch!Target(i) - (Arch!Target(i) % 2)
  BY <1>10 DEF ex_jalr_target, raw
<1>13. ex_actual_next_pc(i) = Arch!NextPc(i)
  <2>1. /\ i.type = "JAL" \/ (i.type = "B" /\ Arch!Taken(i)) => ex_actual_next_pc(i) = Wrap(pc + i.imm)
        /\ i.type = "JALR" => ex_actual_next_pc(i) = Arch!Target(i) - (Arch!Target(i) % 2)
        /\ i.type \notin {"JAL", "JALR"} /\ ~(i.type = "B" /\ Arch!Taken(i))
              => ex_actual_next_pc(i) = Wrap(pc + 4)
    BY <1>11, <1>12 DEF ex_actual_next_pc, raw
  <2> QED
    BY <1>10, <2>1, NextPcFacts
<1>14. i.type # "JALR" => ex_alu_result(i) = raw
  BY DEF ex_alu_result, raw
<1>15. RegWrite(i) => mem_stage_wdata(i) = Arch!Written(i) /\ mem_stage_wdata(i) \in Words
  <2>1. is_shift(i) => ex_shift_result(i) = Arch!Computed(i)
    BY ShifterComputes DEF ex_shift_result
  <2>2. i.mul => ex_mul_result(i) = Arch!Computed(i)
    BY <1>3, WrittenFacts DEF ex_mul_result
  <2>3. i.type = "L" => load_data(i, ex_alu_result(i), mem[Row(ex_alu_result(i))]) = Arch!Loaded(i)
    BY <1>10, <1>14, Loads
  <2>4. /\ i.type = "L" => mem_stage_wdata(i) = Arch!Loaded(i)
        /\ i.type \in {"JAL", "JALR"} => mem_stage_wdata(i) = Wrap(pc + 4)
        /\ i.type = "LUI" => mem_stage_wdata(i) = i.imm
        /\ i.type \in {"R", "I"} => mem_stage_wdata(i) = Arch!Computed(i)
        /\ i.type = "AUIPC" => mem_stage_wdata(i) = Wrap(pc + i.imm)
    BY <1>3, <1>5, <1>7, <1>8, <1>9, <1>14, <2>1, <2>2, <2>3 DEF mem_stage_wdata, ex_mem_wb_value
  <2> QED
    BY <1>1, <1>10, <2>4, WrittenFacts DEF RegWrite
<1>16. Shown(RfAfter(i, mem_stage_wdata(i))) = Arch!NextX(i)
  BY <1>15, RfAfterFacts
<1>17. BytesOf(mem_stored(i)) = Arch!NextBytes(i)
  <2> DEFINE a == ex_alu_result(i)
  <2>1. mem_stored(i) = MemAfter(i, a, mem_strb(i, a), Write_data(i, a, rdata2(i)))
    BY DEF mem_stored
  <2> HIDE DEF a
  <2>2. i.type = "S" => a = Arch!Target(i) /\ Arch!Target(i) \in Words
    BY <1>10, <1>14 DEF a
  <2>3. i.type = "S" => mem_strb(i, a) = Write_strb(i, a)
    BY <1>4, <2>2, StoreLanes
  <2> QED
    BY <2>1, <2>2, <2>3, Stores
<1> QED
  BY <1>13, <1>16, <1>17 DEF AsDefined

\* The states of the multi-cycle core.
LEMMA MultiCycleComputes ==
    ASSUME TypeInv, NEW i \in Rv32iInstructions
    PROVE  AsDefined(i, pc_next_EX(i), RfAfter(i, data_wb_WB(i)), mem_ST(i))
<1> DEFINE op == aluop_EX(i)
           res == alu_res_EX(i)
<1>1. i \in Instructions /\ ~i.mul /\ Arch!Legal(i) /\ i.type \in Types
  BY InstructionFacts DEF Rv32iInstructions
<1>2. Decodes(i, op)
  BY <1>1, MultiCycleDecodes
<1> HIDE DEF op
<1>3. /\ rdata1(i) \in Words /\ rdata2(i) \in Words /\ i.imm \in Words /\ pc \in Words
      /\ Arch!Right(i) = IF i.type \in {"R", "B"} THEN rdata2(i) ELSE i.imm
  BY <1>1, Operands, InstructionFacts DEF TypeInv
<1>4. is_shift(i) => i.type \in {"R", "I"}
  BY DEF is_shift
<1>5. /\ res = AluResult(alu_a_EX(i), alu_b_EX(i), op)
      /\ i.type # "LUI" => alu_b_EX(i) = Arch!Right(i)
      /\ i.type \in {"R", "I", "B", "L", "S", "JALR"} => alu_a_EX(i) = rdata1(i)
      /\ i.type \in {"AUIPC", "JAL"} => alu_a_EX(i) = pc
  BY <1>3 DEF alu_res_EX, alu_a_EX, alu_b_EX, op
<1>6. i.type \in {"R", "I"} /\ ~is_shift(i) => res = Arch!Computed(i)
  BY <1>1, <1>2, <1>5, AluComputes
<1>7. i.type \in {"AUIPC", "JAL"} => res = Wrap(pc + i.imm)
  BY <1>1, <1>2, <1>3, <1>5, AluAddsImmediates
<1>8. i.type \in {"L", "S", "JALR"} => res = Arch!Target(i) /\ Arch!Target(i) \in Words
  BY <1>1, <1>2, <1>3, <1>5, AluAddsImmediates
<1>9. branch_taken(i, res) <=> i.type = "B" /\ Arch!Taken(i)
  <2>1. CASE i.type = "B"
    BY <1>1, <1>2, <1>3, <1>5, <2>1, BranchIsTaken
  <2>2. CASE i.type # "B"
    BY <2>2 DEF branch_taken
  <2> QED
    BY <2>1, <2>2
<1> HIDE DEF res
<1>10. aluout_ID(i) = Wrap(pc + i.imm)
  BY <1>3, AluAdds DEF aluout_ID, AddOp
<1>11. /\ is_shift(i) => exec_result(i) = Arch!Computed(i)
       /\ i.type = "JALR" => exec_result(i) = Arch!Target(i) - (Arch!Target(i) % 2)
       /\ ~is_shift(i) /\ i.type # "JALR" => exec_result(i) = res
  <2>1. is_shift(i) => shift_res(i) = Arch!Computed(i)
    BY <1>1, ShifterComputes DEF shift_res
  <2> QED
    BY <1>4, <1>8, <2>1 DEF exec_result, res
<1>12. pc_next_EX(i) = Arch!NextPc(i)
  <2>1. /\ i.type = "JAL" \/ (i.type = "B" /\ Arch!Taken(i)) => pc_next_EX(i) = Wrap(pc + i.imm)
        /\ i.type = "JALR" => pc_next_EX(i) = Arch!Target(i) - (Arch!Target(i) % 2)
        /\ i.type \notin {"JAL", "JALR"} /\ ~(i.type = "B" /\ Arch!Taken(i))
              => pc_next_EX(i) = Wrap(pc + 4)
    BY <1>4, <1>7, <1>9, <1>10, <1>11 DEF pc_next_EX, res
  <2> QED
    BY <1>1, <1>8, <2>1, NextPcFacts
<1>13. RegWrite(i) => data_wb_WB(i) = Arch!Written(i) /\ data_wb_WB(i) \in Words
  <2>1. i.type = "L" => load_data(i, exec_result(i), mem[Row(exec_result(i))]) = Arch!Loaded(i)
    BY <1>1, <1>4, <1>8, <1>11, Loads
  <2>2. /\ i.type = "L" => data_wb_WB(i) = Arch!Loaded(i)
        /\ i.type \in {"JAL", "JALR"} => data_wb_WB(i) = Wrap(pc + 4)
        /\ i.type = "LUI" => data_wb_WB(i) = i.imm
        /\ i.type \in {"R", "I"} => data_wb_WB(i) = Arch!Computed(i)
        /\ i.type = "AUIPC" => data_wb_WB(i) = Wrap(pc + i.imm)
    BY <1>4, <1>6, <1>7, <1>11, <2>1 DEF data_wb_WB
  <2> QED
    BY <1>1, <1>8, <2>2, WrittenFacts DEF RegWrite
<1>14. Shown(RfAfter(i, data_wb_WB(i))) = Arch!NextX(i)
  BY <1>1, <1>13, RfAfterFacts
<1>15. BytesOf(mem_ST(i)) = Arch!NextBytes(i)
  <2> DEFINE a == exec_result(i)
  <2>1. mem_ST(i) = MemAfter(i, a, strb_ST(i, a), Write_data(i, a, rdata2(i)))
    BY DEF mem_ST
  <2> HIDE DEF a
  <2>2. i.type = "S" => a = Arch!Target(i) /\ Arch!Target(i) \in Words
    BY <1>4, <1>8, <1>11 DEF a
  <2>3. i.type = "S" => strb_ST(i, a) = Write_strb(i, a)
    BY <1>1, <1>3, <2>2, StoreLanes
  <2> QED
    BY <1>1, <2>1, <2>2, <2>3, Stores
<1> QED
  BY <1>12, <1>14, <1>15 DEF AsDefined

-----------------------------------------------------------------------------
(* The invariants *)

LEMMA TypesKept ==
    Spec => []TypeInv
<1>1. Init => TypeInv
  BY WidthFacts DEF Init, TypeInv
<1>2. TypeInv /\ [Next]_vars => TypeInv'
  <2> SUFFICES ASSUME TypeInv, [Next]_vars PROVE TypeInv'
    OBVIOUS
  <2>1. ASSUME NEW i \in Rv32iInstructions, Clock(i) PROVE TypeInv'
    <3>1. /\ pc_next(i) \in Words /\ rf_next(i) \in [Regs -> Words]
          /\ mem_next(i) \in [0 .. MemWords - 1 -> Words]
      BY SingleCycleComputes
    <3> QED
      BY <2>1, <3>1 DEF Clock, TypeInv
  <2>2. CASE UNCHANGED vars
    BY <2>2 DEF vars, TypeInv
  <2> QED
    BY <2>1, <2>2 DEF Next
<1> QED
  BY <1>1, <1>2, PTL DEF Spec

\* The single-cycle core computes what the architecture defines, from every
\* state that it reaches (simple_cpu.v, alu.v, shifter.v).
THEOREM AlwaysComputesRv32i ==
    Spec => []ComputesRv32i
<1>1. TypeInv => ComputesRv32i
  BY SingleCycleComputes DEF ComputesRv32i
<1> QED
  BY <1>1, TypesKept, PTL

\* So do the stages of the pipelined core, for MUL too, and the states of the
\* multi-cycle core, on the same registers (custom_cpu_prj4.v, custom_cpu_prj3.v).
THEOREM AlwaysComputesRv32im ==
    Spec => []CoresComputeRv32im
<1>1. TypeInv => CoresComputeRv32im
  BY PipelineComputes, MultiCycleComputes DEF CoresComputeRv32im
<1> QED
  BY <1>1, TypesKept, PTL

=============================================================================
