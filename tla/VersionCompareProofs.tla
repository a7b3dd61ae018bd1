------------------------ MODULE VersionCompareProofs ------------------------
(***************************************************************************)
(* CompareVersions is a comparison a sort can rely on: lemmas on each of   *)
(* the comparisons it is made of, for versions of any length.              *)
(***************************************************************************)
EXTENDS VersionCompare, NaturalsInduction, WellFoundedInduction,
        SequenceTheorems, TLAPS

-----------------------------------------------------------------------------
(* Chains. *)

\* What x says of a and b, y of b and c, and z of a and c fits an order.
Consistent(x, y, z) ==
    /\ x \in Int /\ y \in Int /\ z \in Int
    /\ x <= 0 /\ y <= 0 => z <= 0
    /\ x >= 0 /\ y >= 0 => z >= 0
    /\ x <= 0 /\ y <= 0 /\ (x < 0 \/ y < 0) => z < 0
    /\ x >= 0 /\ y >= 0 /\ (x > 0 \/ y > 0) => z > 0

Then(x, y) == IF x # 0 THEN x ELSE y

\* What x says of a and b, and y of b and a.
Opposite(x, y) == x \in Int /\ y \in Int /\ x + y = 0

LEMMA CmpConsistent ==
  ASSUME NEW a \in Int, NEW b \in Int, NEW c \in Int
  PROVE  /\ Consistent(Cmp(a, b), Cmp(b, c), Cmp(a, c))
         /\ Opposite(Cmp(a, b), Cmp(b, a)) /\ Cmp(a, b) \in Int
         /\ Consistent(Cmp(b, a), Cmp(c, b), Cmp(c, a))
  BY DEF Cmp, Consistent, Opposite

LEMMA CmpReversed ==
  ASSUME NEW a \in Int, NEW b \in Int
  PROVE  -Cmp(a, b) = Cmp(b, a)
  BY DEF Cmp

LEMMA ThenConsistent ==
  ASSUME NEW x1, NEW y1, NEW z1, NEW x2 \in Int, NEW y2 \in Int, NEW z2 \in Int,
         Consistent(x1, y1, z1),
         x1 = 0 /\ y1 = 0 => Consistent(x2, y2, z2)
  PROVE  Consistent(Then(x1, x2), Then(y1, y2), Then(z1, z2))
  BY DEF Consistent, Then

\* The least of a set of numbers.
LEMMA LeastIs ==
  ASSUME NEW S \in SUBSET Nat, S # {}
  PROVE  Min(S) \in S /\ \A i \in S : Min(S) <= i
  <1> DEFINE R == {ss \in Nat \X Nat : ss[1] < ss[2]}
  <1>1. IsWellFoundedOn(R, Nat)
    BY NatLessThanWellFounded DEF OpToRel
  <1>2. \A x, y \in Nat : x < y => <<x, y>> \in R
    OBVIOUS
  <1>3. IsWellFoundedOn(R, S)
    <2> HIDE DEF R
    <2> QED BY <1>1, IsWellFoundedOnSubset
  <1> HIDE DEF R
  <1>4. PICK d \in S : \A i \in S : ~(<<i, d>> \in R)
    BY <1>3, WFMin
  <1>5. ASSUME NEW i \in S PROVE d <= i
    <2>1. i \in Nat /\ d \in Nat /\ ~(i < d)
      BY <1>2, <1>4
    <2> QED BY <2>1
  <1> QED BY <1>5 DEF Min

\* A chain of length n ends with v at d, its first that is not zero; at n + 1 with 0
\* when all are zero.
EndsAt(cs, n, d, v) ==
    /\ d \in 1..(n + 1)
    /\ \A i \in 1..n : i < d => cs[i] = 0
    /\ d <= n => v = cs[d] /\ v # 0
    /\ d = n + 1 => v = 0

LEMMA ChainEnds ==
  ASSUME NEW n \in Nat, NEW cs, DOMAIN cs = 1..n
  PROVE  \E d \in 1..(n + 1) : EndsAt(cs, n, d, FirstNonzero(cs))
  <1> DEFINE nonzero == {i \in DOMAIN cs : cs[i] # 0}
  <1>1. CASE nonzero = {}
    <2>1. EndsAt(cs, n, n + 1, FirstNonzero(cs))
      BY <1>1 DEF FirstNonzero, EndsAt
    <2> QED BY <2>1
  <1>2. CASE nonzero # {}
    <2> DEFINE d == Min(nonzero)
    <2>1. nonzero \in SUBSET Nat
      OBVIOUS
    <2>2. d \in nonzero /\ \A i \in nonzero : d <= i
      <3> HIDE DEF nonzero
      <3> QED BY <1>2, <2>1, LeastIs
    <2>3. FirstNonzero(cs) = cs[d]
      BY <1>2 DEF FirstNonzero
    <2> HIDE DEF d
    <2>4. d \in 1..n /\ cs[d] # 0 /\ \A i \in 1..n : i < d => cs[i] = 0
      BY <2>1, <2>2
    <2>5. EndsAt(cs, n, d, FirstNonzero(cs))
      BY <2>3, <2>4 DEF EndsAt
    <2> QED BY <2>4, <2>5
  <1> QED BY <1>1, <1>2

LEMMA EndIsUnique ==
  ASSUME NEW n \in Nat, NEW cs, NEW d, NEW v, NEW e, NEW w,
         EndsAt(cs, n, d, v), EndsAt(cs, n, e, w)
  PROVE  d = e /\ v = w
  BY DEF EndsAt

\* A chain of comparisons that each fit an order fits one.
LEMMA ChainConsistent ==
  ASSUME NEW n \in Nat, NEW xs, NEW ys, NEW zs,
         DOMAIN xs = 1..n, DOMAIN ys = 1..n, DOMAIN zs = 1..n,
         \A i \in 1..n : Consistent(xs[i], ys[i], zs[i])
  PROVE  Consistent(FirstNonzero(xs), FirstNonzero(ys), FirstNonzero(zs))
  <1> DEFINE x == FirstNonzero(xs)
             y == FirstNonzero(ys)
             z == FirstNonzero(zs)
  <1>1. \A i \in 1..n : /\ xs[i] \in Int /\ ys[i] \in Int /\ zs[i] \in Int
                        /\ xs[i] = 0 /\ ys[i] = 0 => zs[i] = 0
    BY DEF Consistent
  <1>2. PICK d \in 1..(n + 1) : EndsAt(xs, n, d, x)
    BY ChainEnds
  <1>3. PICK e \in 1..(n + 1) : EndsAt(ys, n, e, y)
    BY ChainEnds
  <1>4. PICK f \in 1..(n + 1) : EndsAt(zs, n, f, z)
    BY ChainEnds
  <1> HIDE DEF x, y, z
  <1>5. x \in Int /\ y \in Int /\ z \in Int
    BY <1>1, <1>2, <1>3, <1>4 DEF EndsAt
  <1>6. Consistent(x, y, z)
    <2>1. CASE d = n + 1 /\ e = n + 1
      <3>1. f = n + 1
        BY <1>1, <1>2, <1>3, <1>4, <2>1 DEF EndsAt
      <3> QED BY <1>2, <1>3, <1>4, <2>1, <3>1 DEF EndsAt, Consistent
    <2>2. CASE d < e
      <3>1. d \in 1..n /\ ys[d] = 0 /\ Consistent(xs[d], ys[d], zs[d]) /\ xs[d] # 0
        BY <1>2, <1>3, <2>2 DEF EndsAt
      <3>2. zs[d] # 0 /\ \A i \in 1..n : i < d => zs[i] = 0
        BY <1>1, <1>2, <1>3, <2>2, <3>1 DEF EndsAt, Consistent
      <3>3. x = xs[d] /\ z = zs[d]
        BY <1>2, <1>4, <3>1, <3>2 DEF EndsAt
      <3> QED BY <1>5, <3>1, <3>3 DEF Consistent
    <2>3. CASE e < d
      <3>1. e \in 1..n /\ xs[e] = 0 /\ Consistent(xs[e], ys[e], zs[e]) /\ ys[e] # 0
        BY <1>2, <1>3, <2>3 DEF EndsAt
      <3>2. zs[e] # 0 /\ \A i \in 1..n : i < e => zs[i] = 0
        BY <1>1, <1>2, <1>3, <2>3, <3>1 DEF EndsAt, Consistent
      <3>3. y = ys[e] /\ z = zs[e]
        BY <1>3, <1>4, <3>1, <3>2 DEF EndsAt
      <3> QED BY <1>5, <3>1, <3>3 DEF Consistent
    <2>4. CASE d = e /\ d \in 1..n
      <3>1. /\ x = xs[d] /\ y = ys[d] /\ Consistent(xs[d], ys[d], zs[d])
            /\ xs[d] # 0 /\ ys[d] # 0
            /\ \A i \in 1..n : i < d => zs[i] = 0
        BY <1>1, <1>2, <1>3, <2>4 DEF EndsAt
      <3>2. zs[d] # 0 => z = zs[d]
        BY <1>4, <2>4, <3>1 DEF EndsAt
      <3> QED BY <1>5, <3>1, <3>2 DEF Consistent
    <2> QED BY <2>1, <2>2, <2>3, <2>4
  <1> QED BY <1>6 DEF x, y, z

\* The other way round a chain says the opposite.
LEMMA ChainNegates ==
  ASSUME NEW n \in Nat, NEW xs, NEW ys, DOMAIN xs = 1..n, DOMAIN ys = 1..n,
         \A i \in 1..n : Opposite(xs[i], ys[i])
  PROVE  Opposite(FirstNonzero(xs), FirstNonzero(ys))
  <1>1. PICK d \in 1..(n + 1) : EndsAt(xs, n, d, FirstNonzero(xs))
    BY ChainEnds
  <1>2. PICK e \in 1..(n + 1) : EndsAt(ys, n, e, FirstNonzero(ys))
    BY ChainEnds
  <1>3. \A i \in 1..n : xs[i] = 0 <=> ys[i] = 0
    BY DEF Opposite
  <1>4. d = e
    BY <1>1, <1>2, <1>3 DEF EndsAt
  <1> QED BY <1>1, <1>2, <1>4 DEF EndsAt, Opposite

LEMMA ChainType ==
  ASSUME NEW n \in Nat, NEW cs, DOMAIN cs = 1..n, \A i \in 1..n : cs[i] \in Int
  PROVE  FirstNonzero(cs) \in Int
  BY ChainEnds DEF EndsAt

LEMMA ChainOfZeros ==
  ASSUME NEW n \in Nat, NEW cs, DOMAIN cs = 1..n, FirstNonzero(cs) = 0
  PROVE  \A i \in 1..n : cs[i] = 0
  BY ChainEnds DEF EndsAt

\* Two chains, one after the other.
LEMMA ChainOfTwo ==
  ASSUME NEW s \in Seq(Int), NEW t \in Seq(Int)
  PROVE  FirstNonzero(s \o t) = Then(FirstNonzero(s), FirstNonzero(t))
  <1> DEFINE u == s \o t
             m == Len(s)
             n == Len(t)
  <1>1. /\ m \in Nat /\ n \in Nat /\ DOMAIN s = 1..m /\ DOMAIN t = 1..n
        /\ u \in Seq(Int) /\ Len(u) = m + n /\ DOMAIN u = 1..(m + n)
        /\ \A i \in 1..(m + n) : u[i] = IF i <= m THEN s[i] ELSE t[i - m]
    BY ConcatProperties
  <1> HIDE DEF u, m, n
  <1>2. PICK d \in 1..(m + 1) : EndsAt(s, m, d, FirstNonzero(s))
    BY <1>1, ChainEnds
  <1>3. PICK e \in 1..(n + 1) : EndsAt(t, n, e, FirstNonzero(t))
    BY <1>1, ChainEnds
  <1>4. PICK f \in 1..(m + n + 1) : EndsAt(u, m + n, f, FirstNonzero(u))
    BY <1>1, ChainEnds
  <1>5. CASE d <= m
    <2>1. u[d] = s[d] /\ \A i \in 1..(m + n) : i < d => u[i] = 0
      BY <1>1, <1>2, <1>5 DEF EndsAt
    <2>2. EndsAt(u, m + n, d, FirstNonzero(s))
      BY <1>1, <1>2, <1>5, <2>1 DEF EndsAt
    <2>3. FirstNonzero(u) = FirstNonzero(s)
      <3>1. m + n \in Nat
        BY <1>1
      <3> QED BY <1>4, <2>2, <3>1, EndIsUnique
    <2>4. FirstNonzero(s) # 0
      BY <1>2, <1>5 DEF EndsAt
    <2> QED BY <2>3, <2>4 DEF Then, u
  <1>6. CASE d = m + 1
    <2>1. \A i \in 1..(m + n) : i < m + e => u[i] = 0
      BY <1>1, <1>2, <1>3, <1>6 DEF EndsAt
    <2>2. e <= n => m + e \in 1..(m + n) /\ u[m + e] = t[e]
      BY <1>1
    <2>3. EndsAt(u, m + n, m + e, FirstNonzero(t))
      BY <1>1, <1>3, <2>1, <2>2 DEF EndsAt
    <2>4. FirstNonzero(u) = FirstNonzero(t)
      BY <1>1, <1>4, <2>3, EndIsUnique
    <2>5. FirstNonzero(s) = 0
      BY <1>2, <1>6 DEF EndsAt
    <2> QED BY <2>4, <2>5 DEF Then, u
  <1> QED BY <1>1, <1>5, <1>6

LEMMA ChainOfOne ==
  ASSUME NEW x \in Int
  PROVE  FirstNonzero(<<x>>) = x
  <1> DEFINE cs == <<x>>
  <1>1. DOMAIN cs = 1..1 /\ cs[1] = x
    OBVIOUS
  <1> HIDE DEF cs
  <1>2. PICK d \in 1..(1 + 1) : EndsAt(cs, 1, d, FirstNonzero(cs))
    BY <1>1, ChainEnds
  <1>3. FirstNonzero(cs) = x
    BY <1>1, <1>2 DEF EndsAt
  <1> QED BY <1>3 DEF cs

LEMMA ChainOfPair ==
  ASSUME NEW x \in Int, NEW y \in Int
  PROVE  FirstNonzero(<<x, y>>) = Then(x, y)
  <1> DEFINE cs == <<x, y>>
  <1>1. DOMAIN cs = 1..2 /\ cs[1] = x /\ cs[2] = y
    OBVIOUS
  <1> HIDE DEF cs
  <1>2. PICK d \in 1..(2 + 1) : EndsAt(cs, 2, d, FirstNonzero(cs))
    BY <1>1, ChainEnds
  <1>3. FirstNonzero(cs) = Then(x, y)
    BY <1>1, <1>2 DEF EndsAt, Then
  <1> QED BY <1>3 DEF cs

-----------------------------------------------------------------------------
(* Numbers with dots. *)

Component(s, i) == IF i <= Len(s) THEN s[i] ELSE 0

Components(a, b, n) == [i \in 1..n |-> Cmp(Component(a, i), Component(b, i))]

\* More zeros make no difference.
LEMMA Padded ==
  ASSUME NEW a \in Seq(Int), NEW b \in Seq(Int), NEW n \in Nat,
         Len(a) <= n, Len(b) <= n
  PROVE  CompareIntSlices(a, b) = FirstNonzero(Components(a, b, n))
  <1> DEFINE m == Max({Len(a), Len(b)})
             short == Components(a, b, m)
             long  == Components(a, b, n)
  <1>1. CompareIntSlices(a, b) = FirstNonzero(short)
    BY DEF CompareIntSlices, Components, Component
  <1>2. m = IF Len(a) <= Len(b) THEN Len(b) ELSE Len(a)
    BY DEF Max
  <1>3. m \in Nat /\ m <= n /\ Len(a) <= m /\ Len(b) <= m
    BY <1>2
  <1> HIDE DEF m
  <1>4. /\ DOMAIN short = 1..m /\ DOMAIN long = 1..n
        /\ \A i \in 1..m : short[i] = long[i]
        /\ \A i \in 1..n : i > m => long[i] = 0
    BY <1>3 DEF Components, Component, Cmp
  <1> HIDE DEF short, long
  <1>5. PICK d \in 1..(m + 1) : EndsAt(short, m, d, FirstNonzero(short))
    BY <1>3, <1>4, ChainEnds
  <1>6. PICK e \in 1..(n + 1) : EndsAt(long, n, e, FirstNonzero(long))
    BY <1>4, ChainEnds
  <1>7. FirstNonzero(short) = FirstNonzero(long)
    <2>1. CASE d <= m
      <3>1. EndsAt(long, n, d, FirstNonzero(short))
        BY <1>3, <1>4, <1>5, <2>1 DEF EndsAt
      <3> QED BY <1>6, <3>1, EndIsUnique
    <2>2. CASE d = m + 1
      <3>1. EndsAt(long, n, n + 1, FirstNonzero(short))
        BY <1>3, <1>4, <1>5, <2>2 DEF EndsAt
      <3> QED BY <1>6, <3>1, EndIsUnique
    <2> QED BY <1>3, <2>1, <2>2
  <1> QED BY <1>1, <1>7 DEF long

LEMMA IntSlicesConsistent ==
  ASSUME NEW a \in Seq(Int), NEW b \in Seq(Int), NEW c \in Seq(Int)
  PROVE  /\ Consistent(CompareIntSlices(a, b), CompareIntSlices(b, c),
                       CompareIntSlices(a, c))
         /\ Opposite(CompareIntSlices(a, b), CompareIntSlices(b, a))
  <1> DEFINE n == Len(a) + Len(b) + Len(c)
  <1>1. n \in Nat /\ Len(a) <= n /\ Len(b) <= n /\ Len(c) <= n
    OBVIOUS
  <1> HIDE DEF n
  <1>2. /\ CompareIntSlices(a, b) = FirstNonzero(Components(a, b, n))
        /\ CompareIntSlices(b, c) = FirstNonzero(Components(b, c, n))
        /\ CompareIntSlices(a, c) = FirstNonzero(Components(a, c, n))
        /\ CompareIntSlices(b, a) = FirstNonzero(Components(b, a, n))
    BY <1>1, Padded
  <1>3. \A i \in 1..n : /\ Component(a, i) \in Int /\ Component(b, i) \in Int
                        /\ Component(c, i) \in Int
    BY DEF Component
  <1>4. ASSUME NEW i \in 1..n
        PROVE  /\ Consistent(Components(a, b, n)[i], Components(b, c, n)[i],
                             Components(a, c, n)[i])
               /\ Opposite(Components(a, b, n)[i], Components(b, a, n)[i])
    <2>1. /\ Components(a, b, n)[i] = Cmp(Component(a, i), Component(b, i))
          /\ Components(b, c, n)[i] = Cmp(Component(b, i), Component(c, i))
          /\ Components(a, c, n)[i] = Cmp(Component(a, i), Component(c, i))
          /\ Components(b, a, n)[i] = Cmp(Component(b, i), Component(a, i))
      BY DEF Components
    <2> QED BY <1>3, <2>1, CmpConsistent
  <1>5. /\ DOMAIN Components(a, b, n) = 1..n /\ DOMAIN Components(b, c, n) = 1..n
        /\ DOMAIN Components(a, c, n) = 1..n /\ DOMAIN Components(b, a, n) = 1..n
    BY DEF Components
  <1>6. Consistent(CompareIntSlices(a, b), CompareIntSlices(b, c),
                   CompareIntSlices(a, c))
    BY <1>1, <1>2, <1>4, <1>5, ChainConsistent
  <1>7. Opposite(CompareIntSlices(a, b), CompareIntSlices(b, a))
    BY <1>1, <1>2, <1>4, <1>5, ChainNegates
  <1> QED BY <1>6, <1>7

-----------------------------------------------------------------------------
(* Simple versions. *)

\* What parsing fills in of a version without segments.
Numbered(v) ==
    /\ v.weekly \in BOOLEAN /\ v.primary \in Seq(Int)
    /\ v.qualifier \in Int /\ v.number \in Int

QualifiersOf(a, b) == Then(Cmp(a.qualifier, b.qualifier), Cmp(a.number, b.number))

\* After a comparison come the qualifiers.
LEMMA QualifiersFollow ==
  ASSUME NEW a, NEW b, NEW s \in Seq(Int),
         a.qualifier \in Int, b.qualifier \in Int, a.number \in Int, b.number \in Int
  PROVE  /\ FirstNonzero(s \o Qualifiers(a, b)) = Then(FirstNonzero(s), QualifiersOf(a, b))
         /\ QualifiersOf(a, b) \in Int
  <1>1. Cmp(a.qualifier, b.qualifier) \in Int /\ Cmp(a.number, b.number) \in Int
    BY DEF Cmp
  <1>2. Qualifiers(a, b) \in Seq(Int)
    BY <1>1 DEF Qualifiers
  <1>3. FirstNonzero(Qualifiers(a, b)) = QualifiersOf(a, b)
    BY <1>1, ChainOfPair DEF Qualifiers, QualifiersOf
  <1>4. FirstNonzero(s \o Qualifiers(a, b)) =
          Then(FirstNonzero(s), FirstNonzero(Qualifiers(a, b)))
    BY <1>2, ChainOfTwo
  <1> QED BY <1>1, <1>3, <1>4 DEF QualifiersOf, Then

LEMMA QualifiersConsistent ==
  ASSUME NEW a, NEW b, NEW c,
         a.qualifier \in Int, b.qualifier \in Int, c.qualifier \in Int,
         a.number \in Int, b.number \in Int, c.number \in Int
  PROVE  /\ Consistent(QualifiersOf(a, b), QualifiersOf(b, c), QualifiersOf(a, c))
         /\ Opposite(QualifiersOf(a, b), QualifiersOf(b, a))
         /\ QualifiersOf(a, b) \in Int
  BY DEF QualifiersOf, Then, Cmp, Consistent, Opposite

LEMMA CompareSimpleIs ==
  ASSUME NEW a, NEW b, Numbered(a), Numbered(b)
  PROVE  CompareSimple(a, b) =
           IF a.weekly /\ b.weekly THEN CompareIntSlices(a.primary, b.primary)
           ELSE IF a.weekly THEN -1 ELSE IF b.weekly THEN 1
           ELSE Then(CompareIntSlices(a.primary, b.primary), QualifiersOf(a, b))
  <1> DEFINE x == CompareIntSlices(a.primary, b.primary)
  <1>1. x \in Int
    BY IntSlicesConsistent DEF Numbered, Consistent
  <1> HIDE DEF x
  <1>2. <<x>> \in Seq(Int) /\ FirstNonzero(<<x>>) = x
    BY <1>1, ChainOfOne
  <1>3. FirstNonzero(<<x>> \o Qualifiers(a, b)) = Then(x, QualifiersOf(a, b))
    BY <1>2, QualifiersFollow DEF Numbered
  <1>4. a.weekly \in BOOLEAN /\ b.weekly \in BOOLEAN
    BY DEF Numbered
  <1>5. CASE a.weekly /\ b.weekly
    BY <1>5 DEF CompareSimple
  <1>6. CASE a.weekly /\ ~b.weekly
    BY <1>6 DEF CompareSimple
  <1>7. CASE ~a.weekly /\ b.weekly
    BY <1>7 DEF CompareSimple
  <1>8. CASE ~a.weekly /\ ~b.weekly
    <2>1. CompareSimple(a, b) = FirstNonzero(<<x>> \o Qualifiers(a, b))
      BY <1>8 DEF CompareSimple, x
    <2> QED BY <1>3, <1>8, <2>1 DEF x
  <1> QED BY <1>4, <1>5, <1>6, <1>7, <1>8

LEMMA SimpleConsistent ==
  ASSUME NEW a, NEW b, NEW c, Numbered(a), Numbered(b), Numbered(c)
  PROVE  /\ Consistent(CompareSimple(a, b), CompareSimple(b, c), CompareSimple(a, c))
         /\ Opposite(CompareSimple(a, b), CompareSimple(b, a))
  <1> DEFINE x == CompareIntSlices(a.primary, b.primary)
             y == CompareIntSlices(b.primary, c.primary)
             z == CompareIntSlices(a.primary, c.primary)
             r == CompareIntSlices(b.primary, a.primary)
  <1>1. Consistent(x, y, z) /\ Opposite(x, r) /\ x \in Int /\ y \in Int /\ z \in Int /\ r \in Int
    BY IntSlicesConsistent DEF Numbered, Consistent, Opposite
  <1>2. /\ Consistent(QualifiersOf(a, b), QualifiersOf(b, c), QualifiersOf(a, c))
        /\ Opposite(QualifiersOf(a, b), QualifiersOf(b, a))
        /\ QualifiersOf(a, b) \in Int /\ QualifiersOf(b, c) \in Int
        /\ QualifiersOf(a, c) \in Int /\ QualifiersOf(b, a) \in Int
    BY QualifiersConsistent DEF Numbered
  <1> HIDE DEF x, y, z, r
  <1>3. /\ Consistent(Then(x, QualifiersOf(a, b)), Then(y, QualifiersOf(b, c)),
                      Then(z, QualifiersOf(a, c)))
        /\ Opposite(Then(x, QualifiersOf(a, b)), Then(r, QualifiersOf(b, a)))
    <2>1. Opposite(Then(x, QualifiersOf(a, b)), Then(r, QualifiersOf(b, a)))
      BY <1>1, <1>2 DEF Then, Opposite
    <2> QED BY <1>1, <1>2, <2>1, ThenConsistent
  <1>4. /\ a.weekly \in BOOLEAN /\ b.weekly \in BOOLEAN /\ c.weekly \in BOOLEAN
    BY DEF Numbered
  <1>5. /\ CompareSimple(a, b) = IF a.weekly /\ b.weekly THEN x
             ELSE IF a.weekly THEN -1 ELSE IF b.weekly THEN 1
             ELSE Then(x, QualifiersOf(a, b))
        /\ CompareSimple(b, c) = IF b.weekly /\ c.weekly THEN y
             ELSE IF b.weekly THEN -1 ELSE IF c.weekly THEN 1
             ELSE Then(y, QualifiersOf(b, c))
        /\ CompareSimple(a, c) = IF a.weekly /\ c.weekly THEN z
             ELSE IF a.weekly THEN -1 ELSE IF c.weekly THEN 1
             ELSE Then(z, QualifiersOf(a, c))
        /\ CompareSimple(b, a) = IF b.weekly /\ a.weekly THEN r
             ELSE IF b.weekly THEN -1 ELSE IF a.weekly THEN 1
             ELSE Then(r, QualifiersOf(b, a))
    BY CompareSimpleIs DEF x, y, z, r
  <1>6. Opposite(CompareSimple(a, b), CompareSimple(b, a))
    BY <1>1, <1>3, <1>4, <1>5 DEF Opposite
  <1>7. Consistent(CompareSimple(a, b), CompareSimple(b, c), CompareSimple(a, c))
    <2>1. CASE a.weekly
      BY <1>1, <1>3, <1>4, <1>5, <2>1 DEF Consistent
    <2>2. CASE ~a.weekly
      BY <1>1, <1>3, <1>4, <1>5, <2>2 DEF Consistent
    <2> QED BY <2>1, <2>2
  <1> QED BY <1>6, <1>7

-----------------------------------------------------------------------------
(* Composite versions. *)

\* What parsing fills in of a segment, and of a version with segments.
Captured(s) ==
    /\ s.parseAs = "minecraft" => Numbered(s.value)
    /\ s.parseAs = "dotted" => s.value \in Seq(Int)
    /\ s.parseAs = "integer" => s.value \in Int

Segmented(v) ==
    /\ Len(v.segments) \in Nat
    /\ \A i \in 1..Len(v.segments) : Captured(v.segments[i])
    /\ v.variant \in Int /\ v.qualifier \in Int /\ v.number \in Int

LEMMA SegmentConsistent ==
  ASSUME NEW s, NEW t, NEW u, Captured(s), Captured(t), Captured(u),
         s.parseAs = t.parseAs, t.parseAs = u.parseAs
  PROVE  /\ Consistent(CompareSegments(s, t), CompareSegments(t, u), CompareSegments(s, u))
         /\ Opposite(CompareSegments(s, t), CompareSegments(t, s))
  <1>1. CASE s.parseAs = "minecraft"
    <2>1. Numbered(s.value) /\ Numbered(t.value) /\ Numbered(u.value)
      BY <1>1 DEF Captured
    <2>2. /\ CompareSegments(s, t) = CompareSimple(s.value, t.value)
          /\ CompareSegments(t, u) = CompareSimple(t.value, u.value)
          /\ CompareSegments(s, u) = CompareSimple(s.value, u.value)
          /\ CompareSegments(t, s) = CompareSimple(t.value, s.value)
      BY <1>1 DEF CompareSegments
    <2> QED BY <2>1, <2>2, SimpleConsistent
  <1>2. CASE s.parseAs = "dotted"
    <2>1. s.value \in Seq(Int) /\ t.value \in Seq(Int) /\ u.value \in Seq(Int)
      BY <1>2 DEF Captured
    <2>2. /\ CompareSegments(s, t) = CompareIntSlices(s.value, t.value)
          /\ CompareSegments(t, u) = CompareIntSlices(t.value, u.value)
          /\ CompareSegments(s, u) = CompareIntSlices(s.value, u.value)
          /\ CompareSegments(t, s) = CompareIntSlices(t.value, s.value)
      BY <1>2 DEF CompareSegments
    <2> QED BY <2>1, <2>2, IntSlicesConsistent
  <1>3. CASE s.parseAs = "integer"
    <2>1. s.value \in Int /\ t.value \in Int /\ u.value \in Int
      BY <1>3 DEF Captured
    <2>2. /\ CompareSegments(s, t) = Cmp(s.value, t.value)
          /\ CompareSegments(t, u) = Cmp(t.value, u.value)
          /\ CompareSegments(s, u) = Cmp(s.value, u.value)
          /\ CompareSegments(t, s) = Cmp(t.value, s.value)
      BY <1>3 DEF CompareSegments
    <2>3. /\ Consistent(Cmp(s.value, t.value), Cmp(t.value, u.value),
                        Cmp(s.value, u.value))
          /\ Opposite(Cmp(s.value, t.value), Cmp(t.value, s.value))
      BY <2>1, CmpConsistent
    <2> QED BY <2>2, <2>3, Zenon
  <1>4. CASE s.parseAs \notin {"minecraft", "dotted", "integer"}
    <2>1. /\ CompareSegments(s, t) = 0 /\ CompareSegments(t, u) = 0
          /\ CompareSegments(s, u) = 0 /\ CompareSegments(t, s) = 0
      BY <1>4 DEF CompareSegments
    <2>2. Consistent(0, 0, 0) /\ Opposite(0, 0)
      BY DEF Consistent, Opposite
    <2> QED BY <2>1, <2>2, Zenon
  <1> QED BY <1>1, <1>2, <1>3, <1>4

LEMMA MinOfTwo ==
  ASSUME NEW a \in Int, NEW b \in Int
  PROVE  Min({a, b}) = IF a <= b THEN a ELSE b
  BY DEF Min

\* The first k segments of a and b are parsed alike, and no more are.
Alike(a, b, k) ==
    /\ k \in Nat /\ k <= Len(a.segments) /\ k <= Len(b.segments)
    /\ \A i \in 1..k : a.segments[i].parseAs = b.segments[i].parseAs
    /\ \/ k = Len(a.segments) \/ k = Len(b.segments)
       \/ a.segments[k + 1].parseAs # b.segments[k + 1].parseAs

LEMMA ComparableIs ==
  ASSUME NEW a, NEW b, Len(a.segments) \in Nat, Len(b.segments) \in Nat
  PROVE  Alike(a, b, Comparable(a, b))
  <1> DEFINE n == Min({Len(a.segments), Len(b.segments)})
             differ == {i \in 1..n : a.segments[i].parseAs # b.segments[i].parseAs}
  <1>1. n = IF Len(a.segments) <= Len(b.segments) THEN Len(a.segments)
            ELSE Len(b.segments)
    BY MinOfTwo
  <1>2. n \in Nat
    BY <1>1
  <1> HIDE DEF n
  <1>3. CASE differ = {}
    <2>1. Comparable(a, b) = n
      BY <1>3 DEF Comparable, n
    <2> QED BY <1>1, <1>2, <1>3, <2>1 DEF Alike
  <1>4. CASE differ # {}
    <2> DEFINE d == Min(differ)
    <2>1. differ \in SUBSET Nat
      BY <1>2
    <2>2. d \in differ /\ \A i \in differ : d <= i
      <3> HIDE DEF differ
      <3> QED BY <1>4, <2>1, LeastIs
    <2>3. Comparable(a, b) = d - 1
      BY <1>4 DEF Comparable, n
    <2> HIDE DEF d
    <2>4. /\ d \in 1..n /\ a.segments[d].parseAs # b.segments[d].parseAs
          /\ \A i \in 1..n : i < d => a.segments[i].parseAs = b.segments[i].parseAs
      BY <1>2, <2>2
    <2>5. d - 1 \in Nat /\ (d - 1) + 1 = d /\ \A i \in 1..(d - 1) : i \in 1..n /\ i < d
      BY <1>2, <2>4
    <2> QED BY <1>1, <2>3, <2>4, <2>5 DEF Alike
  <1> QED BY <1>3, <1>4

\* Comparability is symmetric, and of three versions no two are comparable further
\* than both are with the third while these differ.
LEMMA ComparableThree ==
  ASSUME NEW a, NEW b, NEW c,
         Len(a.segments) \in Nat, Len(b.segments) \in Nat, Len(c.segments) \in Nat
  PROVE  /\ Comparable(a, b) = Comparable(b, a) /\ Comparable(a, b) \in Nat
         /\ \/ Comparable(a, c) >= Comparable(a, b)
            \/ Comparable(a, c) >= Comparable(b, c)
  <1>1. /\ Alike(a, b, Comparable(a, b)) /\ Alike(b, a, Comparable(b, a))
        /\ Alike(b, c, Comparable(b, c)) /\ Alike(a, c, Comparable(a, c))
    BY ComparableIs
  <1>2. ASSUME NEW k, NEW l, Alike(a, b, k), Alike(b, a, l)
        PROVE  k = l
    <2>1. ~(k < l)
      <3> SUFFICES ASSUME k < l PROVE FALSE
        OBVIOUS
      <3>1. k + 1 \in 1..l
        BY <1>2 DEF Alike
      <3> QED BY <1>2, <3>1 DEF Alike
    <2>2. ~(l < k)
      <3> SUFFICES ASSUME l < k PROVE FALSE
        OBVIOUS
      <3>1. l + 1 \in 1..k
        BY <1>2 DEF Alike
      <3> QED BY <1>2, <3>1 DEF Alike
    <2> QED BY <1>2, <2>1, <2>2 DEF Alike
  <1>3. ASSUME NEW k, NEW l, NEW j, Alike(a, b, k), Alike(b, c, l), Alike(a, c, j),
               j < k, j < l
        PROVE  FALSE
    <2>1. /\ j + 1 \in 1..k /\ j + 1 \in 1..l
      BY <1>3 DEF Alike
    <2>2. a.segments[j + 1].parseAs = c.segments[j + 1].parseAs
      BY <1>3, <2>1 DEF Alike
    <2> QED BY <1>3, <2>1, <2>2 DEF Alike
  <1>4. Comparable(a, b) = Comparable(b, a)
    BY <1>1, <1>2
  <1>5. /\ Comparable(a, b) \in Nat /\ Comparable(b, c) \in Nat /\ Comparable(a, c) \in Nat
    BY <1>1 DEF Alike
  <1>6. ~(Comparable(a, c) < Comparable(a, b) /\ Comparable(a, c) < Comparable(b, c))
    BY <1>1, <1>3
  <1> QED BY <1>4, <1>5, <1>6

\* The first n segments compared.
Leading(a, b, n) == [i \in 1..n |-> CompareSegments(a.segments[i], b.segments[i])]

\* What follows the segments.
Rest(a, b) == Then(Cmp(b.variant, a.variant), QualifiersOf(a, b))

LEMMA LeadingConsistent ==
  ASSUME NEW a, NEW b, NEW c, Segmented(a), Segmented(b), Segmented(c), NEW n \in Nat,
         n <= Comparable(a, b), n <= Comparable(b, c)
  PROVE  /\ Consistent(FirstNonzero(Leading(a, b, n)), FirstNonzero(Leading(b, c, n)),
                       FirstNonzero(Leading(a, c, n)))
         /\ Opposite(FirstNonzero(Leading(a, b, n)), FirstNonzero(Leading(b, a, n)))
  <1>1. Alike(a, b, Comparable(a, b)) /\ Alike(b, c, Comparable(b, c))
    BY ComparableIs DEF Segmented
  <1>2. ASSUME NEW i \in 1..n
        PROVE  /\ Captured(a.segments[i]) /\ Captured(b.segments[i])
               /\ Captured(c.segments[i])
               /\ a.segments[i].parseAs = b.segments[i].parseAs
               /\ b.segments[i].parseAs = c.segments[i].parseAs
    <2>1. i \in 1..Comparable(a, b) /\ i \in 1..Comparable(b, c)
      BY <1>1 DEF Alike
    <2>2. /\ a.segments[i].parseAs = b.segments[i].parseAs
          /\ b.segments[i].parseAs = c.segments[i].parseAs
      BY <1>1, <2>1 DEF Alike
    <2>3. /\ i \in 1..Len(a.segments) /\ i \in 1..Len(b.segments)
          /\ i \in 1..Len(c.segments)
      <3>1. /\ Len(a.segments) \in Nat /\ Len(b.segments) \in Nat
            /\ Len(c.segments) \in Nat
        BY DEF Segmented
      <3>2. /\ Comparable(a, b) \in Nat /\ Comparable(b, c) \in Nat
            /\ Comparable(a, b) <= Len(a.segments)
            /\ Comparable(a, b) <= Len(b.segments)
            /\ Comparable(b, c) <= Len(c.segments)
        BY <1>1 DEF Alike
      <3> QED BY <2>1, <3>1, <3>2
    <2> QED BY <2>2, <2>3 DEF Segmented
  <1> DEFINE xs == Leading(a, b, n)
             ys == Leading(b, c, n)
             zs == Leading(a, c, n)
             rs == Leading(b, a, n)
  <1>3. /\ DOMAIN xs = 1..n /\ DOMAIN ys = 1..n /\ DOMAIN zs = 1..n /\ DOMAIN rs = 1..n
        /\ \A i \in 1..n :
             /\ xs[i] = CompareSegments(a.segments[i], b.segments[i])
             /\ ys[i] = CompareSegments(b.segments[i], c.segments[i])
             /\ zs[i] = CompareSegments(a.segments[i], c.segments[i])
             /\ rs[i] = CompareSegments(b.segments[i], a.segments[i])
    BY DEF Leading
  <1> HIDE DEF xs, ys, zs, rs
  <1>4. ASSUME NEW i \in 1..n
        PROVE  Consistent(xs[i], ys[i], zs[i]) /\ Opposite(xs[i], rs[i])
    BY <1>2, <1>3, SegmentConsistent
  <1>6. Consistent(FirstNonzero(xs), FirstNonzero(ys), FirstNonzero(zs))
    BY <1>3, <1>4, ChainConsistent
  <1>7. Opposite(FirstNonzero(xs), FirstNonzero(rs))
    BY <1>3, <1>4, ChainNegates
  <1> QED BY <1>6, <1>7 DEF xs, ys, zs, rs

\* A comparison says what the first n segments say, then whatever follows: the
\* rest, when no more segments are comparable.
LEMMA CompositeIs ==
  ASSUME NEW a, NEW b, Segmented(a), Segmented(b), NEW n \in Nat, n <= Comparable(a, b)
  PROVE  \E w \in Int :
           /\ CompareComposite(a, b) = Then(FirstNonzero(Leading(a, b, n)), w)
           /\ n = Comparable(a, b) => w = Rest(a, b)
  <1> DEFINE k == Comparable(a, b)
             s == Leading(a, b, k)
             t == Leading(a, b, n)
             v == Cmp(b.variant, a.variant)
  <1>1. Alike(a, b, k) /\ k \in Nat
    BY ComparableIs DEF Segmented, Alike
  <1> HIDE DEF k
  <1>2. ASSUME NEW i \in 1..k
        PROVE  CompareSegments(a.segments[i], b.segments[i]) \in Int
    <2>1. /\ Captured(a.segments[i]) /\ Captured(b.segments[i])
          /\ a.segments[i].parseAs = b.segments[i].parseAs
      BY <1>1 DEF Alike, Segmented
    <2>2. Consistent(CompareSegments(a.segments[i], b.segments[i]),
                     CompareSegments(b.segments[i], a.segments[i]),
                     CompareSegments(a.segments[i], a.segments[i]))
      BY <2>1, SegmentConsistent
    <2> QED BY <2>2 DEF Consistent
  <1>3. /\ DOMAIN s = 1..k /\ DOMAIN t = 1..n /\ s \in Seq(Int)
        /\ \A i \in 1..n : s[i] = t[i]
    <2>1. n <= k
      BY DEF k
    <2> QED BY <1>1, <1>2, <2>1 DEF Leading
  <1>4. v \in Int /\ QualifiersOf(a, b) \in Int
    BY QualifiersConsistent DEF Cmp, Segmented
  <1>5. CompareComposite(a, b) = FirstNonzero((s \o <<v>>) \o Qualifiers(a, b))
    <2>1. v = -Cmp(a.variant, b.variant)
      BY CmpReversed DEF Segmented
    <2> HIDE DEF v
    <2> QED BY <2>1 DEF CompareComposite, Leading, k
  <1> HIDE DEF s, t, v
  <1>6. FirstNonzero(s) \in Int
    BY <1>1, <1>3, ChainType
  <1>7. CompareComposite(a, b) = Then(FirstNonzero(s), Then(v, QualifiersOf(a, b)))
    <2>1. s \o <<v>> \in Seq(Int) /\ <<v>> \in Seq(Int)
      BY <1>3, <1>4
    <2>2. FirstNonzero(s \o <<v>>) = Then(FirstNonzero(s), v)
      BY <1>3, <1>4, <2>1, ChainOfTwo, ChainOfOne
    <2>3. CompareComposite(a, b) = Then(Then(FirstNonzero(s), v), QualifiersOf(a, b))
      BY <1>5, <2>1, <2>2, QualifiersFollow DEF Segmented
    <2> QED BY <1>4, <1>6, <2>3 DEF Then
  <1>8. CASE n = k
    <2>1. s = t
      BY <1>8 DEF s, t
    <2>2. Rest(a, b) = Then(v, QualifiersOf(a, b)) /\ Rest(a, b) \in Int
      BY <1>4 DEF Rest, Then, v
    <2> QED BY <1>7, <2>1, <2>2 DEF t
  <1>9. CASE n < k
    <2> DEFINE w == CompareComposite(a, b)
    <2>1. w \in Int
      BY <1>4, <1>6, <1>7 DEF Then
    <2>2. PICK d \in 1..(n + 1) : EndsAt(t, n, d, FirstNonzero(t))
      BY <1>3, ChainEnds
    <2>3. PICK e \in 1..(k + 1) : EndsAt(s, k, e, FirstNonzero(s))
      BY <1>1, <1>3, ChainEnds
    <2>4. FirstNonzero(t) # 0 => FirstNonzero(s) = FirstNonzero(t)
      BY <1>1, <1>3, <1>9, <2>2, <2>3 DEF EndsAt
    <2>5. w = Then(FirstNonzero(t), w)
      BY <1>7, <2>4 DEF Then
    <2> HIDE DEF w
    <2> QED BY <1>9, <2>1, <2>5 DEF t, k, w
  <1> QED BY <1>1, <1>8, <1>9 DEF k

LEMMA RestConsistent ==
  ASSUME NEW a, NEW b, NEW c, Segmented(a), Segmented(b), Segmented(c)
  PROVE  /\ Consistent(Rest(a, b), Rest(b, c), Rest(a, c)) /\ Opposite(Rest(a, b), Rest(b, a))
         /\ a.variant > b.variant => Rest(a, b) = -1
         /\ a.variant < b.variant => Rest(a, b) = 1
  <1>1. /\ Consistent(QualifiersOf(a, b), QualifiersOf(b, c), QualifiersOf(a, c))
        /\ Opposite(QualifiersOf(a, b), QualifiersOf(b, a))
        /\ QualifiersOf(a, b) \in Int /\ QualifiersOf(b, c) \in Int
        /\ QualifiersOf(a, c) \in Int /\ QualifiersOf(b, a) \in Int
    BY QualifiersConsistent DEF Segmented
  <1>2. /\ Consistent(Cmp(b.variant, a.variant), Cmp(c.variant, b.variant),
                      Cmp(c.variant, a.variant))
        /\ Opposite(Cmp(b.variant, a.variant), Cmp(a.variant, b.variant))
    BY CmpConsistent DEF Segmented
  <1>3. Consistent(Rest(a, b), Rest(b, c), Rest(a, c))
    BY <1>1, <1>2, ThenConsistent DEF Rest
  <1>4. Opposite(Rest(a, b), Rest(b, a))
    BY <1>1, <1>2 DEF Rest, Then, Opposite
  <1>5. /\ a.variant > b.variant => Rest(a, b) = -1
        /\ a.variant < b.variant => Rest(a, b) = 1
    <2>1. a.variant \in Int /\ b.variant \in Int
      BY DEF Segmented
    <2>2. /\ a.variant > b.variant => Cmp(b.variant, a.variant) = -1
          /\ a.variant < b.variant => Cmp(b.variant, a.variant) = 1
      BY <2>1 DEF Cmp
    <2> QED BY <2>2 DEF Rest, Then
  <1> QED BY <1>3, <1>4, <1>5

\* Versions whose comparable segments compare as equal are tied.
LEMMA TiedIs ==
  ASSUME NEW a, NEW b, NEW n \in Nat, n = Comparable(a, b),
         FirstNonzero(Leading(a, b, n)) = 0
  PROVE  Tied(a, b)
  <1>1. DOMAIN Leading(a, b, n) = 1..n
    BY DEF Leading
  <1>2. \A i \in 1..n : Leading(a, b, n)[i] = 0
    BY <1>1, ChainOfZeros
  <1> QED BY <1>2 DEF Leading, Tied

LEMMA CompositeConsistent ==
  ASSUME NEW a, NEW b, NEW c, Segmented(a), Segmented(b), Segmented(c),
         a.segments # <<>>, b.segments # <<>>, c.segments # <<>>,
         Beside(a, b, c), Beside(b, c, a), Beside(a, c, b)
  PROVE  Consistent(CompareComposite(a, b), CompareComposite(b, c), CompareComposite(a, c))
  <1> DEFINE ab == Comparable(a, b)
             bc == Comparable(b, c)
             ac == Comparable(a, c)
             n  == IF ab <= bc /\ ab <= ac THEN ab ELSE IF bc <= ac THEN bc ELSE ac
             x  == FirstNonzero(Leading(a, b, n))
             y  == FirstNonzero(Leading(b, c, n))
             z  == FirstNonzero(Leading(a, c, n))
  <1>1. Len(a.segments) \in Nat /\ Len(b.segments) \in Nat /\ Len(c.segments) \in Nat
    BY DEF Segmented
  <1>2. /\ ab \in Nat /\ bc \in Nat /\ ac \in Nat
        /\ Comparable(b, a) = ab /\ Comparable(c, b) = bc /\ Comparable(c, a) = ac
    BY <1>1, ComparableThree
  <1>3. /\ ac >= ab \/ ac >= bc
        /\ ab >= ac \/ ab >= bc
        /\ bc >= ab \/ bc >= ac
    <2>1. ac >= ab \/ ac >= bc
      BY <1>1, ComparableThree
    <2>2. Comparable(a, b) >= Comparable(a, c) \/ Comparable(a, b) >= Comparable(c, b)
      BY <1>1, ComparableThree
    <2>3. Comparable(b, c) >= Comparable(b, a) \/ Comparable(b, c) >= Comparable(a, c)
      BY <1>1, ComparableThree
    <2> QED BY <1>2, <2>1, <2>2, <2>3
  <1>4. /\ ab > ac /\ Tied(a, c) => \/ c.variant < a.variant /\ c.variant < b.variant
                                    \/ c.variant > a.variant /\ c.variant > b.variant
        /\ bc > ab /\ Tied(b, a) => \/ a.variant < b.variant /\ a.variant < c.variant
                                    \/ a.variant > b.variant /\ a.variant > c.variant
        /\ ac > ab /\ Tied(a, b) => \/ b.variant < a.variant /\ b.variant < c.variant
                                    \/ b.variant > a.variant /\ b.variant > c.variant
    BY <1>2 DEF Beside
  <1>5. n \in Nat /\ n <= ab /\ n <= bc /\ n <= ac
    BY <1>2
  <1>6. Consistent(x, y, z)
    BY <1>5, LeadingConsistent
  <1>7. PICK u \in Int : /\ CompareComposite(a, b) = Then(x, u)
                         /\ n = ab => u = Rest(a, b)
    BY <1>5, CompositeIs
  <1>8. PICK v \in Int : /\ CompareComposite(b, c) = Then(y, v)
                         /\ n = bc => v = Rest(b, c)
    BY <1>5, CompositeIs
  <1>9. PICK w \in Int : /\ CompareComposite(a, c) = Then(z, w)
                         /\ n = ac => w = Rest(a, c)
    BY <1>5, CompositeIs
  <1>10. a.variant \in Int /\ b.variant \in Int /\ c.variant \in Int
    BY DEF Segmented
  <1>11. /\ a.variant > b.variant => Rest(a, b) = -1
         /\ a.variant < b.variant => Rest(a, b) = 1
         /\ b.variant > c.variant => Rest(b, c) = -1
         /\ b.variant < c.variant => Rest(b, c) = 1
         /\ a.variant > c.variant => Rest(a, c) = -1
         /\ a.variant < c.variant => Rest(a, c) = 1
         /\ Consistent(Rest(a, b), Rest(b, c), Rest(a, c))
    BY RestConsistent
  <1>12. x = 0 /\ y = 0 =>
           /\ n = ac => Tied(a, c)
           /\ n = ab => Tied(a, b) /\ Tied(b, a)
    <2> SUFFICES ASSUME x = 0, y = 0
                 PROVE  /\ n = ac => Tied(a, c)
                        /\ n = ab => Tied(a, b) /\ Tied(b, a)
      OBVIOUS
    <2> DEFINE r == FirstNonzero(Leading(b, a, n))
    <2>1. z = 0
      BY <1>6 DEF Consistent
    <2>2. Opposite(x, r)
      BY <1>5, LeadingConsistent
    <2>3. r = 0
      BY <2>2 DEF Opposite
    <2> QED BY <1>2, <1>5, <2>1, <2>3, TiedIs
  <1> HIDE DEF x, y, z, ab, bc, ac
  <1>13. ASSUME x = 0, y = 0 PROVE Consistent(u, v, w)
    <2>1. CASE ab = n /\ bc = n /\ ac = n
      BY <1>7, <1>8, <1>9, <1>11, <2>1
    <2>2. CASE ab > n
      <3>1. bc = n /\ ac = n /\ ab > ac
        BY <1>2, <1>3, <1>5, <2>2
      <3>2. v = Rest(b, c) /\ w = Rest(a, c)
        BY <1>8, <1>9, <3>1
      <3>3. (v = 1 /\ w = 1) \/ (v = -1 /\ w = -1)
        BY <1>4, <1>12, <1>13, <1>10, <1>11, <3>1, <3>2
      <3> QED BY <1>7, <3>3 DEF Consistent
    <2>3. CASE bc > n
      <3>1. ab = n /\ ac = n /\ bc > ab
        BY <1>2, <1>3, <1>5, <2>3
      <3>2. u = Rest(a, b) /\ w = Rest(a, c)
        BY <1>7, <1>9, <3>1
      <3>3. (u = 1 /\ w = 1) \/ (u = -1 /\ w = -1)
        BY <1>4, <1>12, <1>13, <1>10, <1>11, <3>1, <3>2
      <3> QED BY <1>8, <3>3 DEF Consistent
    <2>4. CASE ac > n
      <3>1. ab = n /\ bc = n /\ ac > ab
        BY <1>2, <1>3, <1>5, <2>4
      <3>2. u = Rest(a, b) /\ v = Rest(b, c)
        BY <1>7, <1>8, <3>1
      <3>3. (u = 1 /\ v = -1) \/ (u = -1 /\ v = 1)
        BY <1>4, <1>12, <1>13, <1>10, <1>11, <3>1, <3>2
      <3> QED BY <1>9, <3>3 DEF Consistent
    <2> QED BY <1>2, <1>5, <2>1, <2>2, <2>3, <2>4
  <1> QED BY <1>6, <1>7, <1>8, <1>9, <1>13, ThenConsistent

LEMMA CompositeOpposite ==
  ASSUME NEW a, NEW b, Segmented(a), Segmented(b)
  PROVE  Opposite(CompareComposite(a, b), CompareComposite(b, a))
  <1> DEFINE n == Comparable(a, b)
             x == FirstNonzero(Leading(a, b, n))
             y == FirstNonzero(Leading(b, a, n))
  <1>1. n \in Nat /\ Comparable(b, a) = n
    BY ComparableThree DEF Segmented
  <1>2. Opposite(x, y)
    BY <1>1, LeadingConsistent
  <1>3. /\ CompareComposite(a, b) = Then(x, Rest(a, b))
        /\ CompareComposite(b, a) = Then(y, Rest(b, a))
    BY <1>1, CompositeIs
  <1>4. Opposite(Rest(a, b), Rest(b, a))
    BY RestConsistent
  <1> HIDE DEF x, y
  <1> QED BY <1>2, <1>3, <1>4 DEF Opposite, Then

-----------------------------------------------------------------------------
(* Versions. *)

\* What parsing fills in of any version.
Parsing(v) == /\ v.manifest \in Int
              /\ Numbered(v)
              /\ v.segments # <<>> => Segmented(v) /\ ~v.weekly /\ v.primary = <<>>

\* What CompareVersions does when the manifest does not tell versions apart.
Compared(a, b) == IF a.segments # <<>> /\ b.segments # <<>>
                  THEN CompareComposite(a, b) ELSE CompareSimple(a, b)

LEMMA ComparedOpposite ==
  ASSUME NEW a, NEW b, Parsing(a), Parsing(b)
  PROVE  Opposite(Compared(a, b), Compared(b, a))
  BY SimpleConsistent, CompositeOpposite DEF Compared, Parsing

\* A version without segments is older, or newer, than any with some.
Aloof(c) == \/ \A a : Parsing(a) /\ a.segments # <<>> =>
                 CompareSimple(a, c) < 0 /\ CompareSimple(c, a) > 0
            \/ \A a : Parsing(a) /\ a.segments # <<>> =>
                 CompareSimple(a, c) > 0 /\ CompareSimple(c, a) < 0

LEMMA StandsAloof ==
  ASSUME NEW c, Parsing(c), c.weekly \/ CompareIntSlices(c.primary, <<>>) # 0
  PROVE  Aloof(c)
  <1> DEFINE x == CompareIntSlices(<<>>, c.primary)
             y == CompareIntSlices(c.primary, <<>>)
  <1>1. Opposite(x, y)
    <2>1. c.primary \in Seq(Int) /\ <<>> \in Seq(Int)
      BY DEF Parsing, Numbered
    <2> QED BY <2>1, IntSlicesConsistent
  <1>2. ASSUME NEW a, Parsing(a), a.segments # <<>>
        PROVE  /\ CompareSimple(a, c) = IF c.weekly THEN 1 ELSE Then(x, QualifiersOf(a, c))
               /\ CompareSimple(c, a) = IF c.weekly THEN -1 ELSE Then(y, QualifiersOf(c, a))
    <2>1. Numbered(a) /\ Numbered(c) /\ ~a.weekly /\ a.primary = <<>>
      BY <1>2 DEF Parsing
    <2> HIDE DEF x, y
    <2> QED BY <2>1, CompareSimpleIs DEF x, y
  <1> HIDE DEF x, y
  <1>3. CASE c.weekly
    BY <1>2, <1>3 DEF Aloof
  <1>4. CASE ~c.weekly
    <2>1. y # 0
      BY <1>4 DEF y
    <2>2. x \in Int /\ y \in Int /\ x + y = 0 /\ x # 0
      BY <1>1, <2>1 DEF Opposite
    <2>3. \A a : Parsing(a) /\ a.segments # <<>> =>
            CompareSimple(a, c) = x /\ CompareSimple(c, a) = y
      BY <1>2, <1>4, <2>1, <2>2 DEF Then
    <2>4. (x < 0 /\ y > 0) \/ (x > 0 /\ y < 0)
      BY <2>2
    <2> QED BY <2>3, <2>4 DEF Aloof
  <1> QED BY <1>3, <1>4

LEMMA ComparedConsistent ==
  ASSUME NEW a, NEW b, NEW c, Parsing(a), Parsing(b), Parsing(c),
         Beside(a, b, c), Beside(b, c, a), Beside(a, c, b)
  PROVE  Consistent(Compared(a, b), Compared(b, c), Compared(a, c))
  <1>1. CASE a.segments # <<>> /\ b.segments # <<>> /\ c.segments # <<>>
    BY <1>1, CompositeConsistent DEF Compared, Parsing
  <1>2. CASE \/ a.segments = <<>> /\ b.segments = <<>>
             \/ b.segments = <<>> /\ c.segments = <<>>
             \/ a.segments = <<>> /\ c.segments = <<>>
    BY <1>2, SimpleConsistent DEF Compared, Parsing
  <1>3. Compared(a, b) \in Int /\ Compared(b, c) \in Int /\ Compared(a, c) \in Int
    BY ComparedOpposite DEF Opposite
  <1>4. CASE a.segments # <<>> /\ b.segments # <<>> /\ c.segments = <<>>
    <2>1. Aloof(c)
      BY <1>4, StandsAloof DEF Beside
    <2>2. Compared(b, c) = CompareSimple(b, c) /\ Compared(a, c) = CompareSimple(a, c)
      BY <1>4 DEF Compared
    <2> QED BY <1>3, <1>4, <2>1, <2>2 DEF Aloof, Consistent
  <1>5. CASE b.segments # <<>> /\ c.segments # <<>> /\ a.segments = <<>>
    <2>1. Aloof(a)
      BY <1>5, StandsAloof DEF Beside
    <2>2. Compared(a, b) = CompareSimple(a, b) /\ Compared(a, c) = CompareSimple(a, c)
      BY <1>5 DEF Compared
    <2> QED BY <1>3, <1>5, <2>1, <2>2 DEF Aloof, Consistent
  <1>6. CASE a.segments # <<>> /\ c.segments # <<>> /\ b.segments = <<>>
    <2>1. Aloof(b)
      BY <1>6, StandsAloof DEF Beside
    <2>2. Compared(a, b) = CompareSimple(a, b) /\ Compared(b, c) = CompareSimple(b, c)
      BY <1>6 DEF Compared
    <2> QED BY <1>3, <1>6, <2>1, <2>2 DEF Aloof, Consistent
  <1> QED BY <1>1, <1>2, <1>4, <1>5, <1>6

\* Any three versions.
LEMMA VersionsOrdered ==
  ASSUME NEW a, NEW b, NEW c, Parsing(a), Parsing(b), Parsing(c)
  PROVE  WeaklyOrdered(a, b, c)
  <1> DEFINE x == Compared(a, b)
             y == Compared(b, c)
             z == Compared(a, c)
             r == Compared(b, a)
  <1>1. Opposite(x, r) /\ Opposite(y, Compared(c, b)) /\ Opposite(z, Compared(c, a))
    BY ComparedOpposite
  <1>2. /\ CompareVersions(a, b) = FirstNonzero(<<Cmp(a.manifest, b.manifest), x>>)
        /\ CompareVersions(b, c) = FirstNonzero(<<Cmp(b.manifest, c.manifest), y>>)
        /\ CompareVersions(a, c) = FirstNonzero(<<Cmp(a.manifest, c.manifest), z>>)
        /\ CompareVersions(b, a) = FirstNonzero(<<Cmp(b.manifest, a.manifest), r>>)
    BY DEF CompareVersions, Compared
  <1>3. x \in Int /\ y \in Int /\ z \in Int /\ r \in Int
    BY <1>1 DEF Opposite
  <1>4. a.manifest \in Int /\ b.manifest \in Int /\ c.manifest \in Int
    BY DEF Parsing
  <1>5. ~Entangled(a, b, c) /\ a.manifest = b.manifest /\ b.manifest = c.manifest =>
          Consistent(x, y, z)
    BY ComparedConsistent DEF Entangled
  <1> HIDE DEF x, y, z, r
  <1>6. /\ Consistent(Cmp(a.manifest, b.manifest), Cmp(b.manifest, c.manifest),
                      Cmp(a.manifest, c.manifest))
        /\ Opposite(Cmp(a.manifest, b.manifest), Cmp(b.manifest, a.manifest))
        /\ Cmp(a.manifest, b.manifest) \in Int /\ Cmp(b.manifest, c.manifest) \in Int
        /\ Cmp(a.manifest, c.manifest) \in Int /\ Cmp(b.manifest, a.manifest) \in Int
    BY <1>4, CmpConsistent DEF Consistent, Opposite
  <1>7. /\ CompareVersions(a, b) = Then(Cmp(a.manifest, b.manifest), x)
        /\ CompareVersions(b, c) = Then(Cmp(b.manifest, c.manifest), y)
        /\ CompareVersions(a, c) = Then(Cmp(a.manifest, c.manifest), z)
        /\ CompareVersions(b, a) = Then(Cmp(b.manifest, a.manifest), r)
    BY <1>2, <1>3, <1>6, ChainOfPair
  <1>8. CompareVersions(a, b) = -CompareVersions(b, a)
    <2>1. Opposite(CompareVersions(a, b), CompareVersions(b, a))
      BY <1>1, <1>6, <1>7 DEF Opposite, Then
    <2> QED BY <2>1 DEF Opposite
  <1>9. CASE a.manifest = b.manifest /\ b.manifest = c.manifest
    <2>1. ~Entangled(a, b, c) =>
            Consistent(CompareVersions(a, b), CompareVersions(b, c), CompareVersions(a, c))
      BY <1>3, <1>5, <1>6, <1>7, <1>9, ThenConsistent
    <2> QED BY <1>8, <2>1 DEF WeaklyOrdered, Consistent
  <1>10. CASE ~(a.manifest = b.manifest /\ b.manifest = c.manifest)
    <2>1. /\ CompareVersions(a, b) <= 0 => a.manifest <= b.manifest
          /\ CompareVersions(b, c) <= 0 => b.manifest <= c.manifest
          /\ a.manifest < c.manifest => CompareVersions(a, c) = -1
      BY <1>3, <1>4, <1>7 DEF Then, Cmp
    <2>2. CompareVersions(a, b) \in Int /\ CompareVersions(b, c) \in Int
      BY <1>3, <1>6, <1>7 DEF Then
    <2>3. CompareVersions(a, b) <= 0 /\ CompareVersions(b, c) <= 0 => CompareVersions(a, c) = -1
      BY <1>4, <1>10, <2>1
    <2> QED BY <1>8, <2>2, <2>3 DEF WeaklyOrdered
  <1> QED BY <1>9, <1>10
=============================================================================
