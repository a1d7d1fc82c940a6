--------------------------- MODULE CountingProofs ---------------------------
(***************************************************************************)
(* What moves from one place to another is as much as before: the units    *)
(* are mapped one to one, so that no induction over a sum is needed.       *)
(***************************************************************************)
EXTENDS Counting, FiniteSetsExt, FiniteSetTheorems, WellFoundedInduction, Sequences, TLAPS

\* A unit is one of those of its place.
LEMMA UnitsAre ==
    ASSUME NEW P, NEW v \in [P -> Nat]
    PROVE  /\ \A x, i : <<x, i>> \in Units(v) <=> x \in P /\ i \in 1..v[x]
           /\ \A u \in Units(v) : \E x \in P, i \in Nat : u = <<x, i>>
BY DEF Units

\* There are finitely many where finitely many places have any.
LEMMA UnitsAreFinite ==
    ASSUME NEW P, NEW v \in [P -> Nat], NEW N \in Nat, NEW Q, IsFiniteSet(Q),
           \A x \in P : v[x] <= N /\ (v[x] # 0 => x \in Q)
    PROVE  IsFiniteSet(Units(v))
<1>1. IsFiniteSet(1..N)
  BY FS_Interval
<1>2. IsFiniteSet(Q \X (1..N))
  BY <1>1, FS_Product
<1>3. Units(v) \subseteq Q \X (1..N)
  <2> SUFFICES ASSUME NEW u \in Units(v) PROVE u \in Q \X (1..N)
    OBVIOUS
  <2>1. PICK x \in P, i \in Nat : u = <<x, i>>
    BY UnitsAre
  <2>2. i \in 1..v[x] /\ v[x] \in Nat
    BY <2>1, UnitsAre
  <2>3. i \in 1..N /\ v[x] # 0
    BY <2>2
  <2> QED
    BY <2>1, <2>3
<1> QED
  BY <1>2, <1>3, FS_Subset

\* Moving h units from a to b keeps the total: the last h of a become the next
\* ones of b.
LEMMA MovingKeepsTotal ==
    ASSUME NEW P, NEW v \in [P -> Nat], NEW w \in [P -> Nat],
           NEW a \in P, NEW b \in P, a # b, NEW h \in Nat, h <= v[a],
           w[a] = v[a] - h, w[b] = v[b] + h, \A x \in P \ {a, b} : w[x] = v[x],
           IsFiniteSet(Units(v))
    PROVE  Total(w) = Total(v)
<1> DEFINE To(x, i) == IF x = a /\ i > w[a] THEN <<b, v[b] + (i - w[a])>> ELSE <<x, i>>
           From(x, i) == IF x = b /\ i > v[b] THEN <<a, w[a] + (i - v[b])>> ELSE <<x, i>>
           f == [u \in Units(v) |-> To(u[1], u[2])]
<1>1. v[a] \in Nat /\ v[b] \in Nat /\ w[a] \in Nat /\ w[b] \in Nat
  OBVIOUS
<1>2. ASSUME NEW x \in P, NEW i \in 1..v[x]
      PROVE  /\ To(x, i) \in Units(w)
             /\ From(To(x, i)[1], To(x, i)[2]) = <<x, i>>
  <2>1. v[x] \in Nat /\ w[x] \in Nat /\ i \in Nat
    OBVIOUS
  <2>2. CASE x = a /\ i > w[a]
    <3>1. v[b] + (i - w[a]) \in 1..w[b] /\ v[b] + (i - w[a]) > v[b]
      BY <1>1, <2>1, <2>2
    <3>2. w[a] + ((v[b] + (i - w[a])) - v[b]) = i
      BY <1>1, <2>1
    <3>3. To(x, i) = <<b, v[b] + (i - w[a])>>
      BY <2>2
    <3>4. To(x, i) \in Units(w)
      BY <3>1, <3>3, UnitsAre
    <3>5. From(b, v[b] + (i - w[a])) = <<a, i>>
      BY <3>1, <3>2
    <3> QED
      BY <2>2, <3>3, <3>4, <3>5
  <2>3. CASE ~(x = a /\ i > w[a])
    <3>1. i \in 1..w[x] /\ ~(x = b /\ i > v[b])
      <4>1. CASE x = a
        BY <1>1, <2>1, <2>3, <4>1
      <4>2. CASE x = b
        BY <1>1, <2>1, <4>2
      <4>3. CASE x # a /\ x # b
        BY <2>1, <4>3
      <4> QED
        BY <4>1, <4>2, <4>3
    <3>2. To(x, i) = <<x, i>>
      BY <2>3
    <3>3. From(x, i) = <<x, i>>
      BY <3>1
    <3> QED
      BY <3>1, <3>2, <3>3, UnitsAre
  <2> QED
    BY <2>2, <2>3
<1>3. ASSUME NEW x \in P, NEW i \in 1..w[x]
      PROVE  \E y \in P : \E j \in 1..v[y] : To(y, j) = <<x, i>>
  <2>1. v[x] \in Nat /\ w[x] \in Nat /\ i \in Nat
    OBVIOUS
  <2>2. CASE x = b /\ i > v[b]
    <3> DEFINE j == w[a] + (i - v[b])
    <3>1. j \in 1..v[a] /\ j > w[a] /\ v[b] + (j - w[a]) = i
      BY <1>1, <2>1, <2>2
    <3> HIDE DEF j
    <3>2. To(a, j) = <<x, i>>
      BY <2>2, <3>1
    <3> QED
      BY <3>1, <3>2
  <2>3. CASE ~(x = b /\ i > v[b])
    <3>1. i \in 1..v[x] /\ ~(x = a /\ i > w[a])
      <4>1. CASE x = a
        BY <1>1, <2>1, <4>1
      <4>2. CASE x = b
        BY <1>1, <2>1, <2>3, <4>2
      <4>3. CASE x # a /\ x # b
        BY <2>1, <4>3
      <4> QED
        BY <4>1, <4>2, <4>3
    <3>2. To(x, i) = <<x, i>>
      BY <3>1
    <3> QED
      BY <3>1, <3>2
  <2> QED
    BY <2>2, <2>3
<1> HIDE DEF To, From
<1>4. f \in [Units(v) -> Units(w)]
  <2> SUFFICES ASSUME NEW u \in Units(v) PROVE To(u[1], u[2]) \in Units(w)
    OBVIOUS
  <2>1. PICK x \in P, i \in Nat : u = <<x, i>>
    BY UnitsAre
  <2> QED
    BY <1>2, <2>1, UnitsAre
<1>5. ASSUME NEW t \in Units(v), NEW u \in Units(v), f[t] = f[u] PROVE t = u
  <2>1. PICK x \in P, i \in Nat : t = <<x, i>> /\ i \in 1..v[x]
    BY UnitsAre
  <2>2. PICK y \in P, j \in Nat : u = <<y, j>> /\ j \in 1..v[y]
    BY UnitsAre
  <2>3. To(x, i) = To(y, j)
    BY <1>5, <2>1, <2>2
  <2>4. <<x, i>> = <<y, j>>
    BY <1>2, <2>1, <2>2, <2>3
  <2> QED
    BY <2>1, <2>2, <2>4
<1>6. ASSUME NEW u \in Units(w) PROVE \E t \in Units(v) : f[t] = u
  <2>1. PICK x \in P, i \in Nat : u = <<x, i>> /\ i \in 1..w[x]
    BY UnitsAre
  <2>2. PICK y \in P, j \in Nat : To(y, j) = <<x, i>> /\ j \in 1..v[y]
    BY <1>3, <2>1
  <2>3. <<y, j>> \in Units(v)
    BY <2>2, UnitsAre
  <2>4. f[<<y, j>>] = u
    BY <2>1, <2>2, <2>3
  <2> QED
    BY <2>3, <2>4
<1> HIDE DEF f
<1>7. ExistsBijection(Units(v), Units(w))
  BY <1>4, <1>5, <1>6 DEF ExistsBijection, Bijection, Injection, Surjection, IsInjective
<1> QED
  BY <1>7, FS_Bijection DEF Total

-----------------------------------------------------------------------------
(* Order.                                                                  *)

\* A nonempty set of numbers has a smallest one, which is what Min picks. (Of
\* the parts of S below one of its elements, a minimal one has that element
\* only.)
LEMMA MinFacts ==
    ASSUME NEW S \in SUBSET Nat, S # {}
    PROVE  Min(S) \in S /\ \A n \in S : Min(S) <= n
<1> DEFINE UpTo(n) == {d \in S : d <= n}
           T == {UpTo(n) : n \in S}
<1>1. T \subseteq FiniteSubsetsOf(S) /\ T # {}
  <2> SUFFICES ASSUME NEW n \in S PROVE UpTo(n) \subseteq S /\ IsFiniteSet(UpTo(n))
    BY DEF FiniteSubsetsOf
  <2>1. UpTo(n) \in SUBSET Nat /\ n \in Nat /\ \A d \in UpTo(n) : d <= n
    OBVIOUS
  <2> HIDE DEF UpTo
  <2>2. IsFiniteSet(UpTo(n))
    BY <2>1, FS_BoundedSetOfNaturals
  <2> QED
    BY <2>2 DEF UpTo
<1>2. PICK U \in T : \A V \in T : ~ (<<V, U>> \in StrictSubsetOrdering(S))
  <2> HIDE DEF T
  <2> QED
    BY <1>1, FS_StrictSubsetOrderingWellFounded, WFMin
<1>3. PICK m \in S : U = UpTo(m)
  OBVIOUS
<1>4. ASSUME NEW n \in S, n < m PROVE FALSE
  <2>1. UpTo(n) \subseteq UpTo(m) /\ UpTo(n) # UpTo(m)
    <3>1. m \in UpTo(m) /\ m \notin UpTo(n)
      BY <1>4
    <3>2. \A d \in UpTo(n) : d \in UpTo(m)
      BY <1>4
    <3> QED
      BY <3>1, <3>2
  <2>2. <<UpTo(n), UpTo(m)>> \in StrictSubsetOrdering(S)
    BY <2>1 DEF StrictSubsetOrdering
  <2> QED
    BY <1>2, <1>3, <2>2
<1>5. \A n \in S : m <= n
  BY <1>4
<1> QED
  BY <1>5 DEF Min

\* A set that contains zero, and with each number the next, contains them all.
LEMMA CountingOn ==
    ASSUME NEW S, 0 \in S, \A n \in Nat : n \in S => n + 1 \in S
    PROVE  \A n \in Nat : n \in S
<1> DEFINE T == Nat \ S
<1>1. SUFFICES ASSUME T # {} PROVE FALSE
  OBVIOUS
<1>2. Min(T) \in T /\ \A n \in T : Min(T) <= n
  BY <1>1, MinFacts
<1>3. PICK m \in Nat : m \notin S /\ \A n \in Nat : n \notin S => m <= n
  BY <1>2
<1>4. m - 1 \in Nat /\ m - 1 \in S
  BY <1>3
<1> QED
  BY <1>3, <1>4

\* Sets that are mapped one to one have as many elements.
LEMMA SameNumber ==
    ASSUME NEW S, NEW T, IsFiniteSet(S), NEW f \in [S -> T],
           \A x, y \in S : f[x] = f[y] => x = y,
           \A z \in T : \E x \in S : f[x] = z
    PROVE  IsFiniteSet(T) /\ Cardinality(T) = Cardinality(S)
<1>1. ExistsBijection(S, T)
  BY DEF ExistsBijection, Bijection, Injection, Surjection, IsInjective
<1> QED
  BY <1>1, FS_Bijection

\* The ranks of a finite set of numbers are 0, 1 ... , in their order.
LEMMA RankFacts ==
    ASSUME NEW S \in SUBSET Nat, IsFiniteSet(S), NEW x \in S
    PROVE  /\ Rank(S, x) \in 0 .. Cardinality(S) - 1
           /\ \A y \in S : y < x => Rank(S, y) < Rank(S, x)
<1> DEFINE Below(y) == {z \in S : z < y}
<1>1. ASSUME NEW y \in S
      PROVE  /\ IsFiniteSet(Below(y)) /\ Cardinality(Below(y)) \in Nat
             /\ Cardinality(Below(y)) = Rank(S, y)
  BY FS_Subset, FS_CardinalityType DEF Rank
<1>2. Cardinality(Below(x)) < Cardinality(S)
  <2>1. Below(x) \in SUBSET S /\ Below(x) # S
    OBVIOUS
  <2> HIDE DEF Below
  <2> QED
    BY <1>1, <2>1, FS_Subset, FS_CardinalityType
<1>3. ASSUME NEW y \in S, y < x PROVE Cardinality(Below(y)) < Cardinality(Below(x))
  <2>1. Below(y) \in SUBSET Below(x)
    <3>1. x \in Nat /\ y \in Nat /\ y < x /\ S \subseteq Nat
      BY <1>3
    <3>2. \A z \in Nat : z < y => z < x
      BY <3>1
    <3> QED
      BY <3>1, <3>2
  <2>2. y \in Below(x) /\ y \notin Below(y)
    BY <1>3
  <2> HIDE DEF Below
  <2> QED
    BY <1>1, <2>1, <2>2, FS_Subset
<1> HIDE DEF Below
<1> QED
  BY <1>1, <1>2, <1>3, FS_CardinalityType

\* Every place is taken, by one.
LEMMA NthFacts ==
    ASSUME NEW S \in SUBSET Nat, IsFiniteSet(S)
    PROVE  /\ \A x \in S : Nth(S, Rank(S, x)) = x
           /\ \A r \in 0 .. Cardinality(S) - 1 : Nth(S, r) \in S /\ Rank(S, Nth(S, r)) = r
<1> DEFINE n == Cardinality(S)
           f == [x \in S |-> Rank(S, x)]
           T == {r \in 0 .. n - 1 : \E x \in S : f[x] = r}
<1>1. n \in Nat
  BY FS_CardinalityType
<1>2. f \in [S -> T]
  BY RankFacts
<1>3. \A x, y \in S : Rank(S, x) = Rank(S, y) => x = y
  <2> SUFFICES ASSUME NEW x \in S, NEW y \in S, x < y PROVE Rank(S, x) # Rank(S, y)
    OBVIOUS
  <2> QED
    BY RankFacts
<1>4. IsFiniteSet(T) /\ Cardinality(T) = n
  <2>1. \A x, y \in S : f[x] = f[y] => x = y
    BY <1>3
  <2>2. \A z \in T : \E x \in S : f[x] = z
    OBVIOUS
  <2> HIDE DEF f, T
  <2> QED
    BY <1>2, <2>1, <2>2, SameNumber
<1>5. T = 0 .. n - 1
  <2>1. T \in SUBSET (0 .. n - 1)
    OBVIOUS
  <2> HIDE DEF T, n
  <2>2. 0 \in Int /\ n - 1 \in Int
    BY <1>1
  <2>3. IsFiniteSet(0 .. n - 1) /\ Cardinality(0 .. n - 1) = IF 0 > n - 1 THEN 0 ELSE (n - 1) - 0 + 1
    BY ONLY <2>2, FS_Interval
  <2>4. Cardinality(0 .. n - 1) = n
    BY <1>1, <2>3
  <2> QED
    BY <1>4, <2>1, <2>3, <2>4, FS_Subset
<1>6. \A r \in 0 .. n - 1 : \E x \in S : Rank(S, x) = r
  BY <1>5
<1> HIDE DEF n
<1> QED
  BY <1>3, <1>6, RankFacts DEF Nth, n

\* The elements chosen from a sequence are elements of it, in places of their own.
LEMMA ChosenFacts ==
    ASSUME NEW E, NEW seq \in Seq(E), NEW I \in SUBSET (DOMAIN seq)
    PROVE  /\ IsFiniteSet(I) /\ Cardinality(I) \in Nat
           /\ Chosen(seq, I) \in Seq(E)
           /\ DOMAIN Chosen(seq, I) = 1 .. Cardinality(I)
           /\ Len(Chosen(seq, I)) = Cardinality(I)
           /\ \A r \in 1 .. Cardinality(I) :
                Nth(I, r - 1) \in I /\ Chosen(seq, I)[r] = seq[Nth(I, r - 1)]
<1>1. DOMAIN seq = 1 .. Len(seq) /\ Len(seq) \in Nat
  OBVIOUS
<1>2. IsFiniteSet(I) /\ Cardinality(I) \in Nat /\ I \in SUBSET Nat
  <2>1. IsFiniteSet(1 .. Len(seq))
    BY <1>1, FS_Interval
  <2>2. IsFiniteSet(I)
    BY <1>1, <2>1, FS_Subset
  <2> QED
    BY <1>1, <2>2, FS_CardinalityType
<1>3. \A r \in 1 .. Cardinality(I) : Nth(I, r - 1) \in I
  BY <1>2, NthFacts
<1>4. \A r \in 1 .. Cardinality(I) : seq[Nth(I, r - 1)] \in E
  BY <1>3
<1> DEFINE n == Cardinality(I)
           e(r) == seq[Nth(I, r - 1)]
<1>5. n \in Nat /\ \A r \in 1 .. n : e(r) \in E
  BY <1>2, <1>4
<1>6. Chosen(seq, I) = [r \in 1 .. n |-> e(r)]
  BY DEF Chosen
<1> HIDE DEF n, e
<1>7. /\ Chosen(seq, I) \in Seq(E) /\ DOMAIN Chosen(seq, I) = 1 .. n
      /\ Len(Chosen(seq, I)) = n
  BY <1>5, <1>6
<1> QED
  BY <1>2, <1>3, <1>6, <1>7 DEF n, e

\* Counted by their ranks, the members of a part of the set are as many as they
\* are.
LEMMA RanksCount ==
    ASSUME NEW I \in SUBSET Nat, IsFiniteSet(I), NEW S \in SUBSET I, NEW T,
           \A r : r \in T <=> r \in 1 .. Cardinality(I) /\ Nth(I, r - 1) \in S
    PROVE  Cardinality(T) = Cardinality(S)
<1> DEFINE n == Cardinality(I)
           f == [i \in S |-> Rank(I, i) + 1]
<1>1. n \in Nat /\ \A r : r \in T <=> r \in 1 .. n /\ Nth(I, r - 1) \in S
  BY FS_CardinalityType
<1>2. \A i \in I : Rank(I, i) \in 0 .. n - 1 /\ Nth(I, Rank(I, i)) = i
  BY RankFacts, NthFacts
<1>3. \A r \in 1 .. n : Rank(I, Nth(I, r - 1)) = r - 1
  <2>1. \A r \in 1 .. n : r - 1 \in 0 .. n - 1
    BY <1>1
  <2> HIDE DEF n
  <2> QED
    BY <1>1, <2>1, NthFacts DEF n
<1> HIDE DEF n
<1>4. ASSUME NEW i \in S
      PROVE  f[i] \in T /\ f[i] - 1 = Rank(I, i) /\ Rank(I, i) \in Nat
  <2>1. i \in I /\ f[i] = Rank(I, i) + 1
    BY <1>4
  <2>2. Rank(I, i) \in 0 .. n - 1 /\ n \in Nat /\ Nth(I, Rank(I, i)) = i
    BY <1>1, <1>2, <2>1
  <2> HIDE DEF f
  <2>3. Rank(I, i) \in Nat /\ f[i] \in 1 .. n /\ f[i] - 1 = Rank(I, i)
    BY ONLY <2>1, <2>2
  <2> QED
    BY <1>1, <1>4, <2>2, <2>3
<1>5. f \in [S -> T]
  BY <1>4
<1>6. \A x, y \in S : f[x] = f[y] => x = y
  <2> SUFFICES ASSUME NEW x \in S, NEW y \in S, f[x] = f[y] PROVE x = y
    OBVIOUS
  <2>1. Rank(I, x) = Rank(I, y) /\ x \in I /\ y \in I
    BY <1>4
  <2> QED
    BY <1>2, <2>1
<1>7. \A r \in T : \E x \in S : f[x] = r
  <2> SUFFICES ASSUME NEW r \in T PROVE \E x \in S : f[x] = r
    OBVIOUS
  <2>1. r \in 1 .. n /\ Nth(I, r - 1) \in S
    BY <1>1
  <2>2. Rank(I, Nth(I, r - 1)) = r - 1 /\ r \in Int
    BY <1>1, <1>3, <2>1
  <2>3. f[Nth(I, r - 1)] = Rank(I, Nth(I, r - 1)) + 1
    BY <2>1
  <2>4. f[Nth(I, r - 1)] = r
    BY <2>2, <2>3
  <2> QED
    BY <2>1, <2>4
<1>8. IsFiniteSet(S)
  BY FS_Subset
<1> HIDE DEF f
<1> QED
  BY <1>5, <1>6, <1>7, <1>8, SameNumber

\* The places are in the order of the numbers.
LEMMA NthGrows ==
    ASSUME NEW S \in SUBSET Nat, IsFiniteSet(S)
    PROVE  \A r, q \in 0 .. Cardinality(S) - 1 : r <= q <=> Nth(S, r) <= Nth(S, q)
<1> SUFFICES ASSUME NEW r \in 0 .. Cardinality(S) - 1, NEW q \in 0 .. Cardinality(S) - 1
             PROVE  r <= q <=> Nth(S, r) <= Nth(S, q)
  OBVIOUS
<1> DEFINE x == Nth(S, r)
           y == Nth(S, q)
<1>1. /\ x \in S /\ y \in S /\ x \in Nat /\ y \in Nat /\ r \in Int /\ q \in Int
      /\ Rank(S, x) = r /\ Rank(S, y) = q
  <2>1. x \in S /\ Rank(S, x) = r
    BY NthFacts
  <2>2. y \in S /\ Rank(S, y) = q
    BY NthFacts
  <2>3. r \in Int /\ q \in Int
    BY FS_CardinalityType
  <2> HIDE DEF x, y
  <2> QED
    BY <2>1, <2>2, <2>3
<1>2. (x < y => Rank(S, x) < Rank(S, y)) /\ (y < x => Rank(S, y) < Rank(S, x))
  BY <1>1, RankFacts
<1> HIDE DEF x, y
<1>3. r <= q <=> x <= y
  <2>1. CASE x < y
    BY <1>1, <1>2, <2>1
  <2>2. CASE y < x
    BY <1>1, <1>2, <2>2
  <2>3. CASE x = y
    BY <1>1, <2>3
  <2> QED
    BY <1>1, <2>1, <2>2, <2>3
<1> QED
  BY <1>3 DEF x, y

\* To choose everything changes nothing.
LEMMA ChosenAll ==
    ASSUME NEW E, NEW seq \in Seq(E)
    PROVE  Chosen(seq, DOMAIN seq) = seq
<1> DEFINE n == Len(seq)
           S == 1 .. n
<1>1. DOMAIN seq = S /\ n \in Nat /\ seq = [i \in S |-> seq[i]]
  OBVIOUS
<1>2. S \in SUBSET Nat /\ IsFiniteSet(S) /\ Cardinality(S) = n
  <2> HIDE DEF n
  <2>1. 1 \in Int /\ n \in Int
    BY <1>1
  <2>2. IsFiniteSet(S) /\ Cardinality(S) = IF 1 > n THEN 0 ELSE n - 1 + 1
    BY <2>1, FS_Interval
  <2> HIDE DEF S
  <2>3. Cardinality(S) = n
    BY <1>1, <2>2
  <2> QED
    BY <1>1, <2>2, <2>3 DEF S
<1>3. ASSUME NEW x \in S
      PROVE  Nth(S, x - 1) = x
  <2> DEFINE below == {y \in S : y < x}
             T == 1 .. x - 1
  <2>1. x \in Nat /\ 1 <= x /\ 1 \in Int /\ x - 1 \in Int
    BY <1>1
  <2>2. below = T
    <3> HIDE DEF n
    <3> QED
      BY <1>1
  <2>3. Cardinality(T) = IF 1 > x - 1 THEN 0 ELSE (x - 1) - 1 + 1
    BY ONLY <2>1, FS_Interval
  <2> HIDE DEF T
  <2>4. Cardinality(T) = x - 1
    BY <2>1, <2>3
  <2>5. Rank(S, x) = x - 1
    BY <2>2, <2>4 DEF Rank
  <2> HIDE DEF S
  <2> QED
    BY <1>2, <2>5, NthFacts
<1> HIDE DEF n, S
<1>4. Chosen(seq, S) = [r \in 1 .. Cardinality(S) |-> seq[Nth(S, r - 1)]]
  BY DEF Chosen
<1>5. 1 .. Cardinality(S) = S
  BY <1>2 DEF S
<1>6. Chosen(seq, S) = [r \in S |-> seq[r]]
  BY <1>3, <1>4, <1>5
<1> QED
  BY <1>1, <1>6
=============================================================================
