-------------------------- MODULE DemandPlanProofs --------------------------
(***************************************************************************)
(* The cohorts of a module, for any number of cohorts and kinds, any split *)
(* and any screen.                                                         *)
(***************************************************************************)
EXTENDS DemandPlan, CountingProofs

-----------------------------------------------------------------------------
(* Splits and new parts.                                                   *)

LEMMA SeqFacts ==
    ASSUME NEW E, NEW s \in Seq(E)
    PROVE  /\ Len(s) \in Nat /\ DOMAIN s = 1 .. Len(s) /\ IsFiniteSet(DOMAIN s)
           /\ \A i \in DOMAIN s : s[i] \in E
<1>1. Len(s) \in Nat /\ DOMAIN s = 1 .. Len(s)
  OBVIOUS
<1>2. IsFiniteSet(1 .. Len(s))
  BY <1>1, FS_Interval
<1> QED
  BY <1>1, <1>2

\* How many entries and groups there are is a number.
LEMMA Numbers ==
    ASSUME NEW E, NEW s \in Seq(E), NEW I \in SUBSET (DOMAIN s)
    PROVE  IsFiniteSet(I) /\ Cardinality(I) \in Nat /\ (I # {} <=> Cardinality(I) # 0)
<1>1. IsFiniteSet(I)
  BY SeqFacts, FS_Subset
<1> QED
  BY <1>1, FS_CardinalityType, FS_EmptySet

LEMMA KindFacts == IsFiniteSet(Kind) /\ Lecture \in Kind /\ NoKind \notin Kind
BY DemandAssumption

LEMMA SplitFacts ==
    ASSUME NEW s \in Seq(Kind)
    PROVE  /\ \A k : Entries(s, k) \in Nat
           /\ Practical(s) \in Kind \cup {NoKind} /\ Practical(s) # Lecture
<1>1. \A k : Entries(s, k) \in Nat
  <2> SUFFICES ASSUME NEW k PROVE Entries(s, k) \in Nat
    OBVIOUS
  <2>1. {i \in DOMAIN s : s[i] = k} \in SUBSET (DOMAIN s)
    OBVIOUS
  <2> QED
    BY <2>1, Numbers DEF Entries
<1> DEFINE others == {i \in DOMAIN s : s[i] # Lecture}
<1>2. CASE others = {}
  <2>1. Practical(s) = NoKind
    BY <1>2 DEF Practical
  <2> QED
    BY <1>1, <2>1, KindFacts
<1>3. CASE others # {}
  <2>1. others \in SUBSET Nat
    BY SeqFacts
  <2> HIDE DEF others
  <2>2. PICK i \in others : i = Min(others)
    BY <1>3, <2>1, MinFacts
  <2>3. Practical(s) = s[i]
    BY <1>3, <2>2 DEF Practical, others
  <2>4. i \in DOMAIN s /\ s[i] # Lecture
    BY DEF others
  <2> QED
    BY <1>1, <2>3, <2>4, SeqFacts
<1> QED
  BY <1>1, <1>2, <1>3

LEMMA PartType == ASSUME NEW n \in Nat PROVE Part(n) \in Group /\ <<Part(n)>> \in Seq(Group)
<1>1. Part(n) \in Group
  BY DEF Part, Group
<1> QED
  BY <1>1

LEMMA NoPartsType == NoParts \in [Kind -> Seq(Group)] /\ \A k \in Kind : NoParts[k] = <<>>
<1>1. \A k \in Kind : <<>> \in Seq(Group)
  OBVIOUS
<1> QED
  BY <1>1 DEF NoParts

LEMMA PartsFromSplitType ==
    ASSUME NEW s \in Seq(Kind), NEW skip
    PROVE  PartsFromSplit(s, skip) \in [Kind -> Seq(Group)]
<1>1. \A k \in Kind : Entries(s, k) # 0 => <<Part(Entries(s, k) - 1)>> \in Seq(Group)
  <2> SUFFICES ASSUME NEW k \in Kind, Entries(s, k) # 0
               PROVE  <<Part(Entries(s, k) - 1)>> \in Seq(Group)
    OBVIOUS
  <2>1. Entries(s, k) - 1 \in Nat
    BY SplitFacts
  <2> QED
    BY <2>1, PartType
<1>2. <<>> \in Seq(Group)
  OBVIOUS
<1> QED
  BY <1>1, <1>2 DEF PartsFromSplit

LEMMA NewCohortType ==
    ASSUME NEW held \in {"self", "asked", "covered"}, NEW parts \in [Kind -> Seq(Group)]
    PROVE  /\ NewCohort(held, parts) \in Cohort
           /\ NewCohort(held, parts).held = held /\ ~NewCohort(held, parts).hosts
           /\ NewCohort(held, parts).parts = parts
BY DEF NewCohort, Cohort

-----------------------------------------------------------------------------
(* Taking a cohort away.                                                   *)

LEMMA GiveBackFacts ==
    ASSUME NEW cs, WellFormed(cs), NEW l, NEW kinds
    PROVE  /\ WellFormed(GiveBack(cs, l, kinds))
           /\ DOMAIN GiveBack(cs, l, kinds) = DOMAIN cs
           /\ \A m \in DOMAIN cs :
                /\ GiveBack(cs, l, kinds)[m].held = cs[m].held
                /\ GiveBack(cs, l, kinds)[m].hosts = cs[m].hosts
                /\ GiveBack(cs, l, kinds)[m].wished = cs[m].wished
                /\ m = l => GiveBack(cs, l, kinds)[m] = cs[m]
                /\ \A k \in Kind :
                    GiveBack(cs, l, kinds)[m].parts[k] =
                        IF m # l /\ cs[m].held # "covered" /\ k \in kinds /\ cs[m].parts[k] = <<>>
                        THEN <<Part(0)>> ELSE cs[m].parts[k]
<1> DEFINE new(c) == [c EXCEPT !.parts = [k \in Kind |->
                        IF k \in kinds /\ @[k] = <<>> THEN <<Part(0)>> ELSE @[k]]]
<1>1. ASSUME NEW c \in Cohort
      PROVE  /\ new(c) \in Cohort
             /\ new(c).held = c.held /\ new(c).hosts = c.hosts /\ new(c).wished = c.wished
             /\ \A k \in Kind : new(c).parts[k] =
                    IF k \in kinds /\ c.parts[k] = <<>> THEN <<Part(0)>> ELSE c.parts[k]
  <2>1. <<Part(0)>> \in Seq(Group)
    BY PartType
  <2> QED
    BY <2>1 DEF Cohort
<1>2. GiveBack(cs, l, kinds) =
        [m \in DOMAIN cs |-> IF m = l \/ cs[m].held = "covered" THEN cs[m] ELSE new(cs[m])]
  BY DEF GiveBack
<1> HIDE DEF new
<1> QED
  BY <1>1, <1>2 DEF WellFormed

LEMMA PromotedFacts ==
    ASSUME NEW cs, WellFormed(cs), NEW l \in DOMAIN cs
    PROVE  /\ WellFormed(Promoted(cs, l))
           /\ DOMAIN Promoted(cs, l) = DOMAIN cs
           /\ ~cs[l].hosts => Promoted(cs, l) = cs
           /\ \A m \in DOMAIN cs :
                /\ Promoted(cs, l)[m].held = cs[m].held
                /\ Promoted(cs, l)[m].wished = cs[m].wished
                /\ m # l => Promoted(cs, l)[m].hosts = cs[m].hosts
           /\ cs[l].hosts =>
                /\ ~Promoted(cs, l)[l].hosts /\ Promoted(cs, l)[l].parts = NoParts
                /\ \A m \in DOMAIN cs \ {l}, k \in Kind :
                    Promoted(cs, l)[m].parts[k] =
                        IF cs[m].held # "covered" /\ Shares(cs[l], k) /\ cs[m].parts[k] = <<>>
                        THEN <<Part(0)>> ELSE cs[m].parts[k]
<1>1. CASE ~cs[l].hosts
  BY <1>1 DEF Promoted
<1>2. CASE cs[l].hosts
  <2> DEFINE kinds == {k \in Kind : Shares(cs[l], k)}
             back == GiveBack(cs, l, kinds)
             none(c) == [[c EXCEPT !.parts = NoParts] EXCEPT !.hosts = FALSE]
  <2>1. Promoted(cs, l) = [m \in DOMAIN cs |-> IF m = l THEN none(back[l]) ELSE back[m]]
    <3>1. DOMAIN back = DOMAIN cs /\ back \in [DOMAIN cs -> Cohort]
      BY GiveBackFacts DEF WellFormed
    <3>2. Promoted(cs, l) = [back EXCEPT ![l].parts = NoParts, ![l].hosts = FALSE]
      BY <1>2 DEF Promoted
    <3> HIDE DEF back
    <3> QED
      BY <3>1, <3>2
  <2>2. ASSUME NEW c \in Cohort
        PROVE  /\ none(c) \in Cohort /\ none(c).held = c.held /\ none(c).wished = c.wished
               /\ ~none(c).hosts /\ none(c).parts = NoParts
    BY NoPartsType DEF Cohort
  <2>3. \A k \in Kind : k \in kinds <=> Shares(cs[l], k)
    OBVIOUS
  <2> HIDE DEF none, kinds
  <2>4. back \in [DOMAIN cs -> Cohort] /\ WellFormed(back) /\ DOMAIN back = DOMAIN cs
    BY GiveBackFacts DEF WellFormed
  <2>5. \A m \in DOMAIN cs :
            /\ back[m].held = cs[m].held /\ back[m].hosts = cs[m].hosts
            /\ back[m].wished = cs[m].wished
            /\ \A k \in Kind : back[m].parts[k] =
                    IF m # l /\ cs[m].held # "covered" /\ k \in kinds /\ cs[m].parts[k] = <<>>
                    THEN <<Part(0)>> ELSE cs[m].parts[k]
    BY GiveBackFacts
  <2> HIDE DEF back
  <2>6. WellFormed(Promoted(cs, l))
    BY <2>1, <2>2, <2>4 DEF WellFormed
  <2> QED
    BY <1>2, <2>1, <2>2, <2>3, <2>4, <2>5, <2>6
<1> QED
  BY <1>1, <1>2

LEMMA HandedOverFacts ==
    ASSUME NEW cs, WellFormed(cs), DOMAIN cs \subseteq Nat, NEW l \in DOMAIN cs
    PROVE  /\ WellFormed(HandedOver(cs, l))
           /\ DOMAIN HandedOver(cs, l) = DOMAIN cs
           /\ \A m \in DOMAIN cs :
                /\ HandedOver(cs, l)[m].held = cs[m].held
                /\ HandedOver(cs, l)[m].hosts = cs[m].hosts
                /\ HandedOver(cs, l)[m].parts = cs[m].parts
           /\ DOMAIN cs # {l} => ~HandedOver(cs, l)[l].wished
<1> DEFINE siblings == DOMAIN cs \ {l}
           own == {m \in siblings : cs[m].held = "self"}
           among == IF own # {} THEN own ELSE siblings
<1>1. CASE siblings = {} \/ ~cs[l].wished
  <2>1. HandedOver(cs, l) = cs
    BY <1>1 DEF HandedOver
  <2> QED
    BY <1>1, <2>1
<1>2. CASE ~(siblings = {} \/ ~cs[l].wished)
  <2>1. among \in SUBSET Nat /\ among # {} /\ among \subseteq siblings
    BY <1>2
  <2>2. PICK to \in siblings : to = Min(among)
    <3> HIDE DEF among, own, siblings
    <3> QED
      BY <2>1, MinFacts
  <2>3. HandedOver(cs, l) = [cs EXCEPT ![l].wished = FALSE, ![to].wished = TRUE]
    BY <1>2, <2>2 DEF HandedOver
  <2> HIDE DEF among, own
  <2>4. to \in DOMAIN cs /\ to # l
    BY <2>2
  <2>5. cs \in [DOMAIN cs -> Cohort]
    BY DEF WellFormed
  <2> DEFINE wish(c, b) == [c EXCEPT !.wished = b]
  <2>6. HandedOver(cs, l) =
            [m \in DOMAIN cs |-> IF m = l THEN wish(cs[m], FALSE)
                                 ELSE IF m = to THEN wish(cs[m], TRUE) ELSE cs[m]]
    BY <2>3, <2>4, <2>5
  <2>7. ASSUME NEW c \in Cohort, NEW b \in BOOLEAN
        PROVE  /\ wish(c, b) \in Cohort
               /\ wish(c, b).held = c.held /\ wish(c, b).hosts = c.hosts
               /\ wish(c, b).parts = c.parts /\ wish(c, b).wished = b
    BY DEF Cohort
  <2> HIDE DEF siblings, wish
  <2>8. /\ DOMAIN HandedOver(cs, l) = DOMAIN cs
        /\ \A m \in DOMAIN cs :
            /\ HandedOver(cs, l)[m] \in Cohort
            /\ HandedOver(cs, l)[m].held = cs[m].held
            /\ HandedOver(cs, l)[m].hosts = cs[m].hosts
            /\ HandedOver(cs, l)[m].parts = cs[m].parts
        /\ ~HandedOver(cs, l)[l].wished
    <3>1. DOMAIN HandedOver(cs, l) = DOMAIN cs
      BY <2>6
    <3>2. ~HandedOver(cs, l)[l].wished
      BY <2>5, <2>6, <2>7
    <3>3. ASSUME NEW m \in DOMAIN cs
          PROVE  /\ HandedOver(cs, l)[m] \in Cohort
                 /\ HandedOver(cs, l)[m].held = cs[m].held
                 /\ HandedOver(cs, l)[m].hosts = cs[m].hosts
                 /\ HandedOver(cs, l)[m].parts = cs[m].parts
      <4>1. cs[m] \in Cohort
        BY <2>5
      <4>2. HandedOver(cs, l)[m] \in {wish(cs[m], FALSE), wish(cs[m], TRUE), cs[m]}
        BY <2>6
      <4> QED
        BY <2>7, <4>1, <4>2
    <3> QED
      BY <3>1, <3>2, <3>3
  <2>9. HandedOver(cs, l) \in [DOMAIN cs -> Cohort]
    BY <2>6, <2>8
  <2> QED
    BY <2>8, <2>9 DEF WellFormed
<1> QED
  BY <1>1, <1>2

\* The cohort is away, and the others are as the promotion left them.
TakenAway(cs, l, less) ==
    /\ DOMAIN less = DOMAIN cs \ {l}
    /\ \A m \in DOMAIN less :
        /\ less[m].held = Promoted(cs, l)[m].held
        /\ less[m].hosts = Promoted(cs, l)[m].hosts
        /\ less[m].parts = Promoted(cs, l)[m].parts

\* A withdrawal does nothing or takes the cohort away.
LEMMA WithdrawnFacts ==
    ASSUME NEW cs, WellFormed(cs), DOMAIN cs \subseteq Nat, NEW l \in DOMAIN cs, NEW keep
    PROVE  \/ Withdrawn(cs, l, keep) = cs
           \/ /\ WellFormed(Withdrawn(cs, l, keep))
              /\ DOMAIN Withdrawn(cs, l, keep) = DOMAIN cs \ {l}
              /\ TakenAway(cs, l, Withdrawn(cs, l, keep))
<1> DEFINE kept == Promoted(cs, l)
           before == IF keep THEN HandedOver(kept, l) ELSE kept
           less == Withdrawn(cs, l, keep)
<1>1. /\ WellFormed(kept) /\ DOMAIN kept = DOMAIN cs
  BY PromotedFacts
<1>2. /\ WellFormed(before) /\ DOMAIN before = DOMAIN cs
      /\ \A m \in DOMAIN cs : before[m].held = kept[m].held /\ before[m].hosts = kept[m].hosts
                              /\ before[m].parts = kept[m].parts
  <2> HIDE DEF kept
  <2>1. CASE keep
    <3>1. l \in DOMAIN kept /\ DOMAIN kept \subseteq Nat
      BY <1>1
    <3> QED
      BY <1>1, <2>1, <3>1, HandedOverFacts
  <2>2. CASE ~keep
    BY <1>1, <2>2
  <2> QED
    BY <2>1, <2>2
<1>3. less = IF before[l].wished \/ IsHeld(before[l]) THEN cs
             ELSE [m \in DOMAIN cs \ {l} |-> before[m]]
  BY DEF Withdrawn
<1> HIDE DEF before, kept, less
<1>4. IsFiniteSet(DOMAIN cs \ {l})
  BY FS_RemoveElement DEF WellFormed
<1>5. CASE less = [m \in DOMAIN cs \ {l} |-> before[m]]
  <2>1. WellFormed(less)
    BY <1>2, <1>4, <1>5 DEF WellFormed
  <2>2. DOMAIN less = DOMAIN cs \ {l} /\ TakenAway(cs, l, less)
    BY <1>2, <1>5 DEF TakenAway, kept
  <2> QED
    BY <2>1, <2>2 DEF less
<1> QED
  BY <1>3, <1>5 DEF less

-----------------------------------------------------------------------------
(* The screen.                                                             *)

\* What holds at first and is kept by each withdrawal, holds when the last
\* letter that leaves was tried: every one of them is tried while it is there,
\* and those that are left are among those that refused.
LEMMA LeavingByOne ==
    ASSUME NEW cs, WellFormed(cs), DOMAIN cs \subseteq Nat, NEW want,
           NEW Q, cs \in Q, NEW T,
           \A ds \in Q, l \in Leaving(cs, want) :
               /\ WellFormed(ds) /\ DOMAIN ds \subseteq DOMAIN cs /\ l \in DOMAIN ds
               /\ DOMAIN cs \ Leaving(cs, want) \subseteq DOMAIN ds
               => /\ Withdrawn(ds, l, want # <<>>) \in Q
                  /\ l \in DOMAIN Withdrawn(ds, l, want # <<>>) => l \in T
    PROVE  /\ AfterLeaving(cs, want) \in Q
           /\ WellFormed(AfterLeaving(cs, want))
           /\ DOMAIN AfterLeaving(cs, want) \subseteq DOMAIN cs
           /\ DOMAIN cs \ Leaving(cs, want) \subseteq DOMAIN AfterLeaving(cs, want)
           /\ DOMAIN AfterLeaving(cs, want) \cap Leaving(cs, want) \subseteq T
<1> DEFINE L == Leaving(cs, want)
           n == Cardinality(L)
           W(d, i) == Withdrawn(d, Nth(L, n - i), want # <<>>)
           after == CHOOSE g : g = [i \in 0..n |-> IF i = 0 THEN cs ELSE W(g[i - 1], i)]
<1>1. AfterLeaving(cs, want) = after[n]
  BY DEF AfterLeaving
<1>2. L \in SUBSET Nat /\ L \subseteq DOMAIN cs /\ IsFiniteSet(L) /\ n \in Nat
  <2>1. L \in SUBSET (DOMAIN cs)
    BY DEF Leaving, Spare
  <2>2. IsFiniteSet(DOMAIN cs)
    BY DEF WellFormed
  <2> HIDE DEF L
  <2> QED
    BY <2>1, <2>2, FS_Subset, FS_CardinalityType
<1>3. \A i \in 1 .. n : Nth(L, n - i) \in L /\ Rank(L, Nth(L, n - i)) = n - i
  <2> HIDE DEF L
  <2> QED
    BY <1>2, NthFacts
<1>4. \A l \in L : Rank(L, l) \in 0 .. n - 1 /\ Nth(L, Rank(L, l)) = l
  <2> HIDE DEF L
  <2> QED
    BY <1>2, RankFacts, NthFacts
<1> HIDE DEF W
<1>5. \E g : g = [i \in 0..n |-> IF i = 0 THEN cs ELSE W(g[i - 1], i)]
  <2> DEFINE S == {m \in Nat : \E g : g = [i \in 0..m |-> IF i = 0 THEN cs ELSE W(g[i - 1], i)]}
  <2>1. 0 \in S
    <3> DEFINE g == [i \in 0..0 |-> cs]
    <3>1. g = [i \in 0..0 |-> IF i = 0 THEN cs ELSE W(g[i - 1], i)]
      OBVIOUS
    <3> QED
      BY <3>1
  <2>2. ASSUME NEW m \in Nat, m \in S PROVE m + 1 \in S
    <3>1. PICK g : g = [i \in 0..m |-> IF i = 0 THEN cs ELSE W(g[i - 1], i)]
      BY <2>2
    <3> DEFINE h == [i \in 0 .. m + 1 |-> IF i = m + 1 THEN W(g[m], m + 1) ELSE g[i]]
    <3>2. ASSUME NEW i \in 0 .. m + 1
          PROVE  h[i] = IF i = 0 THEN cs ELSE W(h[i - 1], i)
      <4>1. CASE i = m + 1
        BY <4>1
      <4>2. CASE i = 0
        BY <3>1, <4>2
      <4>3. CASE i # 0 /\ i # m + 1
        <5>1. i \in 0..m /\ i - 1 \in 0..m /\ i - 1 # m + 1 /\ i - 1 \in 0 .. m + 1
          BY <4>3
        <5>2. h[i] = g[i] /\ h[i - 1] = g[i - 1]
          BY <4>3, <5>1
        <5>3. g[i] = W(g[i - 1], i)
          BY <3>1, <4>3, <5>1
        <5> QED
          BY <4>3, <5>2, <5>3
      <4> QED
        BY <4>1, <4>2, <4>3
    <3>3. h = [i \in 0 .. m + 1 |-> h[i]]
      OBVIOUS
    <3> HIDE DEF h
    <3>4. h = [i \in 0 .. m + 1 |-> IF i = 0 THEN cs ELSE W(h[i - 1], i)]
      BY <3>2, <3>3
    <3> QED
      BY <3>4
  <2> HIDE DEF S
  <2>3. n \in S
    BY <1>2, <2>1, <2>2, CountingOn
  <2> QED
    BY <2>3 DEF S
<1>6. after = [i \in 0..n |-> IF i = 0 THEN cs ELSE W(after[i - 1], i)]
  BY <1>5
<1> HIDE DEF after, n
<1>7. after[0] = cs /\ \A i \in 0..n : i # 0 => after[i] = W(after[i - 1], i)
  BY <1>2, <1>6
<1> DEFINE Fine(i) == /\ after[i] \in Q /\ WellFormed(after[i])
                      /\ DOMAIN after[i] \subseteq DOMAIN cs
                      /\ \A l \in DOMAIN cs :
                            (l \in L => Rank(L, l) < n - i) => l \in DOMAIN after[i]
                      /\ \A l \in DOMAIN after[i] \cap L : Rank(L, l) >= n - i => l \in T
           S == {i \in Nat : i <= n => Fine(i)}
<1>8. 0 \in S
  <2> HIDE DEF L
  <2>1. \A l \in L : Rank(L, l) < n
    BY <1>2, <1>4
  <2> QED
    BY <1>2, <1>4, <1>7, <2>1
<1>9. ASSUME NEW i \in Nat, i \in S PROVE i + 1 \in S
  <2> SUFFICES ASSUME i + 1 <= n PROVE Fine(i + 1)
    OBVIOUS
  <2>1. Fine(i)
    BY <1>2, <1>9
  <2> DEFINE l == Nth(L, n - (i + 1))
  <2>2. i + 1 \in 1..n /\ i + 1 \in 0..n /\ i + 1 # 0 /\ (i + 1) - 1 = i
    BY <1>2
  <2>3. after[i + 1] = Withdrawn(after[i], l, want # <<>>)
    BY <1>7, <2>2 DEF W
  <2>4. l \in L /\ Rank(L, l) = n - (i + 1)
    BY <1>3, <2>2
  <2> HIDE DEF l, L
  <2>5. l \in DOMAIN after[i] /\ DOMAIN after[i] \subseteq Nat
    <3>1. n - (i + 1) < n - i
      BY <1>2
    <3>2. l \in DOMAIN cs /\ Rank(L, l) < n - i
      BY <1>2, <2>4, <3>1
    <3>3. DOMAIN after[i] \subseteq DOMAIN cs /\ (Rank(L, l) < n - i => l \in DOMAIN after[i])
      BY <2>1, <3>2
    <3> QED
      BY <3>2, <3>3
  <2>6. after[i + 1] \in Q /\ (l \in DOMAIN after[i + 1] => l \in T)
    <3>1. DOMAIN cs \ L \subseteq DOMAIN after[i]
      BY <2>1
    <3> QED
      BY <2>1, <2>3, <2>4, <2>5, <3>1 DEF L
  <2>7. WellFormed(after[i + 1]) /\ DOMAIN after[i + 1] \subseteq DOMAIN after[i]
        /\ DOMAIN after[i] \ {l} \subseteq DOMAIN after[i + 1]
    <3>1. WellFormed(after[i])
      BY <2>1
    <3> DEFINE less == Withdrawn(after[i], l, want # <<>>)
    <3>2. \/ less = after[i]
          \/ WellFormed(less) /\ DOMAIN less = DOMAIN after[i] \ {l}
      BY <2>5, <3>1, WithdrawnFacts
    <3>3. after[i + 1] = less
      BY <2>3
    <3> HIDE DEF less
    <3> QED
      BY <3>1, <3>2, <3>3
  <2>8. ASSUME NEW m \in DOMAIN cs, m \in L => Rank(L, m) < n - (i + 1)
        PROVE  m \in DOMAIN after[i + 1]
    <3>1. m # l
      BY <1>2, <2>4, <2>8
    <3>2. m \in L => Rank(L, m) < n - i
      BY <1>2, <1>4, <2>8 DEF L
    <3> QED
      BY <2>1, <2>7, <3>1, <3>2
  <2>9. ASSUME NEW m \in DOMAIN after[i + 1] \cap L, Rank(L, m) >= n - (i + 1)
        PROVE  m \in T
    <3>1. CASE m = l
      BY <2>6, <2>9, <3>1
    <3>2. CASE m # l
      <4>1. Rank(L, m) # n - (i + 1)
        <5>1. Nth(L, Rank(L, m)) = m /\ Nth(L, Rank(L, l)) = l
          BY <1>4, <2>4, <2>9
        <5> QED
          BY <2>4, <3>2, <5>1
      <4>2. Rank(L, m) >= n - i
        <5>1. Rank(L, m) \in Int /\ n \in Int
          <6>1. m \in L
            BY <2>9
          <6>2. Rank(L, m) \in 0 .. n - 1
            BY <1>4, <6>1
          <6> QED
            BY <1>2, <6>2
        <5>2. Rank(L, m) >= n - (i + 1)
          BY <2>9
        <5> QED
          BY <4>1, <5>1, <5>2
      <4>3. m \in DOMAIN after[i] \cap L
        BY <2>7, <2>9
      <4> QED
        BY <2>1, <4>2, <4>3
    <3> QED
      BY <3>1, <3>2
  <2> QED
    BY <2>1, <2>6, <2>7, <2>8, <2>9
<1> HIDE DEF Fine, S
<1>10. n \in S
  BY <1>2, <1>8, <1>9, CountingOn
<1>11. Fine(n)
  BY <1>2, <1>10 DEF S
<1>12. \A l \in L : Rank(L, l) >= n - n
  BY <1>2, <1>4
<1> QED
  BY <1>1, <1>2, <1>11, <1>12 DEF Fine

LEMMA LeavingInduction ==
    ASSUME NEW cs, WellFormed(cs), DOMAIN cs \subseteq Nat, NEW want,
           NEW Q, cs \in Q,
           \A ds \in Q, l \in Leaving(cs, want) :
               WellFormed(ds) /\ DOMAIN ds \subseteq DOMAIN cs /\ l \in DOMAIN ds =>
                   Withdrawn(ds, l, want # <<>>) \in Q
    PROVE  /\ AfterLeaving(cs, want) \in Q
           /\ WellFormed(AfterLeaving(cs, want))
           /\ DOMAIN AfterLeaving(cs, want) \subseteq DOMAIN cs
           /\ DOMAIN cs \ Leaving(cs, want) \subseteq DOMAIN AfterLeaving(cs, want)
<1> DEFINE T == Leaving(cs, want)
<1>1. /\ AfterLeaving(cs, want) \in Q
      /\ WellFormed(AfterLeaving(cs, want))
      /\ DOMAIN AfterLeaving(cs, want) \subseteq DOMAIN cs
      /\ DOMAIN cs \ Leaving(cs, want) \subseteq DOMAIN AfterLeaving(cs, want)
      /\ DOMAIN AfterLeaving(cs, want) \cap Leaving(cs, want) \subseteq T
  BY LeavingByOne
<1> QED
  BY <1>1

\* Giving the cohorts other letters.
LEMMA Reindexed ==
    ASSUME NEW cs, WellFormed(cs), NEW D, IsFiniteSet(D), NEW g \in [D -> DOMAIN cs],
           \A l, m \in D : g[l] = g[m] => l = m
    PROVE  WellFormed([l \in D |-> cs[g[l]]])
BY DEF WellFormed

Screen(want) ==
    /\ want \in [DOMAIN want -> 0..MaxGroups]
    /\ DOMAIN want \subseteq Nat /\ IsFiniteSet(DOMAIN want)

\* As many are renamed as there are letters of both; each into one of its own.
LEMMA BeforeFacts ==
    ASSUME NEW cs, WellFormed(cs), DOMAIN cs \subseteq Nat, NEW want, Screen(want)
    PROVE  /\ Renamed(cs, want) \subseteq DOMAIN cs \ DOMAIN want
           /\ Taken(cs, want) \subseteq DOMAIN want \ DOMAIN cs
           /\ \A l \in Taken(cs, want) : Before(cs, want, l) \in Renamed(cs, want)
           /\ \A l, m \in Taken(cs, want) :
                Before(cs, want, l) = Before(cs, want, m) => l = m
           /\ \A m \in Renamed(cs, want) : \E l \in Taken(cs, want) : Before(cs, want, l) = m
           /\ \A l : l \notin Taken(cs, want) => Before(cs, want, l) = l
<1> DEFINE S == Spare(cs, want)
           O == Open(cs, want)
           n == Renames(cs, want)
<1>1. /\ S \in SUBSET Nat /\ IsFiniteSet(S) /\ Cardinality(S) \in Nat
      /\ O \in SUBSET Nat /\ IsFiniteSet(O) /\ Cardinality(O) \in Nat
  <2>1. S \in SUBSET (DOMAIN cs) /\ O \in SUBSET (DOMAIN want)
    BY DEF Spare, Open
  <2>2. IsFiniteSet(DOMAIN cs) /\ IsFiniteSet(DOMAIN want)
    BY DEF WellFormed, Screen
  <2>3. DOMAIN cs \subseteq Nat /\ DOMAIN want \subseteq Nat
    BY DEF Screen
  <2> HIDE DEF S, O
  <2>4. IsFiniteSet(S) /\ IsFiniteSet(O)
    BY <2>1, <2>2, FS_Subset
  <2> QED
    BY <2>1, <2>3, <2>4, FS_CardinalityType
<1>2. n \in Nat /\ n <= Cardinality(S) /\ n <= Cardinality(O)
  <2> DEFINE T == {Cardinality(S), Cardinality(O)}
  <2>1. T \in SUBSET Nat /\ T # {}
    BY <1>1
  <2>2. n = Min(T)
    BY DEF Renames
  <2>3. Cardinality(S) \in T /\ Cardinality(O) \in T
    OBVIOUS
  <2> HIDE DEF T, n
  <2> QED
    BY <2>1, <2>2, <2>3, MinFacts
<1> HIDE DEF n
<1>3. Renamed(cs, want) = First(S, n) /\ Taken(cs, want) = First(O, n)
  BY DEF Renamed, Taken, n
<1>4. \A l : Before(cs, want, l) = IF l \in First(O, n) THEN Nth(S, Rank(O, l)) ELSE l
  BY <1>3 DEF Before
<1>5. S = DOMAIN cs \ DOMAIN want /\ O = DOMAIN want \ DOMAIN cs
  BY DEF Spare, Open
<1> HIDE DEF S, O
<1>6. \A l \in O : Rank(O, l) \in Nat
  BY <1>1, RankFacts
<1>7. \A m \in S : Rank(S, m) \in Nat /\ Nth(S, Rank(S, m)) = m
  BY <1>1, RankFacts, NthFacts
<1>8. \A r \in Nat : r < n => /\ Nth(S, r) \in S /\ Rank(S, Nth(S, r)) = r
                              /\ Nth(O, r) \in O /\ Rank(O, Nth(O, r)) = r
  <2> SUFFICES ASSUME NEW r \in Nat, r < n
               PROVE  r \in 0 .. Cardinality(S) - 1 /\ r \in 0 .. Cardinality(O) - 1
    BY <1>1, NthFacts
  <2> QED
    BY <1>1, <1>2
<1>9. \A l \in O : Nth(O, Rank(O, l)) = l
  BY <1>1, NthFacts
<1>10. ASSUME NEW l \in First(O, n)
       PROVE  /\ l \in O /\ Rank(O, l) \in Nat /\ Rank(O, l) < n
              /\ Nth(S, Rank(O, l)) \in First(S, n)
              /\ Rank(S, Nth(S, Rank(O, l))) = Rank(O, l)
  BY <1>6, <1>8 DEF First
<1>11. ASSUME NEW m \in First(S, n)
       PROVE  Nth(O, Rank(S, m)) \in First(O, n) /\ Nth(S, Rank(O, Nth(O, Rank(S, m)))) = m
  BY <1>7, <1>8 DEF First
<1>12. First(O, n) \subseteq O /\ First(S, n) \subseteq S
  BY DEF First
<1>13. ASSUME NEW l \in First(O, n), NEW m \in First(O, n),
              Nth(S, Rank(O, l)) = Nth(S, Rank(O, m))
       PROVE  l = m
  BY <1>9, <1>10, <1>13
<1>14. \A l \in Taken(cs, want) : Before(cs, want, l) = Nth(S, Rank(O, l))
  BY <1>3, <1>4
<1>15. \A l \in Taken(cs, want) : Before(cs, want, l) \in Renamed(cs, want)
  BY <1>3, <1>10, <1>14
<1>16. \A l, m \in Taken(cs, want) : Before(cs, want, l) = Before(cs, want, m) => l = m
  BY <1>3, <1>13, <1>14
<1>17. \A m \in Renamed(cs, want) : \E l \in Taken(cs, want) : Before(cs, want, l) = m
  BY <1>3, <1>11, <1>14
<1>18. \A l : l \notin Taken(cs, want) => Before(cs, want, l) = l
  BY <1>3, <1>4
<1>19. /\ Renamed(cs, want) \subseteq DOMAIN cs \ DOMAIN want
       /\ Taken(cs, want) \subseteq DOMAIN want \ DOMAIN cs
  BY <1>3, <1>5, <1>12
<1> QED
  BY <1>15, <1>16, <1>17, <1>18, <1>19

\* All ways in which cohorts of cs can be there.
Subsets(cs) == UNION {[D -> Cohort] : D \in SUBSET (DOMAIN cs)}

LEMMA InSubsets ==
    ASSUME NEW cs, NEW ds, WellFormed(ds), DOMAIN ds \subseteq DOMAIN cs
    PROVE  ds \in Subsets(cs)
BY DEF WellFormed, Subsets

LEMMA AfterLeavingFacts ==
    ASSUME NEW cs, WellFormed(cs), DOMAIN cs \subseteq Nat, NEW want
    PROVE  /\ WellFormed(AfterLeaving(cs, want))
           /\ DOMAIN AfterLeaving(cs, want) \subseteq DOMAIN cs
           /\ DOMAIN cs \ Leaving(cs, want) \subseteq DOMAIN AfterLeaving(cs, want)
<1> DEFINE Q == Subsets(cs)
<1>1. cs \in Q
  BY InSubsets
<1>2. ASSUME NEW ds \in Q, NEW l \in Leaving(cs, want),
             WellFormed(ds), DOMAIN ds \subseteq DOMAIN cs, l \in DOMAIN ds
      PROVE  Withdrawn(ds, l, want # <<>>) \in Q
  <2> DEFINE less == Withdrawn(ds, l, want # <<>>)
  <2>1. less = ds \/ (WellFormed(less) /\ DOMAIN less = DOMAIN ds \ {l})
    <3>1. DOMAIN ds \subseteq Nat /\ WellFormed(ds) /\ l \in DOMAIN ds
      BY <1>2
    <3> HIDE DEF Q
    <3> QED
      BY <3>1, WithdrawnFacts
  <2> HIDE DEF less
  <2>2. WellFormed(less) /\ DOMAIN less \subseteq DOMAIN cs
    BY <1>2, <2>1
  <2> QED
    BY <2>2, InSubsets DEF less
<1> HIDE DEF Q
<1> QED
  BY <1>1, <1>2, LeavingInduction

LEMMA AfterRenamesFacts ==
    ASSUME NEW cs, WellFormed(cs), DOMAIN cs \subseteq Nat, NEW want, Screen(want)
    PROVE  LET less == AfterLeaving(cs, want)
               renamed == AfterRenames(cs, want)
           IN  /\ WellFormed(renamed)
               /\ DOMAIN renamed = (DOMAIN less \ Renamed(cs, want)) \cup Taken(cs, want)
               /\ \A l \in DOMAIN renamed :
                    Before(cs, want, l) \in DOMAIN less /\ renamed[l] = less[Before(cs, want, l)]
               /\ \A l, m \in DOMAIN renamed :
                    Before(cs, want, l) = Before(cs, want, m) => l = m
<1> DEFINE less == AfterLeaving(cs, want)
           D == (DOMAIN less \ Renamed(cs, want)) \cup Taken(cs, want)
           g == [l \in D |-> Before(cs, want, l)]
<1>1. /\ WellFormed(less) /\ DOMAIN less \subseteq DOMAIN cs
      /\ DOMAIN cs \ Leaving(cs, want) \subseteq DOMAIN less
  BY AfterLeavingFacts
<1>2. AfterRenames(cs, want) = [l \in D |-> less[g[l]]]
  BY DEF AfterRenames
<1>3. Leaving(cs, want) \cap Renamed(cs, want) = {}
  BY DEF Leaving
<1> HIDE DEF less
<1>4. \A l \in D : Before(cs, want, l) \in DOMAIN less
  BY <1>1, <1>3, BeforeFacts
<1>5. \A l, m \in D : Before(cs, want, l) = Before(cs, want, m) => l = m
  BY <1>1, BeforeFacts
<1>6. IsFiniteSet(D)
  <2>1. D \in SUBSET (DOMAIN cs \cup DOMAIN want)
    BY <1>1, BeforeFacts
  <2>2. IsFiniteSet(DOMAIN cs \cup DOMAIN want)
    BY FS_Union DEF WellFormed, Screen
  <2> HIDE DEF D
  <2> QED
    BY <2>1, <2>2, FS_Subset
<1>7. g \in [D -> DOMAIN less] /\ \A l \in D : g[l] = Before(cs, want, l)
  BY <1>4
<1> HIDE DEF D, g
<1>8. WellFormed([l \in D |-> less[g[l]]])
  BY <1>1, <1>5, <1>6, <1>7, Reindexed
<1> QED
  BY <1>2, <1>4, <1>5, <1>7, <1>8 DEF less, D

\* What is declared by the screen: the letters that are nobody's new name.
Missing(cs, s, want) == IF s = <<>> THEN {} ELSE Open(cs, want) \ Taken(cs, want)

LEMMA AfterCreatingFacts ==
    ASSUME NEW cs, WellFormed(cs), DOMAIN cs \subseteq Nat, NEW s \in Seq(Kind),
           NEW want, Screen(want), NEW host
    PROVE  LET renamed == AfterRenames(cs, want)
               more == AfterCreating(cs, s, want, host)
           IN  /\ WellFormed(more)
               /\ DOMAIN more = DOMAIN renamed \cup Missing(cs, s, want)
               /\ DOMAIN renamed \cap Missing(cs, s, want) = {}
<1> DEFINE renamed == AfterRenames(cs, want)
           more == AfterCreating(cs, s, want, host)
           M == Missing(cs, s, want)
           covered == NewCohort("covered", NoParts)
           own == NewCohort("self", PartsFromSplit(s, SharedKinds(cs)))
           first == Min(M)
           both == Couples(renamed, host)
<1>1. more = [l \in DOMAIN renamed \cup M |->
                IF l \notin M THEN renamed[l] ELSE IF both /\ l = first THEN covered ELSE own]
  BY DEF AfterCreating, Missing
<1>2. /\ covered \in Cohort /\ covered.held = "covered" /\ ~covered.hosts
      /\ covered.parts = NoParts
  BY NoPartsType, NewCohortType
<1>3. own \in Cohort /\ own.held = "self" /\ ~own.hosts
  BY PartsFromSplitType, NewCohortType
<1>4. both => \A l \in DOMAIN renamed : renamed[l].held = "self"
  BY DEF Couples
<1>5. WellFormed(renamed)
  BY AfterRenamesFacts
<1>6. M \subseteq DOMAIN want /\ M \cap DOMAIN cs = {} /\ M \cap Taken(cs, want) = {}
  BY DEF Missing, Open
<1>7. DOMAIN renamed \cap M = {}
  <2>1. DOMAIN renamed \subseteq DOMAIN cs \cup Taken(cs, want)
    <3>1. DOMAIN renamed = (DOMAIN AfterLeaving(cs, want) \ Renamed(cs, want)) \cup Taken(cs, want)
      BY AfterRenamesFacts
    <3>2. DOMAIN AfterLeaving(cs, want) \subseteq DOMAIN cs
      BY AfterLeavingFacts
    <3> HIDE DEF renamed
    <3> QED
      BY <3>1, <3>2
  <2> HIDE DEF renamed, M
  <2> QED
    BY <1>6, <2>1
<1>8. IsFiniteSet(DOMAIN renamed \cup M)
  <2>1. M \in SUBSET (DOMAIN want)
    BY <1>6
  <2> HIDE DEF renamed, M
  <2>2. IsFiniteSet(M)
    BY <2>1, FS_Subset DEF Screen
  <2> QED
    BY <1>5, <2>2, FS_Union DEF WellFormed
<1> HIDE DEF renamed, more, M, covered, own, first, both
<1>9. WellFormed(more)
  BY <1>1, <1>2, <1>3, <1>4, <1>5, <1>8 DEF WellFormed
<1>10. DOMAIN more = DOMAIN renamed \cup M
  BY <1>1
<1> QED
  BY <1>7, <1>9, <1>10 DEF renamed, more, M

LEMMA AfterCreatingValues ==
    ASSUME NEW cs, WellFormed(cs), DOMAIN cs \subseteq Nat, NEW s \in Seq(Kind),
           NEW want, Screen(want), NEW host, NEW l
    PROVE  LET renamed == AfterRenames(cs, want)
               more == AfterCreating(cs, s, want, host)
           IN  /\ l \in DOMAIN renamed => more[l] = renamed[l]
               /\ l \in Missing(cs, s, want) =>
                    \/ more[l] = NewCohort("covered", NoParts)
                    \/ more[l] = NewCohort("self", PartsFromSplit(s, SharedKinds(cs)))
<1> DEFINE renamed == AfterRenames(cs, want)
           more == AfterCreating(cs, s, want, host)
           M == Missing(cs, s, want)
           covered == NewCohort("covered", NoParts)
           own == NewCohort("self", PartsFromSplit(s, SharedKinds(cs)))
           first == Min(M)
           both == Couples(renamed, host)
<1>1. more = [m \in DOMAIN renamed \cup M |->
                IF m \notin M THEN renamed[m] ELSE IF both /\ m = first THEN covered ELSE own]
  BY DEF AfterCreating, Missing
<1>2. DOMAIN renamed \cap M = {}
  BY AfterCreatingFacts
<1> HIDE DEF renamed, more, M, covered, own, first, both
<1>3. /\ l \in DOMAIN renamed => more[l] = renamed[l]
      /\ l \in M => more[l] = covered \/ more[l] = own
  BY <1>1, <1>2
<1> QED
  BY <1>3 DEF renamed, more, M, covered, own

LEMMA TrimmedType ==
    ASSUME NEW groups \in Seq(Group), NEW tooMany
    PROVE  Trimmed(groups, tooMany) \in Seq(Group)
<1> DEFINE own(i) == {j \in DOMAIN groups : j >= i /\ ~groups[j].shared}
           Goes(i) == /\ ~groups[i].shared
                      /\ \A j \in own(i) : groups[j].pieces = 0 /\ groups[j].use # "held"
                      /\ Cardinality(own(i)) <= tooMany
           I == {i \in DOMAIN groups : ~Goes(i)}
<1>1. Trimmed(groups, tooMany) = Chosen(groups, I)
  BY DEF Trimmed
<1>2. I \in SUBSET (DOMAIN groups)
  OBVIOUS
<1> HIDE DEF I
<1> QED
  BY <1>1, <1>2, ChosenFacts

\* Only the practical groups of a cohort that holds itself are adjusted.
LEMMA AdjustedFacts ==
    ASSUME NEW c \in Cohort, NEW s \in Seq(Kind), NEW seen, NEW n,
           Practical(s) # NoKind => seen \in Int /\ n \in Int
    PROVE  LET d == Adjusted(c, s, seen, n) IN
           /\ d \in Cohort /\ d.held = c.held /\ d.hosts = c.hosts /\ d.wished = c.wished
           /\ \A k \in Kind \ {Practical(s)} : d.parts[k] = c.parts[k]
           /\ c.held = "covered" => d = c
<1> DEFINE k == Practical(s)
           d == Adjusted(c, s, seen, n)
           groups == IF seen < n THEN c.parts[k] \o [i \in 1 .. n - seen |-> Part(0)]
                     ELSE Trimmed(c.parts[k], seen - n)
<1>1. CASE c.held = "covered" \/ k = NoKind
  <2>1. d = c
    BY <1>1 DEF Adjusted
  <2> QED
    BY <1>1, <2>1
<1>2. CASE ~(c.held = "covered" \/ k = NoKind)
  <2>1. d = [c EXCEPT !.parts[k] = groups]
    BY <1>2 DEF Adjusted, Cohort
  <2>2. k \in Kind /\ c.parts[k] \in Seq(Group)
    BY <1>2, SplitFacts DEF Cohort
  <2>3. groups \in Seq(Group)
    <3>1. CASE seen < n
      <4>1. n - seen \in Nat
        BY <1>2, <3>1
      <4>2. ASSUME NEW m \in Nat PROVE [i \in 1 .. m |-> Part(0)] \in Seq(Group)
        <5>1. Part(0) \in Group
          BY PartType
        <5> QED
          BY <5>1
      <4> QED
        <5>1. [i \in 1 .. n - seen |-> Part(0)] \in Seq(Group)
          BY <4>1, <4>2
        <5> QED
          BY <2>2, <3>1, <5>1
    <3>2. CASE ~(seen < n)
      BY <2>2, <3>2, TrimmedType
    <3> QED
      BY <3>1, <3>2
  <2> HIDE DEF d, groups
  <2>4. /\ d \in Cohort /\ d.held = c.held /\ d.hosts = c.hosts /\ d.wished = c.wished
        /\ \A j \in Kind \ {k} : d.parts[j] = c.parts[j]
    <3> HIDE DEF k
    <3> QED
      BY <2>1, <2>2, <2>3 DEF Cohort
  <2> QED
    BY <1>2, <2>4 DEF d
<1> QED
  BY <1>1, <1>2

LEMMA OwnGroupsType ==
    ASSUME NEW c \in Cohort, NEW k \in Kind
    PROVE  /\ c.parts[k] \in Seq(Group)
           /\ OwnGroups(c, k) \in Nat
<1>1. c.parts[k] \in Seq(Group)
  BY DEF Cohort
<1>2. {i \in DOMAIN c.parts[k] : ~c.parts[k][i].shared} \in SUBSET (DOMAIN c.parts[k])
  OBVIOUS
<1> QED
  BY <1>1, <1>2, Numbers DEF OwnGroups

\* The number of groups a cohort had when the transaction read the demand.
Seen(cs, s, want, host, l) ==
    OwnGroups(IF l \in DOMAIN AfterRenames(cs, want) THEN cs[Before(cs, want, l)]
              ELSE AfterCreating(cs, s, want, host)[l], Practical(s))

LEMMA PlannedFacts ==
    ASSUME NEW cs, WellFormed(cs), DOMAIN cs \subseteq Nat, NEW s \in Seq(Kind),
           NEW want, Screen(want), NEW host
    PROVE  LET more == AfterCreating(cs, s, want, host)
               plan == Planned(cs, s, want, host)
           IN  /\ WellFormed(plan) /\ DOMAIN plan = DOMAIN more
               /\ \A l \in DOMAIN more :
                    /\ plan[l].held = more[l].held
                    /\ plan[l].hosts = more[l].hosts
                    /\ plan[l].wished = more[l].wished
                    /\ \A k \in Kind \ {Practical(s)} : plan[l].parts[k] = more[l].parts[k]
                    /\ l \notin DOMAIN want => plan[l] = more[l]
                    /\ l \in DOMAIN want =>
                        plan[l] = Adjusted(more[l], s, Seen(cs, s, want, host, l), want[l])
               /\ \A l \in DOMAIN more :
                    Practical(s) # NoKind => Seen(cs, s, want, host, l) \in Nat
<1> DEFINE more == AfterCreating(cs, s, want, host)
           plan == Planned(cs, s, want, host)
           seen(l) == Seen(cs, s, want, host, l)
<1>1. plan = [l \in DOMAIN more |->
                IF l \notin DOMAIN want THEN more[l] ELSE Adjusted(more[l], s, seen(l), want[l])]
  BY DEF Planned, AllAdjusted, Seen
<1>2. WellFormed(more)
  BY AfterCreatingFacts
<1>3. ASSUME NEW l \in DOMAIN more, Practical(s) # NoKind PROVE seen(l) \in Nat
  <2>1. Practical(s) \in Kind
    BY <1>3, SplitFacts
  <2>2. CASE l \in DOMAIN AfterRenames(cs, want)
    <3>1. Before(cs, want, l) \in DOMAIN AfterLeaving(cs, want)
      BY <2>2, AfterRenamesFacts
    <3>2. DOMAIN AfterLeaving(cs, want) \subseteq DOMAIN cs
      BY AfterLeavingFacts
    <3>3. cs[Before(cs, want, l)] \in Cohort
      BY <3>1, <3>2 DEF WellFormed
    <3> QED
      BY <2>1, <2>2, <3>3, OwnGroupsType DEF Seen
  <2>3. CASE l \notin DOMAIN AfterRenames(cs, want)
    <3>1. more[l] \in Cohort
      BY <1>2, <1>3 DEF WellFormed
    <3> QED
      BY <2>1, <2>3, <3>1, OwnGroupsType DEF Seen
  <2> QED
    BY <2>2, <2>3
<1>4. \A l \in DOMAIN want : want[l] \in Int
  BY DemandAssumption DEF Screen
<1> HIDE DEF more, plan, seen
<1>5. ASSUME NEW l \in DOMAIN more
      PROVE  /\ plan[l] \in Cohort
             /\ plan[l].held = more[l].held /\ plan[l].hosts = more[l].hosts
             /\ plan[l].wished = more[l].wished
             /\ \A k \in Kind \ {Practical(s)} : plan[l].parts[k] = more[l].parts[k]
             /\ more[l].held = "covered" => plan[l].parts = more[l].parts
  <2>1. more[l] \in Cohort
    BY <1>2 DEF WellFormed
  <2>2. CASE l \notin DOMAIN want
    BY <1>1, <2>1, <2>2
  <2>3. CASE l \in DOMAIN want
    <3>1. plan[l] = Adjusted(more[l], s, seen(l), want[l])
      BY <1>1, <2>3
    <3>2. Practical(s) # NoKind => seen(l) \in Int /\ want[l] \in Int
      BY <1>3, <1>4, <2>3
    <3> QED
      BY <2>1, <3>1, <3>2, AdjustedFacts
  <2> QED
    BY <2>2, <2>3
<1>6. DOMAIN plan = DOMAIN more
  BY <1>1
<1>7. WellFormed(plan)
  <2>1. plan \in [DOMAIN plan -> Cohort]
    BY <1>1, <1>5, <1>6
  <2> QED
    BY <1>2, <1>5, <1>6, <2>1 DEF WellFormed
<1> QED
  BY <1>1, <1>3, <1>5, <1>6, <1>7 DEF more, plan, seen

-----------------------------------------------------------------------------
(* Carrying a corrected split over.                                        *)

\* Of finitely many kinds that a cohort has parts of, one has the most.
LEMMA MostFacts ==
    ASSUME NEW c \in Cohort, NEW D \in SUBSET Kind, D # {}
    PROVE  \E d \in D : \A e \in D : Len(c.parts[e]) <= Len(c.parts[d])
<1> DEFINE len(d) == Len(c.parts[d])
           T == {n \in Nat : \E d \in D : len(d) = n}
           f == [d \in D |-> len(d)]
<1>1. \A d \in D : len(d) \in Nat
  BY DEF Cohort
<1>2. IsFiniteSet(D)
  BY KindFacts, FS_Subset
<1> HIDE DEF len
<1>3. IsFiniteSet(T)
  <2>1. f \in Surjection(D, T)
    BY <1>1 DEF Surjection
  <2> HIDE DEF f, T
  <2> QED
    BY <1>2, <2>1, FS_Surjection
<1>4. T \in SUBSET Nat /\ T # {}
  BY <1>1
<1> HIDE DEF T
<1>5. PICK m \in T : \A n \in T : n <= m
  <2> DEFINE n == Cardinality(T)
             m == Nth(T, n - 1)
  <2>1. n \in Nat /\ n # 0
    BY <1>3, <1>4, FS_CardinalityType, FS_EmptySet
  <2>2. m \in T /\ Rank(T, m) = n - 1 /\ \A x \in T : Rank(T, x) \in 0 .. n - 1
    <3>1. n - 1 \in 0 .. n - 1
      BY <2>1
    <3> QED
      BY <1>3, <1>4, <3>1, NthFacts, RankFacts
  <2> HIDE DEF n, m
  <2>3. \A x \in T : m < x => Rank(T, m) < Rank(T, x)
    BY <1>3, <1>4, <2>2, RankFacts
  <2>4. \A x \in T : x <= m
    BY <1>4, <2>1, <2>2, <2>3
  <2> QED
    BY <2>2, <2>4
<1>6. PICK d \in D : len(d) = m
  BY <1>5 DEF T
<1>7. \A e \in D : len(e) \in T
  BY <1>1 DEF T
<1> QED
  BY <1>5, <1>6, <1>7 DEF len

LEMMA LackingType ==
    ASSUME NEW c \in Cohort, NEW s, NEW mayRemove, NEW k
    PROVE  /\ Lacking(c, s, mayRemove, k) \in Nat
           /\ k # Practical(s) => Lacking(c, s, mayRemove, k) = 1
<1> DEFINE dropped == {d \in Kind \ {Lecture} : Entries(s, d) = 0 /\ c.parts[d] # <<>>}
           most == CHOOSE d \in dropped : \A e \in dropped : Len(c.parts[e]) <= Len(c.parts[d])
           I == {i \in DOMAIN c.parts[most] : ~Stays(c.parts[most][i], mayRemove)}
<1>1. Lacking(c, s, mayRemove, k) =
        IF k = Practical(s) /\ dropped # {} THEN Cardinality(I) ELSE 1
  BY DEF Lacking
<1>2. ASSUME dropped # {} PROVE Cardinality(I) \in Nat
  <2>1. dropped \in SUBSET Kind
    OBVIOUS
  <2> HIDE DEF dropped
  <2>2. most \in Kind
    BY <1>2, <2>1, MostFacts
  <2>3. c.parts[most] \in Seq(Group)
    BY <2>2 DEF Cohort
  <2>4. I \in SUBSET (DOMAIN c.parts[most])
    OBVIOUS
  <2> HIDE DEF most, I
  <2> QED
    BY <2>3, <2>4, Numbers
<1> HIDE DEF dropped, I
<1> QED
  BY <1>1, <1>2

LEMMA AlignedCohortFacts ==
    ASSUME NEW c \in Cohort, NEW s \in Seq(Kind), NEW borrowed, NEW mayRemove
    PROVE  LET d == AlignedCohort(c, s, borrowed, mayRemove) IN
           d \in Cohort /\ d.held = c.held /\ d.hosts = c.hosts /\ d.wished = c.wished
<1> DEFINE d == AlignedCohort(c, s, borrowed, mayRemove)
           kept(k) == {i \in DOMAIN c.parts[k] : Stays(c.parts[k][i], mayRemove)}
           new(k) ==
                CASE Entries(s, k) = 0 -> Chosen(c.parts[k], kept(k))
                  [] Entries(s, k) > 0 /\ c.parts[k] # <<>> ->
                        [i \in DOMAIN c.parts[k] |-> Aligned(c.parts[k][i], Entries(s, k))]
                  [] Entries(s, k) > 0 /\ c.parts[k] = <<>> /\ k \in borrowed -> <<>>
                  [] OTHER -> [i \in 1 .. Lacking(c, s, mayRemove, k) |-> Part(Entries(s, k) - 1)]
<1>1. d = [c EXCEPT !.parts = [k \in Kind |-> new(k)]]
  BY DEF AlignedCohort, Cohort
<1>2. ASSUME NEW k \in Kind PROVE new(k) \in Seq(Group)
  <2>1. c.parts[k] \in Seq(Group) /\ Entries(s, k) \in Nat
    BY OwnGroupsType, SplitFacts
  <2>2. CASE Entries(s, k) = 0
    <3>1. kept(k) \in SUBSET (DOMAIN c.parts[k])
      OBVIOUS
    <3>2. new(k) = Chosen(c.parts[k], kept(k))
      BY <2>2
    <3> HIDE DEF kept, new
    <3> QED
      BY <2>1, <3>1, <3>2, ChosenFacts
  <2>3. CASE Entries(s, k) > 0 /\ c.parts[k] # <<>>
    <3>1. new(k) = [i \in DOMAIN c.parts[k] |-> Aligned(c.parts[k][i], Entries(s, k))]
      BY <2>3
    <3>2. ASSUME NEW g \in Group PROVE Aligned(g, Entries(s, k)) \in Group
      BY <2>1, <2>3 DEF Aligned, Group
    <3> HIDE DEF new
    <3> QED
      BY <2>1, <3>1, <3>2
  <2>4. CASE Entries(s, k) > 0 /\ c.parts[k] = <<>> /\ k \in borrowed
    BY <2>4
  <2>5. CASE Entries(s, k) > 0 /\ c.parts[k] = <<>> /\ k \notin borrowed
    <3>1. new(k) = [i \in 1 .. Lacking(c, s, mayRemove, k) |-> Part(Entries(s, k) - 1)]
      BY <2>5
    <3>2. Part(Entries(s, k) - 1) \in Group
      <4>1. Entries(s, k) - 1 \in Nat
        BY <2>1, <2>5
      <4> QED
        BY <4>1, PartType
    <3>3. Lacking(c, s, mayRemove, k) \in Nat
      BY LackingType
    <3> HIDE DEF new
    <3> QED
      BY <3>1, <3>2, <3>3
  <2> QED
    BY <2>1, <2>2, <2>3, <2>4, <2>5
<1> HIDE DEF new, d
<1>3. d \in Cohort /\ d.held = c.held /\ d.hosts = c.hosts /\ d.wished = c.wished
  BY <1>1, <1>2 DEF Cohort
<1> QED
  BY <1>3 DEF d

\* A kind without parallel groups has no more parts than before, or the one it
\* lacked and nobody shares with the cohort.
LEMMA AlignedPart ==
    ASSUME NEW c \in Cohort, NEW s \in Seq(Kind), NEW borrowed, NEW mayRemove,
           NEW k \in Kind, k # Practical(s)
    PROVE  LET p == c.parts[k]
               q == AlignedCohort(c, s, borrowed, mayRemove).parts[k]
           IN  /\ Len(q) <= Len(p) \/ (p = <<>> /\ k \notin borrowed /\ Len(q) = 1)
               /\ (\E i \in DOMAIN q : q[i].shared) => \E i \in DOMAIN p : p[i].shared
<1> DEFINE p == c.parts[k]
           q == AlignedCohort(c, s, borrowed, mayRemove).parts[k]
           n == Entries(s, k)
           kept == {i \in DOMAIN p : Stays(p[i], mayRemove)}
<1>1. /\ n = 0 => q = Chosen(p, kept)
      /\ n > 0 /\ p # <<>> => q = [i \in DOMAIN p |-> Aligned(p[i], n)]
      /\ n > 0 /\ p = <<>> /\ k \in borrowed => q = <<>>
      /\ n > 0 /\ p = <<>> /\ k \notin borrowed =>
            q = [i \in 1 .. Lacking(c, s, mayRemove, k) |-> Part(n - 1)]
  BY DEF AlignedCohort, Cohort
<1>2. p \in Seq(Group) /\ n \in Nat
  BY OwnGroupsType, SplitFacts
<1>3. CASE n = 0
  <2>1. kept \in SUBSET (DOMAIN p) /\ q = Chosen(p, kept)
    BY <1>1, <1>3
  <2>2. DOMAIN p = 1 .. Len(p) /\ Len(p) \in Nat
    BY <1>2
  <2>3. \A m \in Nat : IsFiniteSet(1 .. m) /\ Cardinality(1 .. m) = m
    <3> SUFFICES ASSUME NEW m \in Nat PROVE IsFiniteSet(1 .. m) /\ Cardinality(1 .. m) = m
      OBVIOUS
    <3>1. IsFiniteSet(1 .. m) /\ Cardinality(1 .. m) = IF 1 > m THEN 0 ELSE m - 1 + 1
      BY FS_Interval
    <3> QED
      BY <3>1
  <2> HIDE DEF p, q, kept, n
  <2>4. IsFiniteSet(DOMAIN p) /\ Cardinality(DOMAIN p) = Len(p)
    BY <2>2, <2>3
  <2>5. Cardinality(kept) <= Len(p)
    BY <2>1, <2>4, FS_Subset
  <2>6. /\ Len(q) = Cardinality(kept) /\ DOMAIN q = 1 .. Cardinality(kept)
        /\ \A r \in 1 .. Cardinality(kept) :
            Nth(kept, r - 1) \in kept /\ q[r] = p[Nth(kept, r - 1)]
    BY <1>2, <2>1, ChosenFacts
  <2>7. \A r \in DOMAIN q : \E i \in DOMAIN p : q[r] = p[i]
    BY <2>1, <2>6
  <2>8. Len(q) <= Len(p) /\ ((\E i \in DOMAIN q : q[i].shared) => \E i \in DOMAIN p : p[i].shared)
    BY <2>5, <2>6, <2>7
  <2> QED
    BY <2>8 DEF p, q
<1>4. CASE n > 0 /\ p # <<>>
  <2>1. q = [i \in DOMAIN p |-> Aligned(p[i], n)]
    BY <1>1, <1>4
  <2>2. ASSUME NEW g \in Group PROVE Aligned(g, n).shared = g.shared
    BY DEF Aligned, Group
  <2> HIDE DEF p, q, n
  <2>3. /\ Len(q) = Len(p) /\ Len(p) \in Nat /\ DOMAIN q = DOMAIN p
        /\ \A i \in DOMAIN p : q[i].shared = p[i].shared
    BY <1>2, <2>1, <2>2
  <2>4. Len(q) <= Len(p) /\ ((\E i \in DOMAIN q : q[i].shared) => \E i \in DOMAIN p : p[i].shared)
    BY <2>3
  <2> QED
    BY <2>4 DEF p, q
<1>5. CASE n > 0 /\ p = <<>> /\ k \in borrowed
  BY <1>1, <1>5
<1>6. CASE n > 0 /\ p = <<>> /\ k \notin borrowed
  <2>1. q = [i \in 1 .. 1 |-> Part(n - 1)]
    BY <1>1, <1>6, LackingType
  <2> HIDE DEF q, n
  <2>2. q = <<Part(n - 1)>>
    BY <2>1
  <2>3. Len(q) = 1 /\ ~ \E i \in DOMAIN q : q[i].shared
    BY <2>2 DEF Part
  <2> QED
    BY <1>6, <2>3 DEF q
<1> QED
  BY <1>2, <1>3, <1>4, <1>5, <1>6

LEMMA AppliedFacts ==
    ASSUME NEW cs, WellFormed(cs), NEW s \in Seq(Kind), NEW mayRemove
    PROVE  LET new == Applied(cs, s, mayRemove) IN
           /\ WellFormed(new) /\ DOMAIN new = DOMAIN cs
           /\ \A l \in DOMAIN cs :
                /\ new[l].held = cs[l].held
                /\ new[l] = IF cs[l].held = "covered" THEN cs[l]
                            ELSE AlignedCohort(cs[l], s, Borrowed(cs, l), mayRemove)
<1> DEFINE new == Applied(cs, s, mayRemove)
<1>1. new = [l \in DOMAIN cs |-> IF cs[l].held = "covered" THEN cs[l]
                               ELSE AlignedCohort(cs[l], s, Borrowed(cs, l), mayRemove)]
  BY DEF Applied
<1> HIDE DEF new
<1>2. ASSUME NEW l \in DOMAIN cs
      PROVE  /\ new[l] \in Cohort /\ new[l].held = cs[l].held /\ new[l].hosts = cs[l].hosts
             /\ cs[l].held = "covered" => new[l] = cs[l]
  <2>1. cs[l] \in Cohort
    BY DEF WellFormed
  <2> QED
    BY <1>1, <2>1, AlignedCohortFacts
<1>3. new \in [DOMAIN cs -> Cohort] /\ DOMAIN new = DOMAIN cs
  BY <1>1, <1>2
<1>4. WellFormed(new)
  BY <1>2, <1>3 DEF WellFormed
<1> QED
  BY <1>1, <1>2, <1>3, <1>4 DEF new

-----------------------------------------------------------------------------
(* The operations.                                                         *)

\* Wishes change nothing else.
LEMMA ConvertedFacts ==
    ASSUME NEW cs, WellFormed(cs), NEW advance
    PROVE  LET new == Converted(cs, advance) IN
           /\ WellFormed(new) /\ DOMAIN new = DOMAIN cs
           /\ \A l \in DOMAIN cs : new[l].held = cs[l].held /\ new[l].parts = cs[l].parts
<1> DEFINE new == Converted(cs, advance)
           wish(c) == [c EXCEPT !.wished = TRUE]
<1>1. \A l \in DOMAIN cs : new[l] = cs[l] \/ new[l] = wish(cs[l])
  BY DEF Converted
<1>2. DOMAIN new = DOMAIN cs /\ new = [l \in DOMAIN cs |-> new[l]]
  BY DEF Converted
<1>3. ASSUME NEW c \in Cohort
      PROVE  /\ wish(c) \in Cohort
             /\ wish(c).held = c.held /\ wish(c).hosts = c.hosts /\ wish(c).parts = c.parts
  BY DEF Cohort
<1>4. \A l \in DOMAIN cs : cs[l] \in Cohort
  BY DEF WellFormed
<1> HIDE DEF new, wish
<1>5. \A l \in DOMAIN cs :
        /\ new[l] \in Cohort
        /\ new[l].held = cs[l].held /\ new[l].hosts = cs[l].hosts /\ new[l].parts = cs[l].parts
  BY <1>1, <1>3, <1>4
<1>6. new \in [DOMAIN cs -> Cohort]
  BY <1>2, <1>5
<1>7. WellFormed(new)
  BY <1>2, <1>5, <1>6 DEF WellFormed
<1> QED
  BY <1>2, <1>5, <1>7 DEF new

LEMMA CopiedPartsFacts ==
    ASSUME NEW parts \in [Kind -> Seq(Group)]
    PROVE  /\ CopiedParts(parts) \in [Kind -> Seq(Group)]
           /\ \A k \in Kind :
                /\ DOMAIN CopiedParts(parts)[k] = DOMAIN parts[k]
                /\ Len(CopiedParts(parts)[k]) = Len(parts[k])
                /\ \A i \in DOMAIN parts[k] :
                    CopiedParts(parts)[k][i].shared = parts[k][i].shared
<1> DEFINE free(g) == [g EXCEPT !.use = IF @ = "held" THEN "free" ELSE @]
<1>1. ASSUME NEW g \in Group PROVE free(g) \in Group /\ free(g).shared = g.shared
  BY DEF Group
<1>2. CopiedParts(parts) = [k \in Kind |-> [i \in DOMAIN parts[k] |-> free(parts[k][i])]]
  BY DEF CopiedParts
<1> HIDE DEF free
<1>3. ASSUME NEW k \in Kind
      PROVE  LET q == [i \in DOMAIN parts[k] |-> free(parts[k][i])] IN
             /\ q \in Seq(Group) /\ DOMAIN q = DOMAIN parts[k] /\ Len(q) = Len(parts[k])
             /\ \A i \in DOMAIN parts[k] : q[i].shared = parts[k][i].shared
  <2>1. parts[k] \in Seq(Group) /\ DOMAIN parts[k] = 1 .. Len(parts[k]) /\ Len(parts[k]) \in Nat
    OBVIOUS
  <2>2. \A i \in 1 .. Len(parts[k]) : free(parts[k][i]) \in Group
    BY <1>1, <2>1
  <2> QED
    BY <1>1, <2>1, <2>2
<1> QED
  BY <1>2, <1>3

\* A cohort is added that is nobody's guest or the only one.
LEMMA JoinedFacts ==
    ASSUME NEW cs, WellFormed(cs), NEW l, l \notin DOMAIN cs, NEW c \in Cohort,
           c.held = "covered" => c.parts = NoParts, ~c.hosts,
           c.held = "self" \/ \A m \in DOMAIN cs : cs[m].held = "self"
    PROVE  WellFormed(Joined(cs, l, c)) /\ DOMAIN Joined(cs, l, c) = DOMAIN cs \cup {l}
<1>1. IsFiniteSet(DOMAIN cs \cup {l})
  BY FS_AddElement DEF WellFormed
<1> QED
  BY <1>1 DEF WellFormed, Joined

LEMMA RenameFacts ==
    ASSUME NEW cs, WellFormed(cs), NEW l \in DOMAIN cs, NEW m, m \notin DOMAIN cs \ {l}
    PROVE  /\ WellFormed(Rename(cs, l, m))
           /\ DOMAIN Rename(cs, l, m) = (DOMAIN cs \ {l}) \cup {m}
<1> DEFINE D == (DOMAIN cs \ {l}) \cup {m}
           g == [n \in D |-> IF n = m THEN l ELSE n]
<1>1. IsFiniteSet(D)
  <2>1. IsFiniteSet(DOMAIN cs \ {l})
    BY FS_RemoveElement DEF WellFormed
  <2> QED
    BY <2>1, FS_AddElement
<1>2. g \in [D -> DOMAIN cs] /\ \A x, y \in D : g[x] = g[y] => x = y
  OBVIOUS
<1>3. Rename(cs, l, m) = [n \in D |-> cs[g[n]]]
  BY DEF Rename
<1>4. WellFormed(Rename(cs, l, m))
  <2> HIDE DEF D, g
  <2> QED
    BY <1>1, <1>2, <1>3, Reindexed
<1>5. DOMAIN Rename(cs, l, m) = D
  BY <1>3
<1> QED
  BY <1>4, <1>5

-----------------------------------------------------------------------------
(* The lecture.                                                            *)

\* Nobody has two lectures, or one beside a sibling who holds it for all.
Lectures(cs, l) == Len(cs[l].parts[Lecture])
Once(cs) ==
    \A l \in DOMAIN cs :
        /\ Lectures(cs, l) <= 1
        /\ \A m \in DOMAIN cs \ {l} : Shares(cs[m], Lecture) => Lectures(cs, l) = 0

LEMMA LecturesFacts ==
    ASSUME NEW cs, WellFormed(cs), NEW l \in DOMAIN cs
    PROVE  /\ cs[l].parts[Lecture] \in Seq(Group)
           /\ Lectures(cs, l) \in Nat
           /\ Lectures(cs, l) = 0 <=> cs[l].parts[Lecture] = <<>>
           /\ Shares(cs[l], Lecture) => Lectures(cs, l) # 0
<1>1. cs[l].parts[Lecture] \in Seq(Group)
  BY KindFacts, OwnGroupsType DEF WellFormed
<1> QED
  BY <1>1 DEF Lectures, Shares

LEMMA AttendedOnceIsOnce ==
    ASSUME NEW cs, WellFormed(cs)
    PROVE  AttendedOnce(cs) <=> Once(cs)
<1> DEFINE sharers(l) == {m \in DOMAIN cs \ {l} : Shares(cs[m], Lecture)}
<1>1. ASSUME NEW l \in DOMAIN cs
      PROVE  /\ IsFiniteSet(sharers(l)) /\ Cardinality(sharers(l)) \in Nat
             /\ (Cardinality(sharers(l)) = 0 <=> sharers(l) = {})
             /\ (Cardinality(sharers(l)) = 1 <=> \E m : sharers(l) = {m})
  <2>1. sharers(l) \in SUBSET (DOMAIN cs) /\ IsFiniteSet(DOMAIN cs)
    BY DEF WellFormed
  <2> HIDE DEF sharers
  <2>2. IsFiniteSet(sharers(l))
    BY <2>1, FS_Subset
  <2> QED
    BY <2>2, FS_CardinalityType, FS_EmptySet, FS_Singleton
<1>2. \A l \in DOMAIN cs : Attended(cs, l) = Lectures(cs, l) + Cardinality(sharers(l))
  BY DEF Attended, Lectures
<1>3. \A l \in DOMAIN cs : Lectures(cs, l) \in Nat
  BY LecturesFacts
<1>4. ASSUME AttendedOnce(cs) PROVE Once(cs)
  <2> SUFFICES ASSUME NEW l \in DOMAIN cs
               PROVE  /\ Lectures(cs, l) <= 1
                      /\ sharers(l) # {} => Lectures(cs, l) = 0
    BY DEF Once
  <2>1. Lectures(cs, l) + Cardinality(sharers(l)) <= 1
    BY <1>2, <1>4 DEF AttendedOnce
  <2> HIDE DEF sharers
  <2> QED
    BY <1>1, <1>3, <2>1
<1>5. ASSUME Once(cs) PROVE AttendedOnce(cs)
  <2> SUFFICES ASSUME NEW l \in DOMAIN cs
               PROVE  Lectures(cs, l) + Cardinality(sharers(l)) <= 1
    BY <1>2 DEF AttendedOnce
  <2>1. CASE sharers(l) = {}
    <3>1. Lectures(cs, l) <= 1
      BY <1>5 DEF Once
    <3> HIDE DEF sharers
    <3> QED
      BY <1>1, <1>3, <2>1, <3>1
  <2>2. ASSUME NEW m \in sharers(l) PROVE Lectures(cs, l) + Cardinality(sharers(l)) <= 1
    <3>1. Lectures(cs, l) = 0
      BY <1>5, <2>2 DEF Once
    <3>2. \A n \in sharers(l) : n = m
      <4> SUFFICES ASSUME NEW n \in DOMAIN cs, n # m, Shares(cs[n], Lecture), Shares(cs[m], Lecture),
                          m \in DOMAIN cs
                   PROVE  FALSE
        BY <2>2
      <4>1. Lectures(cs, n) # 0
        BY LecturesFacts
      <4> QED
        BY <1>5, <4>1 DEF Once
    <3>3. sharers(l) = {m}
      BY <2>2, <3>2
    <3>4. Cardinality(sharers(l)) = 1
      BY ONLY <3>3, FS_Singleton
    <3> QED
      BY ONLY <3>1, <3>4
  <2> QED
    BY <2>1, <2>2
<1> QED
  BY <1>4, <1>5

\* Cohorts that come from others with no more lectures, none newly shared.
LEMMA FewerLectures ==
    ASSUME NEW cs, WellFormed(cs), Once(cs), NEW ds, WellFormed(ds),
           NEW g \in [DOMAIN ds -> DOMAIN cs], \A l, m \in DOMAIN ds : g[l] = g[m] => l = m,
           \A l \in DOMAIN ds : /\ Lectures(ds, l) <= Lectures(cs, g[l])
                                /\ Shares(ds[l], Lecture) => Shares(cs[g[l]], Lecture)
    PROVE  Once(ds)
<1> SUFFICES ASSUME NEW l \in DOMAIN ds
             PROVE  /\ Lectures(ds, l) <= 1
                    /\ \A m \in DOMAIN ds \ {l} : Shares(ds[m], Lecture) => Lectures(ds, l) = 0
  BY DEF Once
<1>1. Lectures(ds, l) \in Nat /\ Lectures(cs, g[l]) \in Nat
  BY LecturesFacts
<1>2. Lectures(cs, g[l]) <= 1
  BY DEF Once
<1>3. ASSUME NEW m \in DOMAIN ds \ {l}, Shares(ds[m], Lecture) PROVE Lectures(ds, l) = 0
  <2>1. g[m] \in DOMAIN cs \ {g[l]} /\ Shares(cs[g[m]], Lecture)
    BY <1>3
  <2>2. Lectures(cs, g[l]) = 0
    BY <2>1 DEF Once
  <2> QED
    BY <1>1, <2>2
<1> QED
  BY <1>1, <1>2, <1>3

\* Each stays where it is.
LEMMA FewerLecturesInPlace ==
    ASSUME NEW cs, WellFormed(cs), Once(cs), NEW ds, WellFormed(ds),
           DOMAIN ds \subseteq DOMAIN cs,
           \A l \in DOMAIN ds : /\ Lectures(ds, l) <= Lectures(cs, l)
                                /\ Shares(ds[l], Lecture) => Shares(cs[l], Lecture)
    PROVE  Once(ds)
<1> DEFINE g == [l \in DOMAIN ds |-> l]
<1>1. g \in [DOMAIN ds -> DOMAIN cs] /\ \A l \in DOMAIN ds : g[l] = l
  OBVIOUS
<1> HIDE DEF g
<1> QED
  BY <1>1, FewerLectures

LEMMA SameParts ==
    ASSUME NEW cs, NEW ds, NEW l, NEW m, ds[l].parts[Lecture] = cs[m].parts[Lecture]
    PROVE  /\ Lectures(ds, l) = Lectures(cs, m)
           /\ Shares(ds[l], Lecture) <=> Shares(cs[m], Lecture)
BY DEF Lectures, Shares

\* A withdrawal hands the lecture back where nobody else holds it.
LEMMA WithdrawnOnce ==
    ASSUME NEW cs, WellFormed(cs), DOMAIN cs \subseteq Nat, Once(cs),
           NEW l \in DOMAIN cs, NEW keep
    PROVE  LET less == Withdrawn(cs, l, keep) IN
           /\ Once(less)
           /\ \A m \in DOMAIN less : Shares(less[m], Lecture) => Shares(cs[m], Lecture)
<1> DEFINE less == Withdrawn(cs, l, keep)
           kept == Promoted(cs, l)
<1>1. CASE less = cs
  BY <1>1
<1>2. CASE /\ WellFormed(less) /\ DOMAIN less = DOMAIN cs \ {l}
           /\ \A m \in DOMAIN less : less[m].parts = kept[m].parts
  <2> HIDE DEF less
  <2>1. CASE ~cs[l].hosts
    <3>1. \A m \in DOMAIN less : less[m].parts = cs[m].parts
      BY <1>2, <2>1, PromotedFacts
    <3>2. \A m \in DOMAIN less : /\ Lectures(less, m) = Lectures(cs, m)
                                 /\ Shares(less[m], Lecture) => Shares(cs[m], Lecture)
      BY <3>1, SameParts
    <3>3. \A m \in DOMAIN less : Lectures(less, m) <= Lectures(cs, m)
      BY <1>2, <3>2, LecturesFacts
    <3> QED
      BY <1>2, <3>2, <3>3, FewerLecturesInPlace DEF less
  <2>2. CASE cs[l].hosts
    <3>1. \A m \in DOMAIN less : less[m].parts[Lecture] =
            IF cs[m].held # "covered" /\ Shares(cs[l], Lecture) /\ cs[m].parts[Lecture] = <<>>
            THEN <<Part(0)>> ELSE cs[m].parts[Lecture]
      <4>1. \A m \in DOMAIN cs \ {l}, k \in Kind : kept[m].parts[k] =
                IF cs[m].held # "covered" /\ Shares(cs[l], k) /\ cs[m].parts[k] = <<>>
                THEN <<Part(0)>> ELSE cs[m].parts[k]
        BY <2>2, PromotedFacts
      <4> HIDE DEF kept
      <4> QED
        BY <1>2, <4>1, KindFacts
    <3>2. ASSUME NEW m \in DOMAIN less
          PROVE  /\ Shares(less[m], Lecture) => Shares(cs[m], Lecture)
                 /\ Lectures(less, m) <= 1
                 /\ Lectures(less, m) # 0 => Lectures(cs, m) # 0 \/ Shares(cs[l], Lecture)
      <4>1. m \in DOMAIN cs /\ Lectures(cs, m) \in Nat /\ Lectures(cs, m) <= 1
        BY <1>2, LecturesFacts DEF Once
      <4>2. CASE less[m].parts[Lecture] = cs[m].parts[Lecture]
        BY <4>1, <4>2, SameParts
      <4>3. CASE Shares(cs[l], Lecture) /\ less[m].parts[Lecture] = <<Part(0)>>
        BY <4>3 DEF Shares, Lectures, Part
      <4> QED
        BY <3>1, <4>2, <4>3
    <3>3. ASSUME NEW m \in DOMAIN less, NEW n \in DOMAIN less \ {m}, Shares(less[n], Lecture)
          PROVE  Lectures(less, m) = 0
      <4>1. /\ m \in DOMAIN cs /\ n \in DOMAIN cs /\ n # m /\ l # n
            /\ Shares(cs[n], Lecture)
        BY <1>2, <3>2, <3>3
      <4>2. Lectures(cs, m) = 0
        BY <4>1 DEF Once
      <4>3. ~Shares(cs[l], Lecture)
        BY <4>1, LecturesFacts DEF Once
      <4> QED
        BY <3>2, <4>2, <4>3
    <3> QED
      BY <3>2, <3>3 DEF Once, less
  <2> QED
    BY <2>1, <2>2
<1>3. \/ less = cs
      \/ /\ WellFormed(less) /\ DOMAIN less = DOMAIN cs \ {l}
         /\ \A m \in DOMAIN less : less[m].parts = kept[m].parts
  <2>1. \/ less = cs
        \/ WellFormed(less) /\ DOMAIN less = DOMAIN cs \ {l} /\ TakenAway(cs, l, less)
    BY WithdrawnFacts
  <2> HIDE DEF less
  <2> QED
    BY <2>1 DEF TakenAway
<1> QED
  BY <1>1, <1>2, <1>3

LEMMA AfterRenamesOnce ==
    ASSUME NEW cs, WellFormed(cs), DOMAIN cs \subseteq Nat, Once(cs), NEW want, Screen(want)
    PROVE  LET renamed == AfterRenames(cs, want) IN
           /\ Once(renamed)
           /\ \A l \in DOMAIN renamed : Shares(renamed[l], Lecture) =>
                \E m \in DOMAIN cs : Shares(cs[m], Lecture)
<1> DEFINE less == AfterLeaving(cs, want)
           renamed == AfterRenames(cs, want)
           Q == {ds \in Subsets(cs) : WellFormed(ds) /\ DOMAIN ds \subseteq DOMAIN cs =>
                    /\ Once(ds)
                    /\ \A m \in DOMAIN ds : Shares(ds[m], Lecture) => Shares(cs[m], Lecture)}
<1>1. Once(less) /\ \A m \in DOMAIN less : Shares(less[m], Lecture) => Shares(cs[m], Lecture)
  <2>1. cs \in Q
    BY InSubsets
  <2>2. ASSUME NEW ds \in Q, NEW l \in Leaving(cs, want),
               WellFormed(ds), DOMAIN ds \subseteq DOMAIN cs, l \in DOMAIN ds
        PROVE  Withdrawn(ds, l, want # <<>>) \in Q
    <3> DEFINE new == Withdrawn(ds, l, want # <<>>)
    <3>1. Once(ds) /\ \A m \in DOMAIN ds : Shares(ds[m], Lecture) => Shares(cs[m], Lecture)
      BY <2>2
    <3>2. DOMAIN ds \subseteq Nat
      BY <2>2
    <3> HIDE DEF Q
    <3>3. new = ds \/ (WellFormed(new) /\ DOMAIN new = DOMAIN ds \ {l})
      BY <2>2, <3>2, WithdrawnFacts
    <3>4. Once(new) /\ \A m \in DOMAIN new : Shares(new[m], Lecture) => Shares(ds[m], Lecture)
      BY <2>2, <3>1, <3>2, WithdrawnOnce
    <3> HIDE DEF new
    <3>5. WellFormed(new) /\ DOMAIN new \subseteq DOMAIN cs /\ DOMAIN new \subseteq DOMAIN ds
      BY <2>2, <3>3
    <3>6. new \in Subsets(cs)
      BY <3>5, InSubsets
    <3>7. \A m \in DOMAIN new : Shares(new[m], Lecture) => Shares(cs[m], Lecture)
      BY <3>1, <3>4, <3>5
    <3>8. new \in Q
      BY <3>4, <3>6, <3>7 DEF Q
    <3> QED
      BY <3>8 DEF new
  <2> HIDE DEF Q
  <2>3. less \in Q /\ WellFormed(less) /\ DOMAIN less \subseteq DOMAIN cs
    BY <2>1, <2>2, LeavingInduction
  <2> HIDE DEF less
  <2> QED
    BY <2>3 DEF Q
<1>2. WellFormed(less) /\ DOMAIN less \subseteq DOMAIN cs
  BY AfterLeavingFacts
<1>3. /\ WellFormed(renamed)
      /\ \A l \in DOMAIN renamed :
            Before(cs, want, l) \in DOMAIN less /\ renamed[l] = less[Before(cs, want, l)]
      /\ \A l, m \in DOMAIN renamed : Before(cs, want, l) = Before(cs, want, m) => l = m
  BY AfterRenamesFacts
<1> HIDE DEF less, renamed
<1> DEFINE g == [l \in DOMAIN renamed |-> Before(cs, want, l)]
<1>4. g \in [DOMAIN renamed -> DOMAIN less] /\ \A l \in DOMAIN renamed : g[l] = Before(cs, want, l)
  BY <1>3
<1> HIDE DEF g
<1>5. \A l \in DOMAIN renamed : /\ Lectures(renamed, l) <= Lectures(less, g[l])
                                /\ Shares(renamed[l], Lecture) => Shares(less[g[l]], Lecture)
  <2> SUFFICES ASSUME NEW l \in DOMAIN renamed
               PROVE  /\ Lectures(renamed, l) <= Lectures(less, g[l])
                      /\ Shares(renamed[l], Lecture) => Shares(less[g[l]], Lecture)
    OBVIOUS
  <2>1. g[l] \in DOMAIN less /\ renamed[l] = less[g[l]]
    BY <1>3, <1>4
  <2>2. Lectures(renamed, l) = Lectures(less, g[l]) /\ Lectures(less, g[l]) \in Nat
    BY <1>2, <2>1, SameParts, LecturesFacts
  <2> QED
    BY <2>1, <2>2
<1>6. Once(renamed)
  BY <1>1, <1>2, <1>3, <1>4, <1>5, FewerLectures
<1> QED
  BY <1>1, <1>2, <1>4, <1>5, <1>6 DEF renamed

\* What is made from the split has the lecture once, for itself.
LEMMA SplitLectures ==
    ASSUME NEW s \in Seq(Kind), NEW skip, NEW c, c.parts = PartsFromSplit(s, skip)
    PROVE  /\ Len(c.parts[Lecture]) \in {0, 1} /\ ~Shares(c, Lecture)
           /\ Lecture \in skip => Len(c.parts[Lecture]) = 0
<1>1. \/ c.parts[Lecture] = <<>>
      \/ Lecture \notin skip /\ c.parts[Lecture] = <<Part(Entries(s, Lecture) - 1)>>
  BY KindFacts DEF PartsFromSplit
<1>2. CASE c.parts[Lecture] = <<>>
  BY <1>2 DEF Shares
<1>3. ASSUME NEW g, g = Part(Entries(s, Lecture) - 1), Lecture \notin skip,
             c.parts[Lecture] = <<g>>
      PROVE  Len(c.parts[Lecture]) = 1 /\ ~Shares(c, Lecture)
  <2>1. ~g.shared
    BY <1>3 DEF Part
  <2> QED
    BY <1>3, <2>1 DEF Shares
<1> QED
  BY <1>1, <1>2, <1>3

\* A cohort that is declared beside others who hold the lecture for all has none.
LEMMA AfterCreatingOnce ==
    ASSUME NEW cs, WellFormed(cs), DOMAIN cs \subseteq Nat, Once(cs), NEW s \in Seq(Kind),
           NEW want, Screen(want), NEW host
    PROVE  Once(AfterCreating(cs, s, want, host))
<1> DEFINE renamed == AfterRenames(cs, want)
           more == AfterCreating(cs, s, want, host)
           M == Missing(cs, s, want)
<1>1. /\ Once(renamed) /\ WellFormed(renamed)
      /\ \A l \in DOMAIN renamed : Shares(renamed[l], Lecture) =>
            \E m \in DOMAIN cs : Shares(cs[m], Lecture)
  BY AfterRenamesOnce, AfterRenamesFacts
<1>2. /\ WellFormed(more)
      /\ DOMAIN more = DOMAIN renamed \cup M
      /\ \A l \in DOMAIN renamed : more[l] = renamed[l]
  <2>1. WellFormed(more)
    BY AfterCreatingFacts
  <2>2. DOMAIN more = DOMAIN renamed \cup M
    BY AfterCreatingFacts
  <2>3. \A l \in DOMAIN renamed : more[l] = renamed[l]
    BY AfterCreatingValues
  <2> QED
    BY <2>1, <2>2, <2>3
<1>3. (\E m \in DOMAIN cs : Shares(cs[m], Lecture)) => Lecture \in SharedKinds(cs)
  <2> SUFFICES ASSUME NEW m \in DOMAIN cs, Shares(cs[m], Lecture)
               PROVE  cs[m].held # "covered"
    BY KindFacts DEF SharedKinds
  <2>1. cs[m].parts # NoParts
    BY KindFacts, NoPartsType DEF Shares
  <2> QED
    BY <2>1 DEF WellFormed
<1>4. ASSUME NEW l \in M
      PROVE  /\ Lectures(more, l) \in {0, 1} /\ ~Shares(more[l], Lecture)
             /\ Lecture \in SharedKinds(cs) => Lectures(more, l) = 0
  <2>1. \/ more[l] = NewCohort("covered", NoParts)
        \/ more[l] = NewCohort("self", PartsFromSplit(s, SharedKinds(cs)))
    BY AfterCreatingValues
  <2> HIDE DEF more
  <2>2. CASE more[l] = NewCohort("covered", NoParts)
    <3>1. more[l].parts[Lecture] = <<>>
      BY <2>2, KindFacts, NoPartsType DEF NewCohort
    <3> QED
      BY <3>1 DEF Lectures, Shares
  <2>3. CASE more[l] = NewCohort("self", PartsFromSplit(s, SharedKinds(cs)))
    <3>1. more[l].parts = PartsFromSplit(s, SharedKinds(cs))
      BY <2>3 DEF NewCohort
    <3> QED
      BY <3>1, SplitLectures DEF Lectures
  <2> QED
    BY <2>1, <2>2, <2>3
<1> HIDE DEF renamed, more, M
<1>5. ASSUME NEW l \in DOMAIN renamed
      PROVE  Lectures(more, l) = Lectures(renamed, l)
  BY <1>2 DEF Lectures
<1>6. ASSUME NEW l \in DOMAIN more PROVE Lectures(more, l) <= 1
  BY <1>1, <1>2, <1>4, <1>5 DEF Once
<1>7. ASSUME NEW l \in DOMAIN more, NEW m \in DOMAIN more \ {l}, Shares(more[m], Lecture)
      PROVE  Lectures(more, l) = 0
  <2>1. m \in DOMAIN renamed /\ Shares(renamed[m], Lecture)
    BY <1>2, <1>4, <1>7
  <2>2. Lecture \in SharedKinds(cs)
    BY <1>1, <1>3, <2>1
  <2> QED
    BY <1>1, <1>2, <1>4, <1>5, <1>7, <2>1, <2>2 DEF Once
<1> QED
  BY <1>6, <1>7 DEF Once, more

LEMMA PlannedOnce ==
    ASSUME NEW cs, WellFormed(cs), DOMAIN cs \subseteq Nat, Once(cs), NEW s \in Seq(Kind),
           NEW want, Screen(want), NEW host
    PROVE  Once(Planned(cs, s, want, host))
<1> DEFINE more == AfterCreating(cs, s, want, host)
           plan == Planned(cs, s, want, host)
<1>1. WellFormed(more) /\ Once(more)
  BY AfterCreatingFacts, AfterCreatingOnce
<1>2. WellFormed(plan) /\ DOMAIN plan = DOMAIN more
  BY PlannedFacts
<1>3. \A l \in DOMAIN more, k \in Kind \ {Practical(s)} : plan[l].parts[k] = more[l].parts[k]
  BY PlannedFacts
<1>4. Lecture \in Kind \ {Practical(s)}
  BY KindFacts, SplitFacts
<1> HIDE DEF more, plan
<1>5. \A l \in DOMAIN plan : /\ Lectures(plan, l) = Lectures(more, l)
                             /\ Shares(plan[l], Lecture) => Shares(more[l], Lecture)
  BY <1>2, <1>3, <1>4, SameParts
<1>6. \A l \in DOMAIN plan : Lectures(plan, l) <= Lectures(more, l)
  BY <1>1, <1>2, <1>5, LecturesFacts
<1>7. Once(plan)
  BY <1>1, <1>2, <1>5, <1>6, FewerLecturesInPlace
<1> QED
  BY <1>7 DEF plan

\* Aligning gives a lecture only to who has none and nobody holds it for.
LEMMA AppliedOnce ==
    ASSUME NEW cs, WellFormed(cs), Once(cs), NEW s \in Seq(Kind), NEW mayRemove
    PROVE  Once(Applied(cs, s, mayRemove))
<1> DEFINE new == Applied(cs, s, mayRemove)
<1>1. /\ WellFormed(new) /\ DOMAIN new = DOMAIN cs
      /\ \A l \in DOMAIN cs : new[l] =
            IF cs[l].held = "covered" THEN cs[l]
            ELSE AlignedCohort(cs[l], s, Borrowed(cs, l), mayRemove)
  BY AppliedFacts
<1> HIDE DEF new
<1>2. ASSUME NEW l \in DOMAIN cs
      PROVE  /\ Lectures(new, l) <= 1
             /\ Shares(new[l], Lecture) => Shares(cs[l], Lecture)
             /\ Lectures(cs, l) = 0 /\ Lecture \in Borrowed(cs, l) => Lectures(new, l) = 0
  <2>1. /\ Lectures(cs, l) \in Nat /\ Lectures(new, l) \in Nat /\ Lectures(cs, l) <= 1
        /\ Lectures(cs, l) = 0 <=> cs[l].parts[Lecture] = <<>>
    BY <1>1, LecturesFacts DEF Once
  <2>2. CASE cs[l].held = "covered"
    BY <1>1, <2>1, <2>2, SameParts
  <2>3. CASE cs[l].held # "covered"
    <3> DEFINE p == cs[l].parts[Lecture]
               q == new[l].parts[Lecture]
    <3>1. cs[l] \in Cohort /\ Lecture \in Kind /\ Lecture # Practical(s)
      BY KindFacts, SplitFacts DEF WellFormed
    <3>2. new[l] = AlignedCohort(cs[l], s, Borrowed(cs, l), mayRemove)
      BY <1>1, <2>3
    <3>3. /\ Len(q) <= Len(p) \/ (p = <<>> /\ Lecture \notin Borrowed(cs, l) /\ Len(q) = 1)
          /\ (\E i \in DOMAIN q : q[i].shared) => \E i \in DOMAIN p : p[i].shared
      BY <3>1, <3>2, AlignedPart
    <3>4. Lectures(cs, l) = Len(p) /\ Lectures(new, l) = Len(q)
      BY DEF Lectures
    <3>5. /\ Shares(cs[l], Lecture) <=> \E i \in DOMAIN p : p[i].shared
          /\ Shares(new[l], Lecture) <=> \E i \in DOMAIN q : q[i].shared
      BY DEF Shares
    <3> HIDE DEF p, q
    <3> QED
      BY <2>1, <3>3, <3>4, <3>5
  <2> QED
    BY <2>2, <2>3
<1>3. ASSUME NEW l \in DOMAIN cs, NEW m \in DOMAIN cs \ {l}, Shares(new[m], Lecture)
      PROVE  Lectures(new, l) = 0
  <2>1. Shares(cs[m], Lecture)
    BY <1>2, <1>3
  <2>2. Lectures(cs, l) = 0
    BY <2>1 DEF Once
  <2>3. Lecture \in Borrowed(cs, l)
    BY <2>1, KindFacts DEF Borrowed
  <2> QED
    BY <1>2, <2>2, <2>3
<1> QED
  BY <1>1, <1>2, <1>3 DEF Once, new

-----------------------------------------------------------------------------
(* Every step.                                                             *)

\* What a step promises that is no declaration, release or copy.
Kept == DemandTypeOK' /\ (Once(cohorts) => Once(cohorts'))

LEMMA BecomesFacts ==
    ASSUME DemandTypeOK, NEW cs, WellFormed(cs), DOMAIN cs \subseteq Letter, Becomes(cs)
    PROVE  DemandTypeOK' /\ (Once(cs) => Once(cohorts'))
<1>1. cohorts' = cs /\ split' = split
  BY DEF Becomes
<1>2. WellFormed(cohorts') /\ DOMAIN cohorts' \subseteq Letter /\ split' \in Splits
  BY <1>1 DEF DemandTypeOK
<1> QED
  BY <1>1, <1>2 DEF DemandTypeOK

LEMMA ReceivesFacts ==
    ASSUME DemandTypeOK, NEW cs, WellFormed(cs), DOMAIN cs \subseteq Letter, Receives(cs)
    PROVE  DemandTypeOK' /\ (Once(cs) => Once(cohorts'))
<1>1. PICK advance \in BOOLEAN : Becomes(Converted(cs, advance))
  BY DEF Receives
<1> DEFINE new == Converted(cs, advance)
<1>2. /\ WellFormed(new) /\ DOMAIN new = DOMAIN cs
      /\ \A l \in DOMAIN cs : new[l].parts = cs[l].parts
  BY ConvertedFacts
<1> HIDE DEF new
<1>3. ASSUME Once(cs) PROVE Once(new)
  <2>1. \A l \in DOMAIN new : /\ Lectures(new, l) = Lectures(cs, l)
                              /\ Shares(new[l], Lecture) => Shares(cs[l], Lecture)
    BY <1>2, SameParts
  <2>2. \A l \in DOMAIN new : Lectures(new, l) <= Lectures(cs, l)
    BY <1>2, <2>1, LecturesFacts
  <2> QED
    BY <1>2, <1>3, <2>1, <2>2, FewerLecturesInPlace
<1>4. Becomes(new)
  BY <1>1 DEF new
<1> QED
  BY <1>2, <1>3, <1>4, BecomesFacts

LEMMA StateFacts ==
    ASSUME DemandTypeOK
    PROVE  /\ WellFormed(cohorts) /\ DOMAIN cohorts \subseteq Letter
           /\ DOMAIN cohorts \subseteq Nat /\ split \in Seq(Kind)
           /\ \A l \in DOMAIN cohorts : cohorts[l] \in Cohort
BY DemandAssumption DEF DemandTypeOK, WellFormed

\* One cohort is replaced by another that may be there.
LEMMA ReplacedFacts ==
    ASSUME NEW cs, WellFormed(cs), NEW l \in DOMAIN cs, NEW c \in Cohort,
           c.held = "covered" => c.parts = NoParts,
           c.held # "self" => /\ ~c.hosts
                              /\ \A m \in DOMAIN cs \ {l} : cs[m].held = "self"
    PROVE  LET new == [cs EXCEPT ![l] = c] IN
           /\ WellFormed(new) /\ DOMAIN new = DOMAIN cs
           /\ new[l] = c /\ \A m \in DOMAIN cs \ {l} : new[m] = cs[m]
BY DEF WellFormed

\* No more lectures, and none newly shared.
NoMore(c, d) ==
    /\ Len(c.parts[Lecture]) <= Len(d.parts[Lecture])
    /\ Shares(c, Lecture) => Shares(d, Lecture)

LEMMA SamePartsNoMore ==
    ASSUME NEW c, NEW d \in Cohort, c.parts[Lecture] = d.parts[Lecture]
    PROVE  NoMore(c, d)
<1>1. Len(d.parts[Lecture]) \in Nat
  BY KindFacts DEF Cohort
<1> QED
  BY <1>1 DEF NoMore, Shares

LEMMA ReplacedOnce ==
    ASSUME NEW cs, WellFormed(cs), Once(cs), NEW l \in DOMAIN cs, NEW new, WellFormed(new),
           DOMAIN new = DOMAIN cs, \A m \in DOMAIN cs \ {l} : new[m] = cs[m],
           NoMore(new[l], cs[l])
    PROVE  Once(new)
<1>1. \A m \in DOMAIN new : Lectures(cs, m) \in Nat
  BY LecturesFacts
<1>2. \A m \in DOMAIN cs \ {l} : Lectures(new, m) = Lectures(cs, m)
  BY SameParts
<1>3. /\ Lectures(new, l) <= Lectures(cs, l)
      /\ Shares(new[l], Lecture) => Shares(cs[l], Lecture)
  BY DEF Lectures, NoMore
<1>4. \A m \in DOMAIN new : /\ Lectures(new, m) <= Lectures(cs, m)
                            /\ Shares(new[m], Lecture) => Shares(cs[m], Lecture)
  BY <1>1, <1>2, <1>3
<1> QED
  BY <1>4, FewerLecturesInPlace

LEMMA JoinedOnce ==
    ASSUME NEW cs, Once(cs), NEW l, l \notin DOMAIN cs, NEW new,
           DOMAIN new = DOMAIN cs \cup {l}, \A m \in DOMAIN cs : new[m] = cs[m],
           Lectures(new, l) <= 1, ~Shares(new[l], Lecture),
           \A m \in DOMAIN cs : Shares(cs[m], Lecture) => Lectures(new, l) = 0
    PROVE  Once(new)
<1>1. \A m \in DOMAIN cs : Lectures(new, m) = Lectures(cs, m)
  BY DEF Lectures
<1> QED
  BY <1>1 DEF Once

LEMMA RenameOnce ==
    ASSUME NEW cs, WellFormed(cs), Once(cs), NEW l \in DOMAIN cs,
           NEW m, m \notin DOMAIN cs \ {l}
    PROVE  Once(Rename(cs, l, m))
<1> DEFINE new == Rename(cs, l, m)
<1>1. /\ WellFormed(new) /\ DOMAIN new = (DOMAIN cs \ {l}) \cup {m}
      /\ new[m] = cs[l] /\ \A n \in DOMAIN cs \ {l} : new[n] = cs[n]
  <2>1. WellFormed(new) /\ DOMAIN new = (DOMAIN cs \ {l}) \cup {m}
    BY RenameFacts
  <2> QED
    BY <2>1 DEF Rename
<1> HIDE DEF new
<1> DEFINE g == [n \in DOMAIN new |-> IF n = m THEN l ELSE n]
<1>2. /\ g \in [DOMAIN new -> DOMAIN cs]
      /\ \A x, y \in DOMAIN new : g[x] = g[y] => x = y
      /\ \A n \in DOMAIN new : new[n] = cs[g[n]]
  BY <1>1
<1> HIDE DEF g
<1>3. \A n \in DOMAIN new : g[n] \in DOMAIN cs /\ new[n] = cs[g[n]]
  BY <1>2
<1>4. \A n \in DOMAIN new : /\ Lectures(new, n) = Lectures(cs, g[n])
                            /\ Shares(new[n], Lecture) => Shares(cs[g[n]], Lecture)
  BY <1>3, SameParts
<1>5. \A n \in DOMAIN new : Lectures(new, n) <= Lectures(cs, g[n])
  BY <1>3, <1>4, LecturesFacts
<1>6. Once(new)
  BY <1>1, <1>2, <1>4, <1>5, FewerLectures
<1> QED
  BY <1>6 DEF new

LEMMA DeclareStep ==
    ASSUME DemandTypeOK, NEW l \in Letter, NEW host, Declare(l, host)
    PROVE  DemandTypeOK'
<1> DEFINE c == IF Couples(cohorts, host) THEN NewCohort("covered", NoParts)
                ELSE NewCohort("self", PartsFromSplit(split, {}))
           new == Joined(cohorts, l, c)
<1>1. l \notin DOMAIN cohorts /\ Receives(new)
  BY DEF Declare
<1>2. /\ c \in Cohort /\ ~c.hosts /\ (c.held = "covered" => c.parts = NoParts)
      /\ c.held = "self" \/ \A m \in DOMAIN cohorts : cohorts[m].held = "self"
  <2>1. CASE Couples(cohorts, host)
    BY <2>1, NoPartsType, NewCohortType DEF Couples
  <2>2. CASE ~Couples(cohorts, host)
    BY <2>2, StateFacts, PartsFromSplitType, NewCohortType
  <2> QED
    BY <2>1, <2>2
<1> HIDE DEF c
<1>3. WellFormed(new) /\ DOMAIN new = DOMAIN cohorts \cup {l}
  <2>1. WellFormed(cohorts)
    BY StateFacts
  <2> QED
    BY <1>1, <1>2, <2>1, JoinedFacts
<1>4. DOMAIN new \subseteq Letter
  BY <1>3, StateFacts
<1> HIDE DEF new
<1> QED
  BY <1>1, <1>3, <1>4, ReceivesFacts

LEMMA ChangeStep ==
    ASSUME DemandTypeOK, NEW l \in Letter, NEW m \in Letter, Change(l, m)
    PROVE  Kept
<1> DEFINE new == Rename(cohorts, l, m)
<1>1. l \in DOMAIN cohorts /\ m \notin DOMAIN cohorts /\ Becomes(new)
  BY DEF Change
<1>2. WellFormed(new) /\ DOMAIN new = (DOMAIN cohorts \ {l}) \cup {m}
  <2>1. WellFormed(cohorts)
    BY StateFacts
  <2> QED
    BY <1>1, <2>1, RenameFacts
<1>3. Once(cohorts) => Once(new)
  BY <1>1, StateFacts, RenameOnce
<1> HIDE DEF new
<1>4. DOMAIN new \subseteq Letter
  BY <1>2, StateFacts
<1> QED
  BY <1>1, <1>2, <1>3, <1>4, BecomesFacts DEF Kept

\* The parts a cohort keeps to itself, and of them a duplicate has as many.
LEMMA UnsharedFacts ==
    ASSUME NEW parts \in [Kind -> Seq(Group)]
    PROVE  LET own == [k \in Kind |-> Chosen(parts[k], {i \in DOMAIN parts[k] : ~parts[k][i].shared})]
           IN  /\ own \in [Kind -> Seq(Group)]
               /\ Len(parts[Lecture]) <= 1 =>
                    /\ Len(own[Lecture]) <= 1
                    /\ \A i \in DOMAIN own[Lecture] : ~own[Lecture][i].shared
                    /\ (\E i \in DOMAIN parts[Lecture] : parts[Lecture][i].shared) =>
                            Len(own[Lecture]) = 0
                    /\ parts[Lecture] = <<>> => Len(own[Lecture]) = 0
<1> DEFINE I(k) == {i \in DOMAIN parts[k] : ~parts[k][i].shared}
           own == [k \in Kind |-> Chosen(parts[k], I(k))]
<1>1. \A k \in Kind : parts[k] \in Seq(Group) /\ I(k) \in SUBSET (DOMAIN parts[k])
  OBVIOUS
<1>2. \A k \in Kind : own[k] = Chosen(parts[k], I(k))
  OBVIOUS
<1>3. ASSUME NEW k \in Kind, NEW i \in I(k) PROVE ~parts[k][i].shared
  OBVIOUS
<1>4. ASSUME NEW k \in Kind
      PROVE  /\ own[k] \in Seq(Group)
             /\ Cardinality(I(k)) \in Nat /\ Len(own[k]) = Cardinality(I(k))
             /\ DOMAIN own[k] = 1 .. Cardinality(I(k))
             /\ \A r \in 1 .. Cardinality(I(k)) :
                    Nth(I(k), r - 1) \in I(k) /\ own[k][r] = parts[k][Nth(I(k), r - 1)]
  <2> HIDE DEF I, own
  <2> QED
    BY <1>1, <1>2, ChosenFacts
<1>5. own \in [Kind -> Seq(Group)]
  BY <1>4
<1> DEFINE J == I(Lecture)
           p == parts[Lecture]
           q == own[Lecture]
<1>6. /\ p \in Seq(Group) /\ J \in SUBSET (DOMAIN p) /\ Cardinality(J) \in Nat
      /\ Len(q) = Cardinality(J) /\ DOMAIN q = 1 .. Cardinality(J)
      /\ \A r \in DOMAIN q : ~q[r].shared
  BY <1>1, <1>3, <1>4, KindFacts
<1>7. ASSUME Len(p) <= 1
      PROVE  /\ Len(q) <= 1
             /\ (\E i \in DOMAIN p : p[i].shared) => Len(q) = 0
             /\ p = <<>> => Len(q) = 0
  <2>1. \A i \in DOMAIN p : i = 1
    BY <1>6, <1>7
  <2>2. (\E i \in DOMAIN p : p[i].shared) \/ p = <<>> => J = {}
    BY <2>1
  <2> HIDE DEF p, q, J
  <2>3. J = {} \/ J = {1}
    BY <1>6, <2>1
  <2>4. (J = {} => Cardinality(J) = 0) /\ (J = {1} => Cardinality(J) = 1)
    BY FS_EmptySet, FS_Singleton
  <2> QED
    BY <1>6, <2>2, <2>3, <2>4
<1> QED
  BY <1>5, <1>6, <1>7

LEMMA DuplicateStep ==
    ASSUME DemandTypeOK, NEW l \in Letter, NEW source \in Letter, NEW m \in Letter,
           Duplicate(l, source, m)
    PROVE  Kept
<1> DEFINE base == Rename(cohorts, l, source)
           parts == cohorts[l].parts
           own == [k \in Kind |-> Chosen(parts[k], {i \in DOMAIN parts[k] : ~parts[k][i].shared})]
           c == NewCohort("self", CopiedParts(own))
           new == Joined(base, m, c)
<1>1. /\ l \in DOMAIN cohorts /\ source \notin DOMAIN cohorts \ {l}
      /\ m \notin DOMAIN base /\ Receives(new)
  BY DEF Duplicate
<1>2. parts \in [Kind -> Seq(Group)]
  BY <1>1, StateFacts DEF Cohort
<1>3. /\ own \in [Kind -> Seq(Group)]
      /\ Len(parts[Lecture]) <= 1 =>
            /\ Len(own[Lecture]) <= 1
            /\ \A i \in DOMAIN own[Lecture] : ~own[Lecture][i].shared
            /\ (\E i \in DOMAIN parts[Lecture] : parts[Lecture][i].shared) =>
                    Len(own[Lecture]) = 0
            /\ parts[Lecture] = <<>> => Len(own[Lecture]) = 0
  <2> HIDE DEF parts
  <2> QED
    BY <1>2, UnsharedFacts
<1> HIDE DEF own
<1>4. /\ CopiedParts(own) \in [Kind -> Seq(Group)]
      /\ DOMAIN CopiedParts(own)[Lecture] = DOMAIN own[Lecture]
      /\ Len(CopiedParts(own)[Lecture]) = Len(own[Lecture])
      /\ \A i \in DOMAIN own[Lecture] :
            CopiedParts(own)[Lecture][i].shared = own[Lecture][i].shared
  BY <1>3, KindFacts, CopiedPartsFacts
<1>5. /\ c \in Cohort /\ c.held = "self" /\ ~c.hosts
      /\ c.parts[Lecture] = CopiedParts(own)[Lecture]
  BY <1>4, NewCohortType
<1>6. WellFormed(base) /\ DOMAIN base = (DOMAIN cohorts \ {l}) \cup {source}
  <2>1. WellFormed(cohorts)
    BY StateFacts
  <2> QED
    BY <1>1, <2>1, RenameFacts
<1>7. base[source] = cohorts[l] /\ \A n \in DOMAIN base \ {source} :
            n \in DOMAIN cohorts \ {l} /\ base[n] = cohorts[n]
  BY <1>1, <1>6 DEF Rename
<1>8. Once(cohorts) => Once(base)
  BY <1>1, StateFacts, RenameOnce
<1> HIDE DEF base, c
<1>9. WellFormed(new) /\ DOMAIN new = DOMAIN base \cup {m}
  BY <1>1, <1>5, <1>6, JoinedFacts
<1>10. new[m] = c /\ \A n \in DOMAIN base : new[n] = base[n]
  BY <1>1 DEF Joined
<1>11. DOMAIN new \subseteq Letter
  BY <1>6, <1>9, StateFacts
<1> HIDE DEF new
<1>12. ASSUME Once(cohorts) PROVE Once(new)
  <2>1. Lectures(cohorts, l) = Len(parts[Lecture]) /\ Len(parts[Lecture]) <= 1
    BY <1>1, <1>12 DEF Lectures, Once
  <2>2. /\ Lectures(new, m) = Len(own[Lecture])
        /\ Shares(new[m], Lecture) => \E i \in DOMAIN own[Lecture] : own[Lecture][i].shared
    BY <1>4, <1>5, <1>10 DEF Lectures, Shares
  <2>3. Lectures(new, m) <= 1 /\ ~Shares(new[m], Lecture)
    BY <1>3, <2>1, <2>2
  <2>4. ASSUME NEW n \in DOMAIN base, Shares(base[n], Lecture) PROVE Lectures(new, m) = 0
    <3>1. CASE n = source
      <4>1. \E i \in DOMAIN parts[Lecture] : parts[Lecture][i].shared
        BY <1>7, <2>4, <3>1 DEF Shares
      <4> QED
        BY <1>3, <2>1, <2>2, <4>1
    <3>2. CASE n # source
      <4>1. n \in DOMAIN cohorts \ {l} /\ Shares(cohorts[n], Lecture)
        BY <1>7, <2>4, <3>2
      <4>2. Lectures(cohorts, l) = 0
        BY <1>1, <1>12, <4>1 DEF Once
      <4>3. parts[Lecture] = <<>>
        <5>1. WellFormed(cohorts)
          BY StateFacts
        <5> QED
          BY <1>1, <4>2, <5>1, LecturesFacts
      <4> QED
        BY <1>3, <2>1, <2>2, <4>3
    <3> QED
      BY <3>1, <3>2
  <2> QED
    BY <1>1, <1>8, <1>9, <1>10, <1>12, <2>3, <2>4, JoinedOnce
<1>13. Receives(new)
  BY <1>1
<1> QED
  BY <1>9, <1>11, <1>12, <1>13, ReceivesFacts DEF Kept

LEMMA WithdrawStep ==
    ASSUME DemandTypeOK, NEW l \in Letter, Withdraw(l)
    PROVE  Kept
<1> DEFINE new == Withdrawn(cohorts, l, TRUE)
<1>1. l \in DOMAIN cohorts /\ l \notin DOMAIN new /\ Becomes(new)
  BY DEF Withdraw
<1>2. /\ WellFormed(cohorts) /\ DOMAIN cohorts \subseteq Nat /\ DOMAIN cohorts \subseteq Letter
  BY StateFacts
<1>3. new = cohorts \/ (WellFormed(new) /\ DOMAIN new = DOMAIN cohorts \ {l})
  BY <1>1, <1>2, WithdrawnFacts
<1>4. Once(cohorts) => Once(new)
  BY <1>1, <1>2, WithdrawnOnce
<1> HIDE DEF new
<1>5. WellFormed(new) /\ DOMAIN new \subseteq Letter
  BY <1>2, <1>3
<1> QED
  BY <1>1, <1>4, <1>5, BecomesFacts DEF Kept

\* A cohort is replaced by one with no more lectures.
LEMMA ReplacedStep ==
    ASSUME DemandTypeOK, NEW l \in DOMAIN cohorts, NEW c \in Cohort,
           Becomes([cohorts EXCEPT ![l] = c]),
           c.held = "covered" => c.parts = NoParts,
           c.held # "self" => /\ ~c.hosts
                              /\ \A m \in DOMAIN cohorts \ {l} : cohorts[m].held = "self"
    PROVE  DemandTypeOK' /\ (NoMore(c, cohorts[l]) => Kept)
<1> DEFINE new == [cohorts EXCEPT ![l] = c]
<1>1. WellFormed(cohorts) /\ DOMAIN cohorts \subseteq Letter
  BY StateFacts
<1>2. /\ WellFormed(new) /\ DOMAIN new = DOMAIN cohorts
      /\ new[l] = c /\ \A m \in DOMAIN cohorts \ {l} : new[m] = cohorts[m]
  BY <1>1, ReplacedFacts
<1>3. Becomes(new)
  OBVIOUS
<1> HIDE DEF new
<1>4. DemandTypeOK' /\ (Once(new) => Once(cohorts'))
  BY <1>1, <1>2, <1>3, BecomesFacts
<1>5. ASSUME NoMore(c, cohorts[l]), Once(cohorts) PROVE Once(new)
  BY <1>1, <1>2, <1>5, ReplacedOnce
<1> QED
  BY <1>4, <1>5 DEF Kept

LEMMA AskStep ==
    ASSUME DemandTypeOK, NEW l \in Letter, Ask(l)
    PROVE  Kept
<1> DEFINE c == [cohorts[l] EXCEPT !.held = "asked"]
<1>1. /\ l \in DOMAIN cohorts /\ ~cohorts[l].hosts
      /\ \A m \in DOMAIN cohorts : cohorts[m].held = "self"
      /\ Becomes([cohorts EXCEPT ![l] = c])
  BY DEF Ask
<1>2. cohorts[l] \in Cohort
  BY <1>1, StateFacts
<1>3. c \in Cohort /\ c.held = "asked" /\ ~c.hosts /\ c.parts = cohorts[l].parts
  BY <1>1, <1>2 DEF Cohort
<1> HIDE DEF c
<1>4. NoMore(c, cohorts[l])
  BY <1>2, <1>3, SamePartsNoMore
<1> QED
  BY <1>1, <1>3, <1>4, ReplacedStep

LEMMA AgreeStep ==
    ASSUME DemandTypeOK, NEW l \in Letter, Agree(l)
    PROVE  Kept
<1> DEFINE c == [[cohorts[l] EXCEPT !.held = "covered"] EXCEPT !.parts = NoParts]
<1>1. l \in DOMAIN cohorts /\ cohorts[l].held = "asked" /\ WellFormed(cohorts)
  BY StateFacts DEF Agree
<1>2. Becomes([cohorts EXCEPT ![l] = c])
  <2>1. [cohorts EXCEPT ![l].held = "covered", ![l].parts = NoParts] = [cohorts EXCEPT ![l] = c]
    BY <1>1 DEF WellFormed
  <2> HIDE DEF c
  <2> QED
    BY <2>1 DEF Agree
<1>3. cohorts[l] \in Cohort
  BY <1>1, StateFacts
<1>4. c \in Cohort /\ c.held = "covered" /\ c.parts = NoParts /\ c.hosts = cohorts[l].hosts
  BY <1>3, NoPartsType DEF Cohort
<1>5. ~cohorts[l].hosts /\ \A m \in DOMAIN cohorts \ {l} : cohorts[m].held = "self"
  BY <1>1 DEF WellFormed
<1> HIDE DEF c
<1>6. c.parts[Lecture] = <<>>
  BY <1>4, KindFacts, NoPartsType
<1>7. NoMore(c, cohorts[l])
  <2>1. Len(cohorts[l].parts[Lecture]) \in Nat
    BY <1>3, KindFacts DEF Cohort
  <2> QED
    BY <1>6, <2>1 DEF NoMore, Shares
<1> QED
  BY <1>1, <1>2, <1>4, <1>5, <1>7, ReplacedStep

LEMMA ReleaseStep ==
    ASSUME DemandTypeOK, NEW l \in Letter, Release(l)
    PROVE  DemandTypeOK'
<1> DEFINE parts == IF cohorts[l].held = "covered" THEN PartsFromSplit(split, {})
                    ELSE cohorts[l].parts
           c == [[cohorts[l] EXCEPT !.held = "self"] EXCEPT !.parts = parts]
<1>1. l \in DOMAIN cohorts /\ WellFormed(cohorts) /\ split \in Seq(Kind)
  BY StateFacts DEF Release
<1>2. Becomes([cohorts EXCEPT ![l] = c])
  <2>1. [cohorts EXCEPT ![l].held = "self",
            ![l].parts = IF cohorts[l].held = "covered" THEN PartsFromSplit(split, {}) ELSE @]
            = [cohorts EXCEPT ![l] = c]
    BY <1>1 DEF WellFormed
  <2> HIDE DEF c
  <2> QED
    BY <2>1 DEF Release
<1>3. cohorts[l] \in Cohort
  BY <1>1, StateFacts
<1>4. parts \in [Kind -> Seq(Group)]
  BY <1>1, <1>3, PartsFromSplitType DEF Cohort
<1> HIDE DEF parts
<1>5. c \in Cohort /\ c.held = "self"
  BY <1>3, <1>4 DEF Cohort
<1> HIDE DEF c
<1> QED
  BY <1>1, <1>2, <1>5, ReplacedStep

LEMMA WishStep ==
    ASSUME DemandTypeOK, NEW l \in Letter, Wish(l)
    PROVE  Kept
<1> DEFINE c == [cohorts[l] EXCEPT !.wished = ~@]
<1>1. l \in DOMAIN cohorts /\ WellFormed(cohorts) /\ Becomes([cohorts EXCEPT ![l] = c])
  BY StateFacts DEF Wish
<1>2. cohorts[l] \in Cohort
  BY <1>1, StateFacts
<1>3. /\ c \in Cohort /\ c.held = cohorts[l].held /\ c.hosts = cohorts[l].hosts
      /\ c.parts = cohorts[l].parts
  BY <1>2 DEF Cohort
<1>4. /\ cohorts[l].held = "covered" => cohorts[l].parts = NoParts
      /\ cohorts[l].held # "self" =>
            /\ ~cohorts[l].hosts /\ \A m \in DOMAIN cohorts \ {l} : cohorts[m].held = "self"
  BY <1>1 DEF WellFormed
<1> HIDE DEF c
<1>5. NoMore(c, cohorts[l])
  BY <1>2, <1>3, SamePartsNoMore
<1> QED
  BY <1>1, <1>3, <1>4, <1>5, ReplacedStep

LEMMA GuestStep ==
    ASSUME DemandTypeOK, NEW l \in Letter, Guest(l)
    PROVE  Kept
<1> DEFINE c == [cohorts[l] EXCEPT !.hosts = ~@]
<1>1. /\ l \in DOMAIN cohorts /\ cohorts[l].held = "self"
      /\ Becomes([cohorts EXCEPT ![l] = c])
  BY DEF Guest
<1>2. cohorts[l] \in Cohort
  BY <1>1, StateFacts
<1>3. c \in Cohort /\ c.held = "self" /\ c.parts = cohorts[l].parts
  BY <1>1, <1>2 DEF Cohort
<1> HIDE DEF c
<1>4. NoMore(c, cohorts[l])
  BY <1>2, <1>3, SamePartsNoMore
<1> QED
  BY <1>1, <1>3, <1>4, ReplacedStep

\* One part of a cohort is replaced by another.
LEMMA PartReplaced ==
    ASSUME NEW c \in Cohort, NEW k \in Kind, NEW i \in DOMAIN c.parts[k], NEW g \in Group
    PROVE  LET q == [c.parts[k] EXCEPT ![i] = g]
               d == [c EXCEPT !.parts = [c.parts EXCEPT ![k] = q]]
           IN  /\ d \in Cohort /\ d.held = c.held /\ d.hosts = c.hosts
               /\ \A j \in Kind \ {k} : d.parts[j] = c.parts[j]
               /\ d.parts[k] = q /\ Len(q) = Len(c.parts[k]) /\ DOMAIN q = DOMAIN c.parts[k]
               /\ q[i] = g /\ \A n \in DOMAIN q \ {i} : q[n] = c.parts[k][n]
               /\ c.parts # NoParts /\ c.parts[k][i] \in Group
<1> DEFINE q == [c.parts[k] EXCEPT ![i] = g]
           d == [c EXCEPT !.parts = [c.parts EXCEPT ![k] = q]]
<1>1. c.parts[k] \in Seq(Group)
  BY OwnGroupsType
<1>2. /\ q \in Seq(Group) /\ Len(q) = Len(c.parts[k]) /\ DOMAIN q = DOMAIN c.parts[k]
      /\ q[i] = g /\ \A n \in DOMAIN q \ {i} : q[n] = c.parts[k][n]
      /\ c.parts[k][i] \in Group
  BY <1>1
<1>3. c.parts # NoParts
  BY NoPartsType
<1> HIDE DEF q
<1>4. /\ d \in Cohort /\ d.held = c.held /\ d.hosts = c.hosts
      /\ \A j \in Kind \ {k} : d.parts[j] = c.parts[j]
      /\ d.parts[k] = q
  BY <1>2 DEF Cohort
<1> HIDE DEF d
<1> QED
  BY <1>2, <1>3, <1>4 DEF d, q

\* A part with another use and other pieces: field by field, and as a whole.
FieldByField(c, k, i, use, pieces) ==
    [[c EXCEPT !.parts[k][i].use = use] EXCEPT !.parts[k][i].pieces = pieces]
AsAWhole(c, k, i, use, pieces) ==
    [c EXCEPT !.parts = [c.parts EXCEPT ![k] = [c.parts[k] EXCEPT ![i] =
        [[c.parts[k][i] EXCEPT !.use = use] EXCEPT !.pieces = pieces]]]]

LEMMA TwoFields ==
    ASSUME NEW c \in Cohort, NEW k \in Kind, NEW i \in DOMAIN c.parts[k],
           c.parts[k][i] \in Group, NEW use, NEW pieces
    PROVE  FieldByField(c, k, i, use, pieces) = AsAWhole(c, k, i, use, pieces)
<1> DEFINE p == c.parts[k]
           used == [p[i] EXCEPT !.use = use]
           a == [c EXCEPT !.parts[k][i].use = use]
<1>1. DOMAIN c.parts = Kind /\ p \in Seq(Group)
  BY OwnGroupsType DEF Cohort
<1>2. a = [c EXCEPT !.parts = [c.parts EXCEPT ![k] = [p EXCEPT ![i] = used]]]
  BY <1>1 DEF Cohort
<1>3. a.parts = [c.parts EXCEPT ![k] = [p EXCEPT ![i] = used]]
  BY <1>2 DEF Cohort
<1>4. a.parts[k] = [p EXCEPT ![i] = used] /\ a.parts[k][i] = used
  BY <1>1, <1>3
<1>5. [a EXCEPT !.parts[k][i].pieces = pieces]
        = [a EXCEPT !.parts = [a.parts EXCEPT ![k] = [a.parts[k] EXCEPT ![i] =
                                                        [used EXCEPT !.pieces = pieces]]]]
  BY <1>4
<1> HIDE DEF a, used
<1>6. [a.parts[k] EXCEPT ![i] = [used EXCEPT !.pieces = pieces]]
        = [p EXCEPT ![i] = [used EXCEPT !.pieces = pieces]]
  BY <1>1, <1>4
<1>7. [a.parts EXCEPT ![k] = [p EXCEPT ![i] = [used EXCEPT !.pieces = pieces]]]
        = [c.parts EXCEPT ![k] = [p EXCEPT ![i] = [used EXCEPT !.pieces = pieces]]]
  BY <1>1, <1>3
<1> DEFINE parts == [c.parts EXCEPT ![k] = [p EXCEPT ![i] = [used EXCEPT !.pieces = pieces]]]
<1>8. [a EXCEPT !.parts[k][i].pieces = pieces] = [a EXCEPT !.parts = parts]
  BY <1>5, <1>6, <1>7
<1> HIDE DEF parts
<1>9. [a EXCEPT !.parts = parts] = [c EXCEPT !.parts = parts]
  BY <1>2 DEF Cohort
<1> QED
  BY <1>8, <1>9 DEF parts, a, used, FieldByField, AsAWhole

LEMMA ArrangeStep ==
    ASSUME DemandTypeOK, NEW l \in Letter, NEW k \in Kind, NEW i,
           NEW use \in {"free", "held", "away"}, NEW pieces \in 0..1,
           Arrange(l, k, i, use, pieces)
    PROVE  Kept
<1> DEFINE p == cohorts[l].parts[k]
           g == [[p[i] EXCEPT !.use = use] EXCEPT !.pieces = pieces]
           q == [p EXCEPT ![i] = g]
           c == [cohorts[l] EXCEPT !.parts = [cohorts[l].parts EXCEPT ![k] = q]]
<1>1. l \in DOMAIN cohorts /\ i \in DOMAIN p /\ WellFormed(cohorts)
  BY StateFacts DEF Arrange
<1>2. cohorts[l] \in Cohort
  BY <1>1, StateFacts
<1>3. p \in Seq(Group) /\ p[i] \in Group
  BY <1>1, <1>2, OwnGroupsType
<1>4. g \in Group /\ g.shared = p[i].shared
  <2>1. ASSUME NEW h \in Group
        PROVE  LET new == [[h EXCEPT !.use = use] EXCEPT !.pieces = pieces]
               IN  new \in Group /\ new.shared = h.shared
    <3> DEFINE used == [h EXCEPT !.use = use]
    <3>1. used \in Group /\ used.shared = h.shared
      BY DEF Group
    <3> HIDE DEF used
    <3>2. pieces \in Nat
      OBVIOUS
    <3>3. [used EXCEPT !.pieces = pieces] \in Group
          /\ [used EXCEPT !.pieces = pieces].shared = used.shared
      BY <3>1, <3>2 DEF Group
    <3> QED
      BY <3>1, <3>3 DEF used
  <2> HIDE DEF p
  <2> QED
    BY <1>3, <2>1
<1>5. Becomes([cohorts EXCEPT ![l] = c])
  <2>1. cohorts \in [DOMAIN cohorts -> Cohort]
    BY <1>1 DEF WellFormed
  <2>2. [cohorts EXCEPT ![l].parts[k][i].use = use, ![l].parts[k][i].pieces = pieces]
            = [cohorts EXCEPT ![l] = c]
    <3> DEFINE b == [[cohorts[l] EXCEPT !.parts[k][i].use = use]
                        EXCEPT !.parts[k][i].pieces = pieces]
    <3>1. [cohorts EXCEPT ![l].parts[k][i].use = use, ![l].parts[k][i].pieces = pieces]
            = [cohorts EXCEPT ![l] = b]
      <4> DEFINE u == [cohorts[l] EXCEPT !.parts[k][i].use = use]
                 new == [cohorts EXCEPT ![l].parts[k][i].use = use]
      <4>1. new = [cohorts EXCEPT ![l] = u]
        BY <1>1, <2>1
      <4> HIDE DEF u, new
      <4>2. new[l] = u /\ DOMAIN new = DOMAIN cohorts
        BY <1>1, <2>1, <4>1
      <4>3. [new EXCEPT ![l].parts[k][i].pieces = pieces]
                = [new EXCEPT ![l] = [u EXCEPT !.parts[k][i].pieces = pieces]]
        BY <4>2
      <4>4. [new EXCEPT ![l].parts[k][i].pieces = pieces]
                = [cohorts EXCEPT ![l] = [u EXCEPT !.parts[k][i].pieces = pieces]]
        BY <1>1, <2>1, <4>1, <4>3
      <4> QED
        BY <4>4 DEF u, new
    <3>2. b = c
      <4> DEFINE o == cohorts[l]
      <4>1. o \in Cohort /\ i \in DOMAIN o.parts[k] /\ o.parts[k][i] \in Group
        BY <1>1, <1>2, <1>3
      <4> HIDE DEF o
      <4>2. FieldByField(o, k, i, use, pieces) = AsAWhole(o, k, i, use, pieces)
        BY <4>1, TwoFields
      <4> QED
        BY <4>2 DEF o, FieldByField, AsAWhole
    <3> HIDE DEF b, c
    <3> QED
      BY <3>1, <3>2
  <2> HIDE DEF c
  <2> QED
    BY <2>2 DEF Arrange
<1> HIDE DEF g
<1>6. /\ c \in Cohort /\ c.held = cohorts[l].held /\ c.hosts = cohorts[l].hosts
      /\ \A j \in Kind \ {k} : c.parts[j] = cohorts[l].parts[j]
      /\ c.parts[k] = q /\ Len(q) = Len(p) /\ DOMAIN q = DOMAIN p
      /\ q[i] = g /\ \A n \in DOMAIN q \ {i} : q[n] = p[n]
      /\ cohorts[l].parts # NoParts
  BY <1>1, <1>2, <1>4, PartReplaced
<1>7. /\ cohorts[l].held # "covered"
      /\ cohorts[l].held # "self" =>
            /\ ~cohorts[l].hosts /\ \A m \in DOMAIN cohorts \ {l} : cohorts[m].held = "self"
  BY <1>1, <1>6 DEF WellFormed
<1> HIDE DEF c, q, p
<1>8. NoMore(c, cohorts[l])
  <2>1. CASE k = Lecture
    <3>1. Len(p) \in Nat /\ \A n \in DOMAIN q : q[n].shared = p[n].shared
      BY <1>3, <1>4, <1>6
    <3> QED
      BY <1>6, <2>1, <3>1 DEF NoMore, Shares, p
  <2>2. CASE k # Lecture
    BY <1>2, <1>6, <2>2, KindFacts, SamePartsNoMore
  <2> QED
    BY <2>1, <2>2
<1> QED
  BY <1>1, <1>5, <1>6, <1>7, <1>8, ReplacedStep

\* Where a part is shared, the siblings have none of its kind.
LEMMA ShareStep ==
    ASSUME DemandTypeOK, NEW l \in Letter, NEW k \in Kind, NEW i, Share(l, k, i)
    PROVE  Kept
<1> DEFINE p == cohorts[l].parts[k]
           g == [p[i] EXCEPT !.shared = TRUE]
           q == [p EXCEPT ![i] = g]
           c == [cohorts[l] EXCEPT !.parts = [cohorts[l].parts EXCEPT ![k] = q]]
           none(d) == [d EXCEPT !.parts[k] = <<>>]
           new == [m \in DOMAIN cohorts |-> IF m = l THEN c ELSE none(cohorts[m])]
<1>1. l \in DOMAIN cohorts /\ i \in DOMAIN p /\ WellFormed(cohorts)
  BY StateFacts DEF Share
<1>2. cohorts[l] \in Cohort
  BY <1>1, StateFacts
<1>3. p \in Seq(Group) /\ p[i] \in Group
  BY <1>1, <1>2, OwnGroupsType
<1>4. g \in Group
  <2>1. ASSUME NEW h \in Group PROVE [h EXCEPT !.shared = TRUE] \in Group
    BY DEF Group
  <2> HIDE DEF p
  <2> QED
    BY <1>3, <2>1
<1>5. Becomes(new)
  <2>1. [cohorts[l] EXCEPT !.parts[k][i].shared = TRUE] = c
    BY <1>1, <1>2, <1>3 DEF Cohort
  <2>2. new = [m \in DOMAIN cohorts |->
                IF m = l THEN [cohorts[m] EXCEPT !.parts[k][i].shared = TRUE]
                ELSE [cohorts[m] EXCEPT !.parts[k] = <<>>]]
    BY <2>1
  <2> HIDE DEF new
  <2> QED
    BY <2>2 DEF Share
<1> HIDE DEF g
<1>6. /\ c \in Cohort /\ c.held = cohorts[l].held /\ c.hosts = cohorts[l].hosts
      /\ \A j \in Kind \ {k} : c.parts[j] = cohorts[l].parts[j]
      /\ c.parts[k] = q /\ Len(q) = Len(p)
      /\ cohorts[l].parts # NoParts
  BY <1>1, <1>2, <1>4, PartReplaced
<1>7. ASSUME NEW d \in Cohort
      PROVE  /\ none(d) \in Cohort /\ none(d).held = d.held /\ none(d).hosts = d.hosts
             /\ none(d).parts[k] = <<>> /\ \A j \in Kind \ {k} : none(d).parts[j] = d.parts[j]
             /\ d.parts = NoParts => none(d).parts = NoParts
  <2>1. none(d) = [d EXCEPT !.parts = [d.parts EXCEPT ![k] = <<>>]]
    BY DEF Cohort
  <2>2. [d.parts EXCEPT ![k] = <<>>] \in [Kind -> Seq(Group)]
    BY NoPartsType DEF Cohort
  <2>3. d.parts = NoParts => [d.parts EXCEPT ![k] = <<>>] = NoParts
    BY NoPartsType
  <2> HIDE DEF none
  <2> QED
    BY <2>1, <2>2, <2>3 DEF Cohort
<1> HIDE DEF c, q, none
<1>8. /\ DOMAIN new = DOMAIN cohorts /\ new[l] = c
      /\ \A m \in DOMAIN cohorts \ {l} : new[m] = none(cohorts[m])
  BY <1>1
<1> HIDE DEF new
<1>9. \A m \in DOMAIN cohorts :
        /\ new[m] \in Cohort /\ new[m].held = cohorts[m].held /\ new[m].hosts = cohorts[m].hosts
        /\ \A j \in Kind \ {k} : new[m].parts[j] = cohorts[m].parts[j]
        /\ m # l => new[m].parts[k] = <<>>
        /\ cohorts[m].parts = NoParts => new[m].parts = NoParts
  BY <1>6, <1>7, <1>8, StateFacts
<1>10. new \in [DOMAIN cohorts -> Cohort]
  <2>1. new = [m \in DOMAIN cohorts |-> new[m]]
    BY DEF new
  <2> QED
    BY <1>9, <2>1
<1>11. WellFormed(new)
  BY <1>1, <1>8, <1>9, <1>10 DEF WellFormed
<1>12. ASSUME Once(cohorts) PROVE Once(new)
  <2>1. CASE k = Lecture
    <3>1. \A m \in DOMAIN cohorts \ {l} : Lectures(new, m) = 0 /\ ~Shares(new[m], Lecture)
      BY <1>9, <2>1 DEF Lectures, Shares
    <3>2. Lectures(new, l) = Lectures(cohorts, l) /\ Lectures(cohorts, l) <= 1
      BY <1>1, <1>6, <1>8, <1>12, <2>1 DEF Lectures, Once
    <3> QED
      BY <1>8, <3>1, <3>2 DEF Once
  <2>2. CASE k # Lecture
    <3>1. \A m \in DOMAIN new : /\ Lectures(new, m) = Lectures(cohorts, m)
                                /\ Shares(new[m], Lecture) => Shares(cohorts[m], Lecture)
      BY <1>8, <1>9, <2>2, KindFacts, SameParts
    <3>2. \A m \in DOMAIN new : Lectures(new, m) <= Lectures(cohorts, m)
      BY <1>1, <1>8, <3>1, LecturesFacts
    <3> QED
      BY <1>1, <1>8, <1>11, <1>12, <3>1, <3>2, FewerLecturesInPlace
  <2> QED
    BY <2>1, <2>2
<1>13. DOMAIN new \subseteq Letter
  BY <1>8, StateFacts
<1> QED
  BY <1>5, <1>11, <1>12, <1>13, BecomesFacts DEF Kept

\* A part that is shared no more: each sibling has one of its own.
LEMMA UnshareStep ==
    ASSUME DemandTypeOK, NEW l \in Letter, NEW k \in Kind, NEW i, Unshare(l, k, i)
    PROVE  Kept
<1> DEFINE back == GiveBack(cohorts, l, {k})
           p == cohorts[l].parts[k]
           g == [p[i] EXCEPT !.shared = FALSE]
           q == [p EXCEPT ![i] = g]
           c == [cohorts[l] EXCEPT !.parts = [cohorts[l].parts EXCEPT ![k] = q]]
           new == [back EXCEPT ![l] = c]
<1>1. l \in DOMAIN cohorts /\ i \in DOMAIN p /\ p[i].shared /\ WellFormed(cohorts)
  BY StateFacts DEF Unshare
<1>2. cohorts[l] \in Cohort
  BY <1>1, StateFacts
<1>3. p \in Seq(Group) /\ p[i] \in Group
  BY <1>1, <1>2, OwnGroupsType
<1>4. g \in Group /\ ~g.shared
  <2>1. ASSUME NEW h \in Group
        PROVE  [h EXCEPT !.shared = FALSE] \in Group /\ ~[h EXCEPT !.shared = FALSE].shared
    BY DEF Group
  <2> HIDE DEF p
  <2> QED
    BY <1>3, <2>1
<1>5. /\ WellFormed(back) /\ DOMAIN back = DOMAIN cohorts /\ back[l] = cohorts[l]
      /\ \A m \in DOMAIN cohorts : back[m].held = cohorts[m].held
  BY <1>1, GiveBackFacts
<1>6. ASSUME NEW m \in DOMAIN cohorts, NEW j \in Kind
      PROVE  back[m].parts[j] =
                IF m # l /\ cohorts[m].held # "covered" /\ j \in {k} /\ cohorts[m].parts[j] = <<>>
                THEN <<Part(0)>> ELSE cohorts[m].parts[j]
  BY <1>1, GiveBackFacts
<1>7. Becomes(new)
  <2>1. back \in [DOMAIN cohorts -> Cohort]
    BY <1>5 DEF WellFormed
  <2>2. [back EXCEPT ![l].parts[k][i].shared = FALSE] = new
    <3> HIDE DEF back
    <3> QED
      BY <1>1, <1>2, <1>3, <1>5, <2>1 DEF Cohort
  <2> HIDE DEF new
  <2> QED
    BY <2>2 DEF Unshare
<1> HIDE DEF g
<1>8. /\ c \in Cohort /\ c.held = cohorts[l].held /\ c.hosts = cohorts[l].hosts
      /\ \A j \in Kind \ {k} : c.parts[j] = cohorts[l].parts[j]
      /\ c.parts[k] = q /\ Len(q) = Len(p) /\ DOMAIN q = DOMAIN p
      /\ q[i] = g
      /\ cohorts[l].parts # NoParts
  BY <1>1, <1>2, <1>4, PartReplaced
<1>9. /\ c.held # "covered"
      /\ c.held # "self" =>
            /\ ~c.hosts /\ \A m \in DOMAIN cohorts \ {l} : cohorts[m].held = "self"
  BY <1>1, <1>8 DEF WellFormed
<1> HIDE DEF c, q, back
<1>10. /\ WellFormed(new) /\ DOMAIN new = DOMAIN cohorts
       /\ new[l] = c /\ \A m \in DOMAIN cohorts \ {l} : new[m] = back[m]
  <2>1. l \in DOMAIN back /\ WellFormed(back) /\ DOMAIN back = DOMAIN cohorts
    BY <1>1, <1>5
  <2>2. c.held # "self" => /\ ~c.hosts
                           /\ \A m \in DOMAIN back \ {l} : back[m].held = "self"
    BY <1>5, <1>9
  <2> QED
    BY <1>8, <1>9, <2>1, <2>2, ReplacedFacts
<1> HIDE DEF new, p
<1>11. ASSUME Once(cohorts) PROVE Once(new)
  <2>1. CASE k = Lecture
    <3>1. Lectures(cohorts, l) = Len(p) /\ Lectures(new, l) = Len(q) /\ Len(p) <= 1
      BY <1>1, <1>8, <1>10, <1>11, <2>1 DEF Lectures, Once, p
    <3>2. \A n \in DOMAIN q : n = i
      <4>1. DOMAIN p = 1 .. Len(p) /\ Len(p) \in Nat
        BY <1>3
      <4> QED
        BY <1>1, <1>8, <3>1, <4>1
    <3>3. ~Shares(new[l], Lecture)
      BY <1>4, <1>8, <1>10, <2>1, <3>2 DEF Shares
    <3>4. Shares(cohorts[l], Lecture)
      BY <1>1, <2>1 DEF Shares, p
    <3>5. ASSUME NEW m \in DOMAIN cohorts \ {l}
          PROVE  Lectures(new, m) <= 1 /\ ~Shares(new[m], Lecture)
      <4>1. Lectures(cohorts, m) = 0
        BY <1>1, <1>11, <3>4 DEF Once
      <4>2. cohorts[m].parts[Lecture] = <<>>
        BY <1>1, <4>1, LecturesFacts
      <4>3. new[m].parts[Lecture] = <<>> \/ new[m].parts[Lecture] = <<Part(0)>>
        BY <1>6, <1>10, <4>2, KindFacts
      <4>4. CASE new[m].parts[Lecture] = <<>>
        BY <4>4 DEF Lectures, Shares
      <4>5. ASSUME NEW h, h = Part(0), new[m].parts[Lecture] = <<h>>
            PROVE  Lectures(new, m) <= 1 /\ ~Shares(new[m], Lecture)
        <5>1. ~h.shared
          BY <4>5 DEF Part
        <5> QED
          BY <4>5, <5>1 DEF Lectures, Shares
      <4> QED
        BY <4>3, <4>4, <4>5
    <3>6. Lectures(new, l) <= 1
      BY <1>8, <3>1
    <3> QED
      BY <1>10, <3>3, <3>5, <3>6 DEF Once
  <2>2. CASE k # Lecture
    <3>1. \A m \in DOMAIN new : new[m].parts[Lecture] = cohorts[m].parts[Lecture]
      BY <1>6, <1>8, <1>10, <2>2, KindFacts
    <3>2. \A m \in DOMAIN new : /\ Lectures(new, m) = Lectures(cohorts, m)
                                /\ Shares(new[m], Lecture) => Shares(cohorts[m], Lecture)
      BY <3>1, SameParts
    <3>3. \A m \in DOMAIN new : Lectures(new, m) <= Lectures(cohorts, m)
      BY <1>1, <1>10, <3>2, LecturesFacts
    <3> QED
      BY <1>1, <1>10, <1>11, <3>2, <3>3, FewerLecturesInPlace
  <2> QED
    BY <2>1, <2>2
<1>12. DOMAIN new \subseteq Letter
  BY <1>10, StateFacts
<1> QED
  BY <1>7, <1>10, <1>11, <1>12, BecomesFacts DEF Kept

LEMMA PlanStep ==
    ASSUME DemandTypeOK, NEW want \in Screens, DOMAIN want \subseteq Letter, NEW host,
           Plan(want, host)
    PROVE  Kept
<1> DEFINE more == AfterCreating(cohorts, split, want, host)
           plan == Planned(cohorts, split, want, host)
<1>1. WellFormed(cohorts) /\ DOMAIN cohorts \subseteq Nat /\ split \in Seq(Kind)
  BY StateFacts
<1>2. Screen(want)
  BY DemandAssumption DEF Screen
<1>3. WellFormed(plan) /\ DOMAIN plan = DOMAIN more
  BY <1>1, <1>2, PlannedFacts
<1>4. Once(cohorts) => Once(plan)
  BY <1>1, <1>2, PlannedOnce
<1>5. DOMAIN more \subseteq DOMAIN cohorts \cup DOMAIN want
  <2>1. DOMAIN more = DOMAIN AfterRenames(cohorts, want) \cup Missing(cohorts, split, want)
    BY <1>1, <1>2, AfterCreatingFacts
  <2>2. DOMAIN AfterRenames(cohorts, want) =
            (DOMAIN AfterLeaving(cohorts, want) \ Renamed(cohorts, want)) \cup Taken(cohorts, want)
    BY <1>1, <1>2, AfterRenamesFacts
  <2>3. DOMAIN AfterLeaving(cohorts, want) \subseteq DOMAIN cohorts
    BY <1>1, AfterLeavingFacts
  <2>4. Taken(cohorts, want) \subseteq DOMAIN want
    BY <1>1, <1>2, BeforeFacts
  <2>5. Missing(cohorts, split, want) \subseteq DOMAIN want
    BY DEF Missing, Open
  <2> HIDE DEF more
  <2> QED
    BY <2>1, <2>2, <2>3, <2>4, <2>5
<1>6. Receives(plan)
  BY DEF Plan
<1> HIDE DEF more, plan
<1>7. DOMAIN plan \subseteq Letter
  BY <1>3, <1>5, StateFacts
<1> QED
  BY <1>3, <1>4, <1>6, <1>7, ReceivesFacts DEF Kept

LEMMA ApplySplitStep ==
    ASSUME DemandTypeOK, NEW mayRemove, ApplySplit(mayRemove)
    PROVE  Kept
<1> DEFINE new == Applied(cohorts, split, mayRemove)
<1>1. /\ WellFormed(cohorts) /\ split \in Seq(Kind) /\ DOMAIN cohorts \subseteq Letter
      /\ Becomes(new)
  BY StateFacts DEF ApplySplit
<1>2. WellFormed(new) /\ DOMAIN new = DOMAIN cohorts
  BY <1>1, AppliedFacts
<1>3. Once(cohorts) => Once(new)
  BY <1>1, AppliedOnce
<1> HIDE DEF new
<1> QED
  BY <1>1, <1>2, <1>3, BecomesFacts DEF Kept

\* A copy into a semester without cohorts attends what was attended there.
LEMMA CopyStep ==
    ASSUME DemandTypeOK, NEW year \in LastYear, NEW host \in {"absent", "free", "guest"},
           Copy(year, host)
    PROVE  DemandTypeOK' /\ (cohorts = <<>> /\ Once(year) => Once(cohorts'))
<1> DEFINE fresh == DOMAIN year \ DOMAIN cohorts
           asks == {l \in fresh : year[l].held # "self" /\ host # "absent"}
           c(l) == NewCohort(IF l \in asks THEN "asked" ELSE "self", CopiedParts(year[l].parts))
           new == [l \in DOMAIN cohorts \cup fresh |-> IF l \notin fresh THEN cohorts[l] ELSE c(l)]
<1>1. /\ asks # {} => \A l \in DOMAIN cohorts : cohorts[l].held = "self"
      /\ Receives(new)
  BY DEF Copy
<1>2. /\ WellFormed(cohorts) /\ DOMAIN cohorts \subseteq Letter
      /\ WellFormed(year) /\ DOMAIN year \subseteq Letter
  BY StateFacts, DemandAssumption
<1>3. ASSUME NEW l \in DOMAIN year
      PROVE  /\ c(l) \in Cohort /\ ~c(l).hosts
             /\ c(l).held = IF l \in asks THEN "asked" ELSE "self"
             /\ Len(c(l).parts[Lecture]) = Len(year[l].parts[Lecture])
             /\ Shares(c(l), Lecture) => Shares(year[l], Lecture)
  <2> DEFINE parts == year[l].parts
             held == IF l \in asks THEN "asked" ELSE "self"
  <2>1. parts \in [Kind -> Seq(Group)]
    BY <1>2 DEF WellFormed, Cohort
  <2>2. held \in {"self", "asked", "covered"}
    OBVIOUS
  <2>3. c(l) = NewCohort(held, CopiedParts(parts))
    OBVIOUS
  <2>4. Shares(year[l], Lecture) <=> \E i \in DOMAIN parts[Lecture] : parts[Lecture][i].shared
    BY DEF Shares
  <2> HIDE DEF parts, held, c
  <2>5. /\ CopiedParts(parts) \in [Kind -> Seq(Group)]
        /\ DOMAIN CopiedParts(parts)[Lecture] = DOMAIN parts[Lecture]
        /\ Len(CopiedParts(parts)[Lecture]) = Len(parts[Lecture])
        /\ \A i \in DOMAIN parts[Lecture] :
                CopiedParts(parts)[Lecture][i].shared = parts[Lecture][i].shared
    BY <2>1, KindFacts, CopiedPartsFacts
  <2>6. /\ c(l) \in Cohort /\ ~c(l).hosts /\ c(l).held = held
        /\ c(l).parts = CopiedParts(parts)
    BY <2>2, <2>3, <2>5, NewCohortType
  <2>7. Shares(c(l), Lecture) => Shares(year[l], Lecture)
    BY <2>4, <2>5, <2>6 DEF Shares
  <2> QED
    BY <2>5, <2>6, <2>7 DEF parts, held
<1>4. \A l, m \in asks : l = m
  BY <1>2 DEF WellFormed
<1>5. asks \subseteq fresh /\ fresh \subseteq DOMAIN year /\ fresh \cap DOMAIN cohorts = {}
  OBVIOUS
<1>6. IsFiniteSet(DOMAIN cohorts \cup fresh)
  <2>1. IsFiniteSet(DOMAIN cohorts) /\ IsFiniteSet(DOMAIN year)
    BY <1>2 DEF WellFormed
  <2>2. IsFiniteSet(fresh)
    <3> HIDE DEF fresh
    <3> QED
      BY <1>5, <2>1, FS_Subset
  <2> HIDE DEF fresh
  <2> QED
    BY <2>1, <2>2, FS_Union
<1>7. DOMAIN new = DOMAIN cohorts \cup fresh
  OBVIOUS
<1>8. \A l \in DOMAIN cohorts : new[l] = cohorts[l]
  OBVIOUS
<1>9. \A l \in fresh : new[l] = c(l)
  OBVIOUS
<1>10. new = [l \in DOMAIN new |-> new[l]]
  OBVIOUS
<1>11. cohorts = <<>> => DOMAIN cohorts = {} /\ fresh = DOMAIN year
  OBVIOUS
<1> HIDE DEF new, c, asks, fresh
<1>12. \A l \in fresh : /\ new[l] \in Cohort /\ ~new[l].hosts
                        /\ new[l].held = IF l \in asks THEN "asked" ELSE "self"
  BY <1>3, <1>5, <1>9
<1>13. new \in [DOMAIN new -> Cohort]
  <2>1. \A l \in DOMAIN new : new[l] \in Cohort
    BY <1>2, <1>7, <1>8, <1>12 DEF WellFormed
  <2> QED
    BY <1>10, <2>1
<1>14. WellFormed(new)
  <2>1. \A l \in DOMAIN new : new[l].held = "covered" => new[l].parts = NoParts
    BY <1>2, <1>7, <1>8, <1>12 DEF WellFormed
  <2>2. \A l \in DOMAIN new : new[l].held # "self" => ~new[l].hosts
    BY <1>2, <1>7, <1>8, <1>12 DEF WellFormed
  <2>3. \A l, m \in DOMAIN new : new[l].held # "self" /\ new[m].held # "self" => l = m
    <3>1. \A l \in fresh : new[l].held # "self" => l \in asks
      BY <1>12
    <3>2. \A l, m \in DOMAIN cohorts : new[l].held # "self" /\ new[m].held # "self" => l = m
      BY <1>2, <1>8 DEF WellFormed
    <3>3. asks # {} => \A l \in DOMAIN cohorts : new[l].held = "self"
      BY <1>1, <1>8
    <3> QED
      BY <1>4, <1>7, <3>1, <3>2, <3>3
  <2>4. IsFiniteSet(DOMAIN new)
    BY <1>6, <1>7
  <2> QED
    BY <1>13, <2>1, <2>2, <2>3, <2>4 DEF WellFormed
<1>15. ASSUME cohorts = <<>>, Once(year) PROVE Once(new)
  <2>1. DOMAIN new = DOMAIN year /\ \A l \in DOMAIN new : new[l] = c(l)
    BY <1>7, <1>9, <1>11, <1>15
  <2>2. \A l \in DOMAIN new : /\ Len(new[l].parts[Lecture]) = Len(year[l].parts[Lecture])
                              /\ Shares(new[l], Lecture) => Shares(year[l], Lecture)
    BY <1>3, <2>1
  <2>3. \A l \in DOMAIN new : Lectures(new, l) = Lectures(year, l) /\ Lectures(year, l) \in Nat
    BY <1>2, <2>1, <2>2, LecturesFacts DEF Lectures
  <2>4. \A l \in DOMAIN new : Lectures(new, l) <= Lectures(year, l)
    BY <2>3
  <2> QED
    BY <1>2, <1>14, <1>15, <2>1, <2>2, <2>4, FewerLecturesInPlace
<1>16. DOMAIN new \subseteq Letter
  BY <1>2, <1>5, <1>7
<1> QED
  BY <1>1, <1>14, <1>15, <1>16, ReceivesFacts

\* A step that is none of the three which may bring a second lecture.
LEMMA OtherStep ==
    ASSUME DemandTypeOK, DemandNext,
           ~ \E l \in Letter, host \in BOOLEAN : Declare(l, host),
           ~ \E l \in Letter : Release(l),
           ~ \E year \in LastYear, host \in {"absent", "free", "guest"} : Copy(year, host)
    PROVE  Kept
<1>1. CASE \E s \in Splits : StateSplit(s)
  <2>1. cohorts' = cohorts /\ split' \in Splits
    BY <1>1 DEF StateSplit
  <2> QED
    BY <2>1 DEF Kept, DemandTypeOK
<1>2. CASE \E mayRemove \in BOOLEAN : ApplySplit(mayRemove)
  BY <1>2, ApplySplitStep
<1>3. CASE \E want \in Screens, host \in BOOLEAN : DOMAIN want \subseteq Letter /\ Plan(want, host)
  BY <1>3, PlanStep
<1>4. ASSUME NEW l \in Letter, NEW k \in Kind, NEW i \in 1 .. MaxParts,
             \/ Share(l, k, i) \/ Unshare(l, k, i)
             \/ \E use \in {"free", "held", "away"}, pieces \in 0..1 : Arrange(l, k, i, use, pieces)
      PROVE  Kept
  BY <1>4, ShareStep, UnshareStep, ArrangeStep
<1>5. ASSUME NEW l \in Letter,
             \/ \E m \in Letter : Change(l, m) \/ \E source \in Letter : Duplicate(l, source, m)
             \/ Withdraw(l) \/ Ask(l) \/ Agree(l) \/ Wish(l) \/ Guest(l)
      PROVE  Kept
  BY <1>5, ChangeStep, DuplicateStep, WithdrawStep, AskStep, AgreeStep, WishStep, GuestStep
<1> QED
  BY <1>1, <1>2, <1>3, <1>4, <1>5 DEF DemandNext

LEMMA DemandTypeStep == DemandTypeOK /\ [DemandNext]_demandVars => DemandTypeOK'
<1> SUFFICES ASSUME DemandTypeOK, [DemandNext]_demandVars PROVE DemandTypeOK'
  OBVIOUS
<1>1. CASE UNCHANGED demandVars
  BY <1>1 DEF DemandTypeOK, demandVars
<1>2. CASE \E l \in Letter, host \in BOOLEAN : Declare(l, host)
  BY <1>2, DeclareStep
<1>3. CASE \E l \in Letter : Release(l)
  BY <1>3, ReleaseStep
<1>4. CASE \E year \in LastYear, host \in {"absent", "free", "guest"} : Copy(year, host)
  BY <1>4, CopyStep
<1>5. ASSUME DemandNext,
             ~ \E l \in Letter, host \in BOOLEAN : Declare(l, host),
             ~ \E l \in Letter : Release(l),
             ~ \E year \in LastYear, host \in {"absent", "free", "guest"} : Copy(year, host)
      PROVE  DemandTypeOK'
  BY <1>5, OtherStep DEF Kept
<1> QED
  BY <1>1, <1>2, <1>3, <1>4, <1>5

\* Whatever is declared, planned, shared, covered or copied: what another
\* programme holds has no parts here, and one cohort at most is a guest, never
\* one that is a host (the schema has no constraint for any of it).
THEOREM CohortsStayWellFormed == DemandSpec => []DemandTypeOK
<1>1. DemandInit => DemandTypeOK
  <2> SUFFICES ASSUME cohorts = <<>>, split \in Splits PROVE DemandTypeOK
    BY DEF DemandInit
  <2>1. DOMAIN cohorts = {} /\ cohorts \in [{} -> Cohort]
    OBVIOUS
  <2>2. IsFiniteSet({})
    BY FS_EmptySet
  <2> QED
    BY <2>1, <2>2 DEF DemandTypeOK, WellFormed
<1> QED
  BY <1>1, DemandTypeStep, PTL DEF DemandSpec

\* A lecture held once for all cohorts stays held once: no plan, no carried
\* split, no duplicate, no withdrawal and no change of a sharing makes a cohort
\* attend two.
THEOREM LectureStaysHeldOnce == DemandSpec => LectureIsHeldOnce
<1> DEFINE Exempt ==
        \/ \E l \in Letter, host \in BOOLEAN : Declare(l, host)
        \/ \E l \in Letter : Release(l)
        \/ \E year \in LastYear, host \in {"absent", "free", "guest"} :
            Copy(year, host) /\ (cohorts # <<>> \/ ~AttendedOnce(year))
<1>1. DemandTypeOK /\ DemandTypeOK' /\ [DemandNext]_demandVars
        => [AttendedOnce(cohorts) /\ ~AttendedOnce(cohorts') => Exempt]_demandVars
  <2> SUFFICES ASSUME DemandTypeOK, DemandTypeOK', DemandNext,
                      AttendedOnce(cohorts), ~AttendedOnce(cohorts')
               PROVE  Exempt
    OBVIOUS
  <2>1. WellFormed(cohorts) /\ WellFormed(cohorts')
    BY DEF DemandTypeOK
  <2>2. Once(cohorts) /\ ~Once(cohorts')
    BY <2>1, AttendedOnceIsOnce
  <2>3. CASE \E l \in Letter, host \in BOOLEAN : Declare(l, host)
    BY <2>3
  <2>4. CASE \E l \in Letter : Release(l)
    BY <2>4
  <2>5. ASSUME NEW year \in LastYear, NEW host \in {"absent", "free", "guest"}, Copy(year, host)
        PROVE  Exempt
    <3>1. ~(cohorts = <<>> /\ Once(year))
      BY <2>2, <2>5, CopyStep
    <3>2. AttendedOnce(year) <=> Once(year)
      BY DemandAssumption, AttendedOnceIsOnce
    <3>3. cohorts # <<>> \/ ~AttendedOnce(year)
      BY <3>1, <3>2
    <3> QED
      BY <2>5, <3>3
  <2>6. ASSUME ~ \E l \in Letter, host \in BOOLEAN : Declare(l, host),
               ~ \E l \in Letter : Release(l),
               ~ \E year \in LastYear, host \in {"absent", "free", "guest"} : Copy(year, host)
        PROVE  FALSE
    BY <2>2, <2>6, OtherStep DEF Kept
  <2> QED
    BY <2>3, <2>4, <2>5, <2>6
<1> QED
  BY <1>1, CohortsStayWellFormed, PTL DEF DemandSpec, LectureIsHeldOnce

-----------------------------------------------------------------------------
(* A save does what it was asked or says what it refused.                  *)

\* The places of the groups that are the cohort's own.
Own(groups) == {i \in DOMAIN groups : ~groups[i].shared}

LEMMA OwnFacts ==
    ASSUME NEW groups \in Seq(Group)
    PROVE  /\ Own(groups) \in SUBSET (DOMAIN groups) /\ Own(groups) \in SUBSET Nat
           /\ IsFiniteSet(Own(groups)) /\ Cardinality(Own(groups)) \in Nat
<1>1. Own(groups) \in SUBSET (DOMAIN groups)
  BY DEF Own
<1>2. DOMAIN groups \subseteq Nat
  OBVIOUS
<1> QED
  BY <1>1, <1>2, Numbers

\* The own groups from a place on, and whether the one there goes.
From(groups, i) == {j \in DOMAIN groups : j >= i /\ ~groups[j].shared}
Goes(groups, i, tooMany) ==
    /\ ~groups[i].shared
    /\ \A j \in From(groups, i) : groups[j].pieces = 0 /\ groups[j].use # "held"
    /\ Cardinality(From(groups, i)) <= tooMany
Going(groups, tooMany) == {i \in DOMAIN groups : Goes(groups, i, tooMany)}

LEMMA TrimmedIs ==
    ASSUME NEW groups, NEW tooMany
    PROVE  Trimmed(groups, tooMany) = Chosen(groups, DOMAIN groups \ Going(groups, tooMany))
<1>1. DOMAIN groups \ Going(groups, tooMany)
        = {i \in DOMAIN groups : ~Goes(groups, i, tooMany)}
  BY DEF Going
<1> QED
  BY <1>1 DEF Trimmed, Goes, From

LEMMA FromFacts ==
    ASSUME NEW groups \in Seq(Group), NEW i
    PROVE  IsFiniteSet(From(groups, i)) /\ Cardinality(From(groups, i)) \in Nat
<1>1. From(groups, i) \in SUBSET (DOMAIN groups)
  BY DEF From
<1> QED
  BY <1>1, Numbers

\* The own groups that go are no more than there are too many: they are among
\* those from the first of them on.
LEMMA GoingFacts ==
    ASSUME NEW groups \in Seq(Group), NEW tooMany \in Nat
    PROVE  LET R == Going(groups, tooMany) IN
           /\ R \in SUBSET Own(groups) /\ R \in SUBSET Nat /\ IsFiniteSet(R)
           /\ Cardinality(R) \in Nat /\ Cardinality(R) <= tooMany
           /\ \A i \in R, j \in Own(groups) : i <= j => j \in R
<1> DEFINE R == Going(groups, tooMany)
<1>1. R \in SUBSET (DOMAIN groups) /\ R \in SUBSET Own(groups) /\ R \in SUBSET Nat
  <2>1. DOMAIN groups \subseteq Nat
    OBVIOUS
  <2> QED
    BY <2>1 DEF Going, Goes, Own
<1>2. IsFiniteSet(R) /\ Cardinality(R) \in Nat /\ (R = {} => Cardinality(R) = 0)
  <2> HIDE DEF R
  <2> QED
    BY <1>1, Numbers
<1>3. \A i \in R : ~groups[i].shared /\ Cardinality(From(groups, i)) <= tooMany
  BY DEF Going, Goes
<1>4. Cardinality(R) <= tooMany
  <2>1. CASE R = {}
    <3> HIDE DEF R
    <3> QED
      BY <1>2, <2>1
  <2>2. CASE R # {}
    <3> DEFINE i == Min(R)
    <3> HIDE DEF R
    <3>1. i \in R /\ \A j \in R : i <= j
      BY <1>1, <2>2, MinFacts
    <3> HIDE DEF i
    <3>2. R \in SUBSET From(groups, i)
      BY <1>1, <1>3, <3>1 DEF From
    <3>3. Cardinality(From(groups, i)) <= tooMany
      BY <1>3, <3>1
    <3>4. Cardinality(R) <= Cardinality(From(groups, i))
      BY <3>2, FromFacts, FS_Subset
    <3> QED
      BY <1>2, <3>3, <3>4, FromFacts
  <2> QED
    BY <2>1, <2>2
<1>5. ASSUME NEW i \in R, NEW j \in Own(groups), i <= j
      PROVE  j \in R
  <2>1. /\ j \in DOMAIN groups /\ ~groups[j].shared /\ i \in Nat /\ j \in Nat
        /\ Goes(groups, i, tooMany)
    BY <1>1, OwnFacts DEF Own, Going
  <2>2. From(groups, j) \in SUBSET From(groups, i)
    <3>1. \A x \in DOMAIN groups : x \in Nat /\ (x >= j => x >= i)
      BY <1>5, <2>1
    <3> QED
      BY <3>1 DEF From
  <2>3. Cardinality(From(groups, j)) <= Cardinality(From(groups, i))
    BY <2>2, FromFacts, FS_Subset
  <2>4. Cardinality(From(groups, j)) <= tooMany
    BY <2>1, <2>3, FromFacts DEF Goes
  <2> QED
    BY <2>1, <2>2, <2>4 DEF Goes, Going
<1> HIDE DEF R
<1> QED
  BY <1>1, <1>2, <1>4, <1>5 DEF R

\* What is left of the groups, by the places they had.
LEMMA TrimmedPlaces ==
    ASSUME NEW groups \in Seq(Group), NEW tooMany \in Nat, NEW q, NEW I,
           q = Trimmed(groups, tooMany), I = DOMAIN groups \ Going(groups, tooMany)
    PROVE  /\ I \in SUBSET (DOMAIN groups) /\ I \in SUBSET Nat /\ IsFiniteSet(I)
           /\ q \in Seq(Group) /\ DOMAIN q = 1 .. Cardinality(I)
           /\ \A r \in 1 .. Cardinality(I) :
                    Nth(I, r - 1) \in I /\ q[r] = groups[Nth(I, r - 1)]
<1>1. DOMAIN groups \in SUBSET Nat
  OBVIOUS
<1>2. q = Chosen(groups, I) /\ I \in SUBSET (DOMAIN groups)
  BY TrimmedIs
<1>3. /\ IsFiniteSet(I) /\ Chosen(groups, I) \in Seq(Group)
      /\ DOMAIN Chosen(groups, I) = 1 .. Cardinality(I)
      /\ \A r \in 1 .. Cardinality(I) :
            Nth(I, r - 1) \in I /\ Chosen(groups, I)[r] = groups[Nth(I, r - 1)]
  <2>1. I \in SUBSET (DOMAIN groups)
    BY <1>2
  <2> QED
    BY <2>1, ChosenFacts
<1> QED
  BY <1>1, <1>2, <1>3

LEMMA TrimmedFacts ==
    ASSUME NEW groups \in Seq(Group), NEW tooMany \in Nat
    PROVE  LET n == Cardinality(Own(groups))
               m == Cardinality(Own(Trimmed(groups, tooMany)))
           IN  m \in Nat /\ m = n - Cardinality(Going(groups, tooMany))
<1> DEFINE R == Going(groups, tooMany)
           I == DOMAIN groups \ R
           q == Trimmed(groups, tooMany)
           S == Own(groups) \ R
<1>1. /\ I \in SUBSET Nat /\ IsFiniteSet(I)
      /\ q \in Seq(Group) /\ DOMAIN q = 1 .. Cardinality(I)
      /\ \A r \in 1 .. Cardinality(I) : Nth(I, r - 1) \in I /\ q[r] = groups[Nth(I, r - 1)]
  BY TrimmedPlaces
<1>2. R \in SUBSET Own(groups) /\ Cardinality(R) \in Nat
  BY GoingFacts
<1>3. S \in SUBSET I /\ \A i \in I : i \in S <=> ~groups[i].shared
  BY DEF Own
<1> HIDE DEF I, q, R
<1>4. \A r : r \in Own(q) <=> r \in 1 .. Cardinality(I) /\ Nth(I, r - 1) \in S
  <2> HIDE DEF S
  <2> QED
    BY <1>1, <1>3 DEF Own
<1>5. Cardinality(Own(q)) = Cardinality(S)
  <2> DEFINE T == Own(q)
  <2>1. \A r : r \in T <=> r \in 1 .. Cardinality(I) /\ Nth(I, r - 1) \in S
    BY <1>4
  <2> HIDE DEF S, T
  <2>2. Cardinality(T) = Cardinality(S)
    BY <1>1, <1>3, <2>1, RanksCount
  <2> QED
    BY <2>2 DEF T
<1>6. Cardinality(S) = Cardinality(Own(groups)) - Cardinality(R)
  <2>1. Own(groups) \cap R = R
    BY <1>2
  <2>2. Cardinality(S) = Cardinality(Own(groups)) - Cardinality(Own(groups) \cap R)
    BY OwnFacts, FS_Difference
  <2> QED
    BY <2>1, <2>2
<1>7. Cardinality(Own(q)) \in Nat
  BY <1>1, OwnFacts
<1> QED
  BY <1>5, <1>6, <1>7 DEF q, R

\* Where none goes, all stay.
LEMMA NoneGoes ==
    ASSUME NEW groups \in Seq(Group), NEW tooMany,
           \A i \in DOMAIN groups : ~Goes(groups, i, tooMany)
    PROVE  Trimmed(groups, tooMany) = groups
<1>1. DOMAIN groups \ Going(groups, tooMany) = DOMAIN groups
  BY DEF Going
<1>2. Trimmed(groups, tooMany) = Chosen(groups, DOMAIN groups)
  BY <1>1, TrimmedIs
<1> QED
  BY <1>2, ChosenAll

\* What stayed because of a divided or a held group, stays.
LEMMA TrimmedAgain ==
    ASSUME NEW groups \in Seq(Group), NEW tooMany \in Nat, NEW left,
           left = tooMany - Cardinality(Going(groups, tooMany))
    PROVE  Trimmed(Trimmed(groups, tooMany), left) = Trimmed(groups, tooMany)
<1> DEFINE R == Going(groups, tooMany)
           I == DOMAIN groups \ R
           q == Trimmed(groups, tooMany)
           c == Cardinality(I)
<1>1. /\ I \in SUBSET (DOMAIN groups) /\ I \in SUBSET Nat /\ IsFiniteSet(I)
      /\ q \in Seq(Group) /\ DOMAIN q = 1 .. c
      /\ \A r \in 1 .. c : Nth(I, r - 1) \in I /\ q[r] = groups[Nth(I, r - 1)]
  BY TrimmedPlaces
<1>2. /\ R \in SUBSET Own(groups) /\ R \in SUBSET Nat /\ Cardinality(R) \in Nat
      /\ \A i \in R, j \in Own(groups) : i <= j => j \in R
  BY GoingFacts
<1>3. \A j \in DOMAIN groups : j \in I <=> ~Goes(groups, j, tooMany)
  BY DEF Going
<1>4. \A j \in DOMAIN groups : j \in R <=> j \notin I
  BY DEF Going
<1>5. c \in Nat /\ left = tooMany - Cardinality(R)
  BY <1>1, FS_CardinalityType
<1> HIDE DEF R, I, q
<1>6. ASSUME NEW r \in DOMAIN q, Goes(q, r, left) PROVE FALSE
  <2> DEFINE i == Nth(I, r - 1)
             S == From(groups, i) \ R
             T == From(q, r)
  <2>1. /\ r \in 1 .. c /\ i \in I /\ i \in DOMAIN groups /\ i \in Nat
        /\ q[r] = groups[i] /\ ~groups[i].shared
    BY <1>1, <1>6 DEF Goes
  <2>2. \A p \in 1 .. c : p >= r <=> Nth(I, p - 1) >= i
    <3>1. \A p \in 1 .. c : p - 1 \in 0 .. c - 1 /\ (p >= r <=> r - 1 <= p - 1)
      BY <1>5, <2>1
    <3>2. r - 1 \in 0 .. c - 1
      BY <2>1, <3>1
    <3>3. \A p \in 1 .. c : Nth(I, p - 1) \in Nat
      BY <1>1
    <3>4. \A p \in 1 .. c : r - 1 <= p - 1 <=> i <= Nth(I, p - 1)
      BY <1>1, <3>1, <3>2, NthGrows
    <3> HIDE DEF i, c
    <3> QED
      BY <2>1, <3>1, <3>3, <3>4
  <2>3. \A p : p \in T <=> p \in 1 .. c /\ Nth(I, p - 1) \in S
    <3> SUFFICES ASSUME NEW p \in 1 .. c PROVE p \in T <=> Nth(I, p - 1) \in S
      BY <1>1 DEF From
    <3>1. /\ Nth(I, p - 1) \in I /\ Nth(I, p - 1) \in DOMAIN groups
          /\ q[p] = groups[Nth(I, p - 1)]
      BY <1>1
    <3>2. Nth(I, p - 1) \notin R
      BY <1>4, <3>1
    <3> HIDE DEF i, c
    <3> QED
      BY <1>1, <2>2, <3>1, <3>2 DEF From, c
  <2>4. S \in SUBSET I
    BY <1>4 DEF From
  <2>5. Cardinality(T) = Cardinality(S)
    <3> HIDE DEF S, T
    <3> QED
      BY <1>1, <2>3, <2>4, RanksCount
  <2>6. R \in SUBSET From(groups, i)
    <3> SUFFICES ASSUME NEW j \in R PROVE j \in From(groups, i)
      OBVIOUS
    <3>1. j \in Own(groups) /\ i \in Own(groups) /\ j \in Nat /\ i \notin R
      BY <1>2, <1>4, <2>1 DEF Own
    <3>2. ~(j <= i)
      BY <1>2, <3>1
    <3> HIDE DEF i
    <3> QED
      BY <2>1, <3>1, <3>2 DEF From, Own
  <2>7. Cardinality(From(groups, i)) <= tooMany
    <3>1. Cardinality(S) = Cardinality(From(groups, i)) - Cardinality(R)
      <4>1. From(groups, i) \cap R = R
        BY <2>6
      <4> HIDE DEF i
      <4>2. Cardinality(S) = Cardinality(From(groups, i)) - Cardinality(From(groups, i) \cap R)
        BY FromFacts, FS_Difference
      <4> QED
        BY <4>1, <4>2
    <3>2. Cardinality(T) <= left /\ Cardinality(T) \in Nat
      BY <1>1, <1>6, FromFacts DEF Goes
    <3>3. Cardinality(From(groups, i)) \in Nat
      BY FromFacts
    <3> HIDE DEF S, T, i
    <3> QED
      BY <1>2, <1>5, <2>5, <3>1, <3>2, <3>3
  <2>8. ASSUME NEW j \in From(groups, i)
        PROVE  groups[j].pieces = 0 /\ groups[j].use # "held"
    <3>1. j \in DOMAIN groups /\ ~groups[j].shared /\ j \in Nat
      BY DEF From
    <3>2. CASE j \in R
      <4>1. Goes(groups, j, tooMany)
        BY <3>2 DEF R, Going
      <4>2. j \in From(groups, j)
        BY <3>1 DEF From
      <4> QED
        BY <4>1, <4>2 DEF Goes
    <3>3. CASE j \notin R
      <4>1. j \in I
        BY <1>4, <3>1, <3>3
      <4>2. Rank(I, j) \in 0 .. c - 1 /\ Nth(I, Rank(I, j)) = j
        BY <1>1, <4>1, RankFacts, NthFacts
      <4> DEFINE p == Rank(I, j) + 1
      <4>3. p \in 1 .. c /\ p - 1 = Rank(I, j)
        <5> HIDE DEF c
        <5> QED
          BY <1>5, <4>2
      <4>4. Nth(I, p - 1) = j
        BY <4>2, <4>3
      <4> HIDE DEF p
      <4>5. p \in T
        BY <2>3, <3>3, <4>3, <4>4
      <4>6. q[p] = groups[j]
        BY <1>1, <4>3, <4>4
      <4> QED
        BY <1>6, <4>5, <4>6 DEF Goes
    <3> QED
      BY <3>2, <3>3
  <2> QED
    BY <1>3, <2>1, <2>7, <2>8 DEF Goes
<1> QED
  BY <1>1, <1>6, NoneGoes DEF q

LEMMA AppendedFacts ==
    ASSUME NEW groups \in Seq(Group), NEW m \in Nat
    PROVE  LET q == groups \o [i \in 1 .. m |-> Part(0)] IN
           Cardinality(Own(q)) = Cardinality(Own(groups)) + m
<1> DEFINE new == [i \in 1 .. m |-> Part(0)]
           n == Len(groups)
           q == groups \o new
           added == n + 1 .. n + m
<1>1. new \in Seq(Group) /\ Len(new) = m /\ \A i \in 1 .. m : new[i] = Part(0)
  BY PartType
<1>2. n \in Nat /\ DOMAIN groups = 1 .. n
  OBVIOUS
<1> HIDE DEF new
<1>3. /\ DOMAIN q = 1 .. n + m
      /\ \A i \in 1 .. n : q[i] = groups[i]
      /\ \A i \in 1 .. n + m : n < i => q[i] = Part(0)
  BY <1>1, <1>2
<1> HIDE DEF n, q
<1>4. ~Part(0).shared
  BY DEF Part
<1>5. Own(q) = Own(groups) \cup added
  <2>1. \A i \in Own(q) : i \in Own(groups) \/ i \in added
    BY <1>2, <1>3 DEF Own
  <2>2. \A i \in Own(groups) : i \in Own(q)
    BY <1>2, <1>3 DEF Own
  <2>3. \A i \in added : i \in Own(q)
    BY <1>2, <1>3, <1>4 DEF Own
  <2> QED
    BY <2>1, <2>2, <2>3
<1>6. Own(groups) \cap added = {}
  BY <1>2 DEF Own
<1>7. IsFiniteSet(added) /\ Cardinality(added) = m
  <2>1. n + 1 \in Int /\ n + m \in Int
    BY <1>2
  <2>2. IsFiniteSet(added)
        /\ Cardinality(added) = IF n + 1 > n + m THEN 0 ELSE (n + m) - (n + 1) + 1
    BY ONLY <2>1, FS_Interval
  <2> HIDE DEF added
  <2> QED
    BY <1>2, <2>2
<1> HIDE DEF added
<1>8. IsFiniteSet(Own(groups)) /\ Cardinality(Own(groups)) \in Nat
  BY OwnFacts
<1>9. Cardinality(Own(groups) \cup added) = Cardinality(Own(groups)) + m - Cardinality({})
  BY <1>6, <1>7, <1>8, FS_Union
<1>10. Cardinality(Own(groups) \cup added) = Cardinality(Own(groups)) + m
  BY <1>8, <1>9, FS_EmptySet
<1> QED
  BY <1>5, <1>10 DEF q, new

LEMMA OwnGroupsAre ==
    ASSUME NEW c, NEW k
    PROVE  OwnGroups(c, k) = Cardinality(Own(c.parts[k]))
BY DEF OwnGroups, Own

\* The groups after the adjustment: as many more as there were seen too few, or
\* at least as many as there are to be.
Moves(before, seen, n, after) ==
    /\ before \in Nat /\ after \in Nat
    /\ seen < n => after = before + n - seen
    /\ ~(seen < n) => after <= before /\ before - (seen - n) <= after
    /\ seen = n => after = before

LEMMA AdjustedOwn ==
    ASSUME NEW c \in Cohort, c.held # "covered", NEW s \in Seq(Kind), Practical(s) \in Kind,
           NEW seen \in Nat, NEW n \in Nat
    PROVE  Moves(OwnGroups(c, Practical(s)), seen, n,
                 OwnGroups(Adjusted(c, s, seen, n), Practical(s)))
<1> DEFINE k == Practical(s)
           p == c.parts[k]
           groups == IF seen < n THEN p \o [i \in 1 .. n - seen |-> Part(0)]
                     ELSE Trimmed(p, seen - n)
<1>1. p \in Seq(Group) /\ k # NoKind
  BY OwnGroupsType, KindFacts
<1>2. Adjusted(c, s, seen, n).parts[k] = groups
  <2>1. Adjusted(c, s, seen, n) = [c EXCEPT !.parts = [c.parts EXCEPT ![k] = groups]]
    BY <1>1 DEF Adjusted, Cohort
  <2>2. DOMAIN c.parts = Kind
    BY DEF Cohort
  <2> HIDE DEF groups, p, k
  <2> QED
    BY <2>1, <2>2 DEF Cohort, k
<1>3. /\ OwnGroups(c, k) = Cardinality(Own(p))
      /\ OwnGroups(Adjusted(c, s, seen, n), k) = Cardinality(Own(groups))
  BY <1>2, OwnGroupsAre
<1>4. Cardinality(Own(p)) \in Nat
  BY <1>1, OwnFacts
<1> HIDE DEF p, k
<1>5. CASE seen < n
  <2>1. n - seen \in Nat
    BY <1>5
  <2>2. Cardinality(Own(p \o [i \in 1 .. n - seen |-> Part(0)])) = Cardinality(Own(p)) + (n - seen)
    BY <1>1, <2>1, AppendedFacts
  <2>3. Cardinality(Own(groups)) = Cardinality(Own(p)) + (n - seen)
    BY <1>5, <2>2
  <2> HIDE DEF groups
  <2> QED
    BY <1>3, <1>4, <1>5, <2>3 DEF k, Moves
<1>6. CASE ~(seen < n)
  <2>1. seen - n \in Nat
    BY <1>6
  <2>2. groups = Trimmed(p, seen - n)
    BY <1>6
  <2> HIDE DEF groups
  <2>3. /\ Cardinality(Own(groups)) \in Nat /\ Cardinality(Own(groups)) <= Cardinality(Own(p))
        /\ Cardinality(Own(p)) - (seen - n) <= Cardinality(Own(groups))
    <3>1. Cardinality(Going(p, seen - n)) \in Nat /\ Cardinality(Going(p, seen - n)) <= seen - n
      BY <1>1, <2>1, GoingFacts
    <3>2. /\ Cardinality(Own(groups)) \in Nat
          /\ Cardinality(Own(groups)) = Cardinality(Own(p)) - Cardinality(Going(p, seen - n))
      BY <1>1, <2>1, <2>2, TrimmedFacts
    <3> QED
      BY <1>4, <1>6, <3>1, <3>2
  <2> QED
    BY <1>3, <1>4, <1>6, <2>3 DEF k, Moves
<1> QED
  BY <1>5, <1>6

\* What the withdrawals of a save leave of a cohort that stays: its parts, and
\* where a host was withdrawn, its share of what that one held for everybody.
StaysOf(cs, want, ds) ==
    \A m \in DOMAIN ds :
        /\ ds[m].held = cs[m].held /\ ds[m].hosts = cs[m].hosts
        /\ \A k \in Kind :
            \/ ds[m].parts[k] = cs[m].parts[k]
            \/ /\ \E l \in Leaving(cs, want) : cs[l].hosts
               /\ cs[m].parts[k] = <<>> /\ ds[m].parts[k] = <<Part(0)>>

LEMMA WithdrawnStays ==
    ASSUME NEW cs, NEW want, NEW ds, WellFormed(ds), DOMAIN ds \subseteq Nat,
           StaysOf(cs, want, ds), NEW l \in DOMAIN ds, l \in Leaving(cs, want), NEW keep
    PROVE  StaysOf(cs, want, Withdrawn(ds, l, keep))
<1> DEFINE new == Withdrawn(ds, l, keep)
           kept == Promoted(ds, l)
           handed == \E j \in Leaving(cs, want) : cs[j].hosts
<1>1. \/ new = ds
      \/ /\ DOMAIN new = DOMAIN ds \ {l}
         /\ \A m \in DOMAIN new :
                new[m].held = kept[m].held /\ new[m].hosts = kept[m].hosts
                /\ new[m].parts = kept[m].parts
  <2>1. \/ new = ds
        \/ WellFormed(new) /\ DOMAIN new = DOMAIN ds \ {l} /\ TakenAway(ds, l, new)
    BY WithdrawnFacts
  <2> HIDE DEF new
  <2> QED
    BY <2>1 DEF TakenAway
<1>2. \A m \in DOMAIN ds \ {l} :
            /\ kept[m].held = ds[m].held /\ kept[m].hosts = ds[m].hosts
            /\ \A k \in Kind :
                \/ kept[m].parts[k] = ds[m].parts[k]
                \/ ds[l].hosts /\ ds[m].parts[k] = <<>> /\ kept[m].parts[k] = <<Part(0)>>
  <2>1. CASE ~ds[l].hosts
    <3>1. kept = ds
      BY <2>1, PromotedFacts
    <3> QED
      BY <3>1
  <2>2. CASE ds[l].hosts
    <3>1. \A m \in DOMAIN ds : kept[m].held = ds[m].held
                               /\ (m # l => kept[m].hosts = ds[m].hosts)
      BY PromotedFacts
    <3>2. \A m \in DOMAIN ds \ {l}, k \in Kind :
            kept[m].parts[k] = IF ds[m].held # "covered" /\ Shares(ds[l], k) /\ ds[m].parts[k] = <<>>
                               THEN <<Part(0)>> ELSE ds[m].parts[k]
      BY <2>2, PromotedFacts
    <3> HIDE DEF kept
    <3> QED
      BY <2>2, <3>1, <3>2
  <2> QED
    BY <2>1, <2>2
<1> HIDE DEF new, kept
<1>3. CASE new = ds
  BY <1>3 DEF new
<1>4. CASE new # ds
  <2>1. ds[l].hosts => handed
    BY DEF StaysOf
  <2> HIDE DEF handed
  <2>2. ASSUME NEW m \in DOMAIN new, NEW k \in Kind
        PROVE  \/ new[m].parts[k] = cs[m].parts[k]
               \/ handed /\ cs[m].parts[k] = <<>> /\ new[m].parts[k] = <<Part(0)>>
    <3>1. m \in DOMAIN ds \ {l} /\ new[m].parts = kept[m].parts
      BY <1>1, <1>4
    <3>2. \/ kept[m].parts[k] = ds[m].parts[k]
          \/ handed /\ ds[m].parts[k] = <<>> /\ kept[m].parts[k] = <<Part(0)>>
      BY <1>2, <2>1, <3>1
    <3>3. \/ ds[m].parts[k] = cs[m].parts[k]
          \/ handed /\ cs[m].parts[k] = <<>> /\ ds[m].parts[k] = <<Part(0)>>
      BY <3>1 DEF StaysOf, handed
    <3>4. <<Part(0)>> # <<>>
      OBVIOUS
    <3> QED
      BY <3>1, <3>2, <3>3, <3>4
  <2>3. ASSUME NEW m \in DOMAIN new
        PROVE  new[m].held = cs[m].held /\ new[m].hosts = cs[m].hosts
    <3>1. /\ m \in DOMAIN ds \ {l}
          /\ new[m].held = kept[m].held /\ new[m].hosts = kept[m].hosts
      BY <1>1, <1>4
    <3> QED
      BY <1>2, <3>1 DEF StaysOf
  <2> QED
    BY <2>2, <2>3 DEF StaysOf, new, handed
<1> QED
  BY <1>3, <1>4

LEMMA AfterLeavingStays ==
    ASSUME NEW cs, WellFormed(cs), DOMAIN cs \subseteq Nat, NEW want
    PROVE  StaysOf(cs, want, AfterLeaving(cs, want))
<1> DEFINE Q == {ds \in Subsets(cs) : WellFormed(ds) /\ DOMAIN ds \subseteq DOMAIN cs =>
                    StaysOf(cs, want, ds)}
<1>1. cs \in Q
  BY InSubsets DEF StaysOf
<1>2. ASSUME NEW ds \in Q, NEW l \in Leaving(cs, want),
             WellFormed(ds), DOMAIN ds \subseteq DOMAIN cs, l \in DOMAIN ds
      PROVE  Withdrawn(ds, l, want # <<>>) \in Q
  <2> DEFINE new == Withdrawn(ds, l, want # <<>>)
  <2>1. StaysOf(cs, want, ds) /\ DOMAIN ds \subseteq Nat
    BY <1>2
  <2> HIDE DEF Q
  <2>2. new = ds \/ (WellFormed(new) /\ DOMAIN new = DOMAIN ds \ {l})
    BY <1>2, <2>1, WithdrawnFacts
  <2>3. StaysOf(cs, want, new)
    BY <1>2, <2>1, WithdrawnStays
  <2> HIDE DEF new
  <2>4. WellFormed(new) /\ DOMAIN new \subseteq DOMAIN cs
    BY <1>2, <2>2
  <2>5. new \in Subsets(cs)
    BY <2>4, InSubsets
  <2> QED
    BY <2>3, <2>5 DEF Q, new
<1> HIDE DEF Q
<1>3. AfterLeaving(cs, want) \in Q
  BY <1>1, <1>2, LeavingInduction
<1>4. WellFormed(AfterLeaving(cs, want)) /\ DOMAIN AfterLeaving(cs, want) \subseteq DOMAIN cs
  BY AfterLeavingFacts
<1> QED
  BY <1>3, <1>4 DEF Q

\* A letter the screen leaves out is still there only if its withdrawal was
\* tried, and so refused.
LEMMA LeftOutIsRefused ==
    ASSUME NEW cs, WellFormed(cs), DOMAIN cs \subseteq Nat, NEW s \in Seq(Kind),
           NEW want, Screen(want), NEW host,
           NEW l \in DOMAIN Planned(cs, s, want, host) \ DOMAIN want
    PROVE  l \in Leaving(cs, want)
<1>1. l \in DOMAIN AfterRenames(cs, want) \cup Missing(cs, s, want)
  <2>1. DOMAIN Planned(cs, s, want, host) = DOMAIN AfterCreating(cs, s, want, host)
    BY PlannedFacts
  <2>2. DOMAIN AfterCreating(cs, s, want, host)
            = DOMAIN AfterRenames(cs, want) \cup Missing(cs, s, want)
    BY AfterCreatingFacts
  <2> QED
    BY <2>1, <2>2
<1>2. l \in DOMAIN AfterRenames(cs, want)
  BY <1>1 DEF Missing, Open
<1>3. DOMAIN AfterRenames(cs, want)
        = (DOMAIN AfterLeaving(cs, want) \ Renamed(cs, want)) \cup Taken(cs, want)
  BY AfterRenamesFacts
<1>4. Taken(cs, want) \subseteq DOMAIN want \ DOMAIN cs
  BY BeforeFacts
<1>5. DOMAIN AfterLeaving(cs, want) \subseteq DOMAIN cs
  BY AfterLeavingFacts
<1>6. l \in DOMAIN cs /\ l \notin Renamed(cs, want)
  BY <1>2, <1>3, <1>4, <1>5
<1> QED
  BY <1>6 DEF Leaving, Spare

\* A cohort that was there has its groups as they were read, or one that it was
\* handed back where none was read.
LEMMA GroupsAsSeen ==
    ASSUME NEW cs, WellFormed(cs), DOMAIN cs \subseteq Nat, NEW s \in Seq(Kind),
           NEW want, Screen(want), NEW host, Practical(s) \in Kind,
           NEW l \in DOMAIN AfterCreating(cs, s, want, host)
    PROVE  LET before == OwnGroups(AfterCreating(cs, s, want, host)[l], Practical(s))
               seen == Seen(cs, s, want, host, l)
           IN  /\ before \in Nat /\ seen \in Nat
               /\ \/ before = seen
                  \/ /\ \E m \in Leaving(cs, want) : cs[m].hosts
                     /\ seen = 0 /\ before = 1
<1> DEFINE more == AfterCreating(cs, s, want, host)
           renamed == AfterRenames(cs, want)
           less == AfterLeaving(cs, want)
           k == Practical(s)
           handed == \E m \in Leaving(cs, want) : cs[m].hosts
<1>1. OwnGroups(more[l], k) \in Nat /\ Seen(cs, s, want, host, l) \in Nat
  <2>1. WellFormed(more)
    BY AfterCreatingFacts
  <2>2. more[l] \in Cohort
    BY <2>1 DEF WellFormed
  <2>3. Practical(s) # NoKind
    BY KindFacts
  <2> QED
    BY <2>2, <2>3, OwnGroupsType, PlannedFacts
<1>2. CASE l \notin DOMAIN renamed
  BY <1>1, <1>2 DEF Seen
<1>3. CASE l \in DOMAIN renamed
  <2> DEFINE b == Before(cs, want, l)
  <2>1. b \in DOMAIN less /\ more[l] = less[b]
    <3>1. \A m \in DOMAIN renamed :
            Before(cs, want, m) \in DOMAIN less /\ renamed[m] = less[Before(cs, want, m)]
      BY AfterRenamesFacts
    <3>2. l \in DOMAIN renamed => more[l] = renamed[l]
      BY AfterCreatingValues
    <3> HIDE DEF renamed, less, more
    <3> QED
      BY <1>3, <3>1, <3>2
  <2>2. Seen(cs, s, want, host, l) = OwnGroups(cs[b], k)
    BY <1>3 DEF Seen
  <2> HIDE DEF less, more, renamed, k, b
  <2>3. \/ less[b].parts[k] = cs[b].parts[k]
        \/ handed /\ cs[b].parts[k] = <<>> /\ less[b].parts[k] = <<Part(0)>>
    BY <2>1, AfterLeavingStays DEF StaysOf, less, k
  <2>4. CASE less[b].parts[k] = cs[b].parts[k]
    <3>1. OwnGroups(less[b], k) = OwnGroups(cs[b], k)
      BY <2>4 DEF OwnGroups
    <3> QED
      BY <1>1, <2>1, <2>2, <3>1 DEF more, k
  <2>5. CASE handed /\ cs[b].parts[k] = <<>> /\ less[b].parts[k] = <<Part(0)>>
    <3>1. OwnGroups(cs[b], k) = 0
      <4>1. {i \in DOMAIN cs[b].parts[k] : ~cs[b].parts[k][i].shared} = {}
        BY <2>5
      <4> QED
        BY <4>1, FS_EmptySet DEF OwnGroups
    <3>2. OwnGroups(less[b], k) = 1
      <4>1. DOMAIN less[b].parts[k] = {1} /\ less[b].parts[k][1] = Part(0)
        BY <2>5
      <4>2. {i \in DOMAIN less[b].parts[k] : ~less[b].parts[k][i].shared} = {1}
        BY <4>1 DEF Part
      <4> QED
        BY <4>2, FS_Singleton DEF OwnGroups
    <3> QED
      BY <1>1, <2>1, <2>2, <2>5, <3>1, <3>2 DEF more, k
  <2> QED
    BY <2>3, <2>4, <2>5
<1> QED
  BY <1>2, <1>3

\* A cohort asked for has its groups after the save, or its groups are refused.
LEMMA GroupsAsAsked ==
    ASSUME NEW cs, WellFormed(cs), DOMAIN cs \subseteq Nat, NEW s \in Seq(Kind),
           NEW want, Screen(want), NEW host, Practical(s) \in Kind,
           NEW l \in DOMAIN want \cap DOMAIN Planned(cs, s, want, host),
           Planned(cs, s, want, host)[l].held # "covered",
           <<l, "PART_KEPT">> \notin Refusals(cs, s, want, Planned(cs, s, want, host))
    PROVE  OwnGroups(Planned(cs, s, want, host)[l], Practical(s)) - want[l]
            \in IF \E m \in Leaving(cs, want) : cs[m].hosts THEN {0, 1} ELSE {0}
<1> DEFINE more == AfterCreating(cs, s, want, host)
           plan == Planned(cs, s, want, host)
           k == Practical(s)
           seen == Seen(cs, s, want, host, l)
           before == OwnGroups(more[l], k)
           after == OwnGroups(plan[l], k)
           n == want[l]
           handed == \E m \in Leaving(cs, want) : cs[m].hosts
<1>1. /\ l \in DOMAIN more /\ plan[l] = Adjusted(more[l], s, seen, n)
      /\ more[l].held # "covered"
  BY PlannedFacts
<1>2. more[l] \in Cohort
  <2>1. WellFormed(more)
    BY AfterCreatingFacts
  <2> QED
    BY <1>1, <2>1 DEF WellFormed
<1>3. n \in Nat
  BY DemandAssumption DEF Screen
<1>4. /\ before \in Nat /\ seen \in Nat
      /\ before = seen \/ (handed /\ seen = 0 /\ before = 1)
  BY <1>1, GroupsAsSeen
<1>5. /\ after \in Nat
      /\ seen < n => after = before + n - seen
      /\ ~(seen < n) => after <= before /\ before - (seen - n) <= after
      /\ seen = n => after = before
  <2>1. Moves(OwnGroups(more[l], k), seen, n, OwnGroups(Adjusted(more[l], s, seen, n), k))
    <3> HIDE DEF more, seen, n
    <3> QED
      BY <1>1, <1>2, <1>3, <1>4, AdjustedOwn
  <2>2. OwnGroups(Adjusted(more[l], s, seen, n), k) = after
    BY <1>1
  <2> HIDE DEF more, seen, n, k, after
  <2> QED
    BY <2>1, <2>2 DEF Moves
<1>6. ~(n < after /\ n < seen)
  <2> SUFFICES ASSUME n < after, n < seen PROVE FALSE
    OBVIOUS
  <2>1. l \in DOMAIN AfterRenames(cs, want) => n < OwnGroups(cs[Before(cs, want, l)], k)
    BY DEF Seen
  <2>2. k \in {Practical(s)} \cap Kind
    OBVIOUS
  <2>3. <<l, "PART_KEPT">> \in Refusals(cs, s, want, plan)
    BY <2>1, <2>2 DEF Refusals
  <2> QED
    BY <2>3
<1> HIDE DEF more, plan, k, seen, before, after, n, handed
<1>7. after - n \in IF handed THEN {0, 1} ELSE {0}
  BY <1>3, <1>4, <1>5, <1>6
<1> QED
  BY <1>7 DEF plan, k, after, n, handed

LEMMA ScreensAreScreens == \A want \in Screens : Screen(want)
BY DemandAssumption DEF Screen

\* Whatever was declared, shared, covered or arranged before, and whatever the
\* screen asks for: a save does it or names what it refused, but for the one
\* group of a cohort that was handed back its share of a withdrawn host.
THEOREM SaveIsDoneOrRefused == DemandSpec => []PlanIsDoneOrRefused
<1>1. DemandTypeOK => PlanIsDoneOrRefused
  <2> SUFFICES ASSUME DemandTypeOK, NEW want \in Screens, NEW host \in BOOLEAN
               PROVE  LET plan == Planned(cohorts, split, want, host)
                          refused == Refusals(cohorts, split, want, plan)
                          promoted == \E l \in Leaving(cohorts, want) : cohorts[l].hosts
                      IN  /\ \A l \in DOMAIN want :
                                \/ \E code \in {"MODULE_NOT_DECOMPOSED", "INSTANCE_COVERED",
                                                "PART_KEPT"} : <<l, code>> \in refused
                                \/ /\ l \in DOMAIN plan
                                   /\ \/ Practical(split) = NoKind \/ plan[l].held = "covered"
                                      \/ OwnGroups(plan[l], Practical(split)) - want[l]
                                            \in IF promoted THEN {0, 1} ELSE {0}
                          /\ \A l \in DOMAIN plan \ DOMAIN want : <<l, "INSTANCE_IN_USE">> \in refused
    BY DEF PlanIsDoneOrRefused
  <2> DEFINE plan == Planned(cohorts, split, want, host)
             refused == Refusals(cohorts, split, want, plan)
             promoted == \E l \in Leaving(cohorts, want) : cohorts[l].hosts
  <2>1. WellFormed(cohorts) /\ DOMAIN cohorts \subseteq Nat /\ split \in Seq(Kind) /\ Screen(want)
    BY StateFacts, ScreensAreScreens
  <2>2. ASSUME NEW l \in DOMAIN want
        PROVE  \/ \E code \in {"MODULE_NOT_DECOMPOSED", "INSTANCE_COVERED", "PART_KEPT"} :
                        <<l, code>> \in refused
               \/ /\ l \in DOMAIN plan
                  /\ \/ Practical(split) = NoKind \/ plan[l].held = "covered"
                     \/ OwnGroups(plan[l], Practical(split)) - want[l]
                            \in IF promoted THEN {0, 1} ELSE {0}
    <3>1. CASE l \notin DOMAIN plan
      <4>1. <<l, "MODULE_NOT_DECOMPOSED">> \in refused
        BY <3>1 DEF Refusals
      <4> QED
        BY <4>1
    <3>2. CASE <<l, "PART_KEPT">> \in refused
      BY <3>2
    <3>3. CASE /\ l \in DOMAIN plan /\ <<l, "PART_KEPT">> \notin refused
               /\ Practical(split) # NoKind /\ plan[l].held # "covered"
      <4>1. Practical(split) \in Kind
        BY <2>1, <3>3, SplitFacts
      <4>2. OwnGroups(plan[l], Practical(split)) - want[l] \in IF promoted THEN {0, 1} ELSE {0}
        BY <2>1, <3>3, <4>1, GroupsAsAsked
      <4> QED
        BY <3>3, <4>2
    <3> QED
      BY <3>1, <3>2, <3>3
  <2>3. ASSUME NEW l \in DOMAIN plan \ DOMAIN want
        PROVE  <<l, "INSTANCE_IN_USE">> \in refused
    <3>1. l \in Leaving(cohorts, want)
      BY <2>1, LeftOutIsRefused
    <3> QED
      BY <3>1 DEF Refusals
  <2> HIDE DEF plan, refused, promoted
  <2> QED
    BY <2>2, <2>3 DEF plan, refused, promoted
<1> QED
  BY <1>1, CohortsStayWellFormed, PTL

-----------------------------------------------------------------------------
(* Pressing the button again changes nothing.                              *)

Staying(p, mayRemove) == {i \in DOMAIN p : Stays(p[i], mayRemove)}
AlignedAll(p, n) == [i \in DOMAIN p |-> Aligned(p[i], n)]
Fresh(m, n) == [i \in 1 .. m |-> Part(n - 1)]

\* What applying a split makes of the groups of a kind.
LEMMA AlignedValue ==
    ASSUME NEW c \in Cohort, NEW s \in Seq(Kind), NEW borrowed, NEW mayRemove, NEW k \in Kind,
           NEW p, p = c.parts[k], NEW n, n = Entries(s, k)
    PROVE  AlignedCohort(c, s, borrowed, mayRemove).parts[k] =
                IF n = 0 THEN Chosen(p, Staying(p, mayRemove))
                ELSE IF p # <<>> THEN AlignedAll(p, n)
                ELSE IF k \in borrowed THEN <<>>
                ELSE Fresh(Lacking(c, s, mayRemove, k), n)
<1>1. n \in Nat
  BY SplitFacts
<1>2. AlignedCohort(c, s, borrowed, mayRemove).parts[k] =
        CASE n = 0 -> Chosen(p, {i \in DOMAIN p : Stays(p[i], mayRemove)})
          [] n > 0 /\ p # <<>> -> [i \in DOMAIN p |-> Aligned(p[i], n)]
          [] n > 0 /\ p = <<>> /\ k \in borrowed -> <<>>
          [] OTHER -> [i \in 1 .. Lacking(c, s, mayRemove, k) |-> Part(n - 1)]
  BY DEF AlignedCohort, Cohort
<1>3. CASE n = 0
  BY <1>2, <1>3 DEF Staying
<1>4. CASE n > 0 /\ p # <<>>
  BY <1>2, <1>4 DEF AlignedAll
<1>5. CASE n > 0 /\ p = <<>> /\ k \in borrowed
  BY <1>2, <1>5
<1>6. CASE n > 0 /\ p = <<>> /\ k \notin borrowed
  BY <1>2, <1>6 DEF Fresh
<1> QED
  BY <1>1, <1>3, <1>4, <1>5, <1>6

\* Everything that was left stays.
LEMMA StayingStays ==
    ASSUME NEW p \in Seq(Group), NEW mayRemove, NEW q, q = Chosen(p, Staying(p, mayRemove))
    PROVE  q \in Seq(Group) /\ Staying(q, mayRemove) = DOMAIN q
<1> DEFINE I == Staying(p, mayRemove)
<1>1. I \in SUBSET (DOMAIN p) /\ \A i \in I : Stays(p[i], mayRemove)
  BY DEF Staying
<1> HIDE DEF I
<1>2. /\ q \in Seq(Group) /\ DOMAIN q = 1 .. Cardinality(I)
      /\ \A r \in 1 .. Cardinality(I) : Nth(I, r - 1) \in I /\ q[r] = p[Nth(I, r - 1)]
  BY <1>1, ChosenFacts DEF I
<1>3. \A r \in DOMAIN q : Stays(q[r], mayRemove)
  BY <1>1, <1>2
<1> QED
  BY <1>2, <1>3 DEF Staying

LEMMA AlignedOnce ==
    ASSUME NEW n \in Nat, n > 0
    PROVE  /\ \A g \in Group : Aligned(Aligned(g, n), n) = Aligned(g, n) /\ Aligned(g, n) \in Group
           /\ Aligned(Part(n - 1), n) = Part(n - 1)
<1>1. ASSUME NEW g \in Group
      PROVE  Aligned(Aligned(g, n), n) = Aligned(g, n) /\ Aligned(g, n) \in Group
  <2>1. CASE g.pieces = 0
    <3> DEFINE h == [g EXCEPT !.pieces = n - 1]
    <3>1. Aligned(g, n) = h
      BY <2>1 DEF Aligned
    <3>2. h \in Group /\ h.pieces = n - 1
      BY DEF Group
    <3>3. [h EXCEPT !.pieces = n - 1] = h
      BY <3>2 DEF Group
    <3> HIDE DEF h
    <3>4. Aligned(h, n) = h
      BY <3>3 DEF Aligned
    <3> QED
      BY <3>1, <3>2, <3>4
  <2>2. CASE g.pieces # 0
    BY <2>2 DEF Aligned
  <2> QED
    BY <2>1, <2>2
<1>2. Aligned(Part(n - 1), n) = Part(n - 1)
  BY DEF Aligned, Part
<1> QED
  BY <1>1, <1>2

\* A kind lacks nothing only where a dropped one keeps all its groups; then it
\* lacks nothing afterwards either.
LEMMA LacksNothingAgain ==
    ASSUME NEW c \in Cohort, NEW s \in Seq(Kind), NEW borrowed, NEW mayRemove, NEW k \in Kind,
           NEW d, d = AlignedCohort(c, s, borrowed, mayRemove),
           Lacking(c, s, mayRemove, k) = 0
    PROVE  Lacking(d, s, mayRemove, k) = 0
<1> DEFINE Dropped(e) == {j \in Kind \ {Lecture} : Entries(s, j) = 0 /\ e.parts[j] # <<>>}
           Most(e) == CHOOSE j \in Dropped(e) :
                        \A h \in Dropped(e) : Len(e.parts[h]) <= Len(e.parts[j])
           Leave(p) == {i \in DOMAIN p : ~Stays(p[i], mayRemove)}
<1>1. \A e : Lacking(e, s, mayRemove, k) =
                IF k = Practical(s) /\ Dropped(e) # {} THEN Cardinality(Leave(e.parts[Most(e)])) ELSE 1
  BY DEF Lacking
<1>2. ASSUME NEW e \in Cohort, Dropped(e) # {} PROVE Most(e) \in Dropped(e)
  <2> DEFINE D == Dropped(e)
  <2>1. D \in SUBSET Kind /\ D # {}
    BY <1>2
  <2> HIDE DEF D
  <2>2. \E j \in D : \A h \in D : Len(e.parts[h]) <= Len(e.parts[j])
    BY <2>1, MostFacts
  <2> QED
    BY <2>2 DEF D
<1>3. \A e, j : j \in Dropped(e) <=>
                    j \in Kind /\ j # Lecture /\ Entries(s, j) = 0 /\ e.parts[j] # <<>>
  OBVIOUS
<1> HIDE DEF Dropped, Most
<1>4. k = Practical(s) /\ Dropped(c) # {} /\ Cardinality(Leave(c.parts[Most(c)])) = 0
  BY <1>1
<1>5. ASSUME NEW j \in Kind, Entries(s, j) = 0
      PROVE  /\ c.parts[j] \in Seq(Group)
             /\ d.parts[j] = Chosen(c.parts[j], Staying(c.parts[j], mayRemove))
  BY <1>5, AlignedValue, OwnGroupsType
<1>6. d \in Cohort
  BY AlignedCohortFacts
<1>7. Dropped(d) # {}
  <2> DEFINE j == Most(c)
             p == c.parts[j]
  <2>1. j \in Kind /\ j # Lecture /\ Entries(s, j) = 0 /\ p # <<>>
    BY <1>2, <1>3, <1>4
  <2> HIDE DEF j
  <2>2. p \in Seq(Group) /\ d.parts[j] = Chosen(p, Staying(p, mayRemove))
    BY <1>5, <2>1
  <2> HIDE DEF p
  <2>3. Leave(p) = {}
    <3>1. Leave(p) \in SUBSET (DOMAIN p)
      OBVIOUS
    <3>2. Cardinality(Leave(p)) = 0
      BY <1>4 DEF p, j
    <3> HIDE DEF Leave
    <3> QED
      BY <2>2, <3>1, <3>2, Numbers
  <2>4. Staying(p, mayRemove) = DOMAIN p
    BY <2>3 DEF Staying
  <2>5. d.parts[j] = p
    BY <2>2, <2>4, ChosenAll
  <2> QED
    BY <1>3, <2>1, <2>5
<1>8. Cardinality(Leave(d.parts[Most(d)])) = 0
  <2> DEFINE j == Most(d)
  <2>1. j \in Kind /\ Entries(s, j) = 0
    BY <1>2, <1>3, <1>6, <1>7
  <2> HIDE DEF j
  <2>2. Staying(d.parts[j], mayRemove) = DOMAIN d.parts[j]
    BY <1>5, <2>1, StayingStays
  <2>3. Leave(d.parts[j]) = {}
    BY <2>2 DEF Staying
  <2> QED
    BY <2>3, FS_EmptySet DEF j
<1> QED
  BY <1>1, <1>4, <1>7, <1>8

\* A cohort to which a split was applied stays as it is, as long as nobody takes
\* back what is held for it.
LEMMA AlignedTwice ==
    ASSUME NEW c \in Cohort, NEW s \in Seq(Kind), NEW borrowed, NEW mayRemove, NEW borrows,
           \A k \in Kind : k \in borrowed /\ Entries(s, k) > 0 => k \in borrows,
           NEW d, d = AlignedCohort(c, s, borrowed, mayRemove)
    PROVE  AlignedCohort(d, s, borrows, mayRemove) = d
<1> DEFINE e == AlignedCohort(d, s, borrows, mayRemove)
<1>1. d \in Cohort
  BY AlignedCohortFacts
<1>2. e \in Cohort /\ e.held = d.held /\ e.hosts = d.hosts /\ e.wished = d.wished
  BY <1>1, AlignedCohortFacts
<1>3. ASSUME NEW k \in Kind PROVE e.parts[k] = d.parts[k]
  <2> DEFINE p == c.parts[k]
             q == d.parts[k]
             n == Entries(s, k)
  <2>1. p \in Seq(Group) /\ q \in Seq(Group) /\ n \in Nat
    BY <1>1, OwnGroupsType, SplitFacts
  <2>2. q = IF n = 0 THEN Chosen(p, Staying(p, mayRemove))
            ELSE IF p # <<>> THEN AlignedAll(p, n)
            ELSE IF k \in borrowed THEN <<>>
            ELSE Fresh(Lacking(c, s, mayRemove, k), n)
    BY AlignedValue
  <2>3. e.parts[k] = IF n = 0 THEN Chosen(q, Staying(q, mayRemove))
                     ELSE IF q # <<>> THEN AlignedAll(q, n)
                     ELSE IF k \in borrows THEN <<>>
                     ELSE Fresh(Lacking(d, s, mayRemove, k), n)
    BY <1>1, AlignedValue
  <2>4. k \in borrowed /\ n > 0 => k \in borrows
    OBVIOUS
  <2> HIDE DEF e, p, q, n
  <2>5. CASE n = 0
    <3>1. Staying(q, mayRemove) = DOMAIN q
      BY <2>1, <2>2, <2>5, StayingStays
    <3> QED
      BY <2>1, <2>3, <2>5, <3>1, ChosenAll DEF q
  <2>6. CASE n > 0 /\ p # <<>>
    <3>1. q = AlignedAll(p, n)
      BY <2>2, <2>6
    <3>2. /\ DOMAIN q = DOMAIN p /\ q # <<>>
          /\ \A i \in DOMAIN q : q[i] = Aligned(p[i], n) /\ p[i] \in Group
      <4>1. DOMAIN q = DOMAIN p /\ \A i \in DOMAIN q : q[i] = Aligned(p[i], n) /\ p[i] \in Group
        BY <2>1, <3>1 DEF AlignedAll
      <4>2. DOMAIN p # {}
        <5>1. Len(p) \in Nat /\ Len(p) # 0 /\ DOMAIN p = 1 .. Len(p)
          BY <2>1, <2>6
        <5> QED
          BY <5>1
      <4> QED
        BY <4>1, <4>2
    <3>3. \A i \in DOMAIN q : Aligned(q[i], n) = q[i]
      BY <2>1, <2>6, <3>2, AlignedOnce
    <3>4. AlignedAll(q, n) = [i \in DOMAIN q |-> q[i]]
      BY <3>3 DEF AlignedAll
    <3>5. q = [i \in DOMAIN q |-> q[i]]
      BY <2>1
    <3>6. e.parts[k] = AlignedAll(q, n)
      BY <2>3, <2>6, <3>2
    <3> QED
      BY <3>4, <3>5, <3>6 DEF q
  <2>7. CASE n > 0 /\ p = <<>> /\ k \in borrowed
    BY <2>2, <2>3, <2>4, <2>7 DEF q
  <2>8. CASE n > 0 /\ p = <<>> /\ k \notin borrowed
    <3> DEFINE m == Lacking(c, s, mayRemove, k)
    <3>1. q = Fresh(m, n) /\ m \in Nat
      BY <2>2, <2>8, LackingType
    <3>2. CASE m = 0
      <4>1. Lacking(d, s, mayRemove, k) = 0
        BY <3>2, LacksNothingAgain
      <4>2. q = <<>> /\ Fresh(0, n) = <<>>
        BY <3>1, <3>2 DEF Fresh
      <4>3. e.parts[k] = <<>>
        BY <2>3, <2>8, <4>1, <4>2
      <4> QED
        BY <4>2, <4>3 DEF q
    <3>3. CASE m > 0
      <4> HIDE DEF m
      <4>1. DOMAIN q = 1 .. m /\ \A i \in 1 .. m : q[i] = Part(n - 1)
        BY <3>1 DEF Fresh
      <4>2. q # <<>>
        BY <3>1, <3>3, <4>1
      <4>3. \A i \in DOMAIN q : Aligned(q[i], n) = q[i]
        BY <2>1, <2>8, <4>1, AlignedOnce
      <4>4. AlignedAll(q, n) = [i \in DOMAIN q |-> q[i]]
        BY <4>3 DEF AlignedAll
      <4>5. q = [i \in DOMAIN q |-> q[i]]
        BY <2>1
      <4>6. e.parts[k] = AlignedAll(q, n)
        BY <2>3, <2>8, <4>2
      <4> QED
        BY <4>4, <4>5, <4>6 DEF q
    <3> QED
      BY <3>1, <3>2, <3>3
  <2> QED
    BY <2>1, <2>5, <2>6, <2>7, <2>8
<1> HIDE DEF e
<1>4. e = d
  BY <1>1, <1>2, <1>3 DEF Cohort
<1> QED
  BY <1>4 DEF e

LEMMA AppliedTwice ==
    ASSUME NEW cs, WellFormed(cs), NEW s \in Seq(Kind), NEW mayRemove
    PROVE  Applied(Applied(cs, s, mayRemove), s, mayRemove) = Applied(cs, s, mayRemove)
<1> DEFINE once == Applied(cs, s, mayRemove)
           twice == Applied(once, s, mayRemove)
<1>1. /\ WellFormed(once) /\ DOMAIN once = DOMAIN cs
      /\ \A l \in DOMAIN cs :
            /\ once[l].held = cs[l].held
            /\ once[l] = IF cs[l].held = "covered" THEN cs[l]
                         ELSE AlignedCohort(cs[l], s, Borrowed(cs, l), mayRemove)
  BY AppliedFacts
<1> HIDE DEF once
<1>2. /\ DOMAIN twice = DOMAIN once /\ WellFormed(twice)
      /\ \A l \in DOMAIN once :
            twice[l] = IF once[l].held = "covered" THEN once[l]
                       ELSE AlignedCohort(once[l], s, Borrowed(once, l), mayRemove)
  BY <1>1, AppliedFacts
<1> HIDE DEF twice
<1>3. ASSUME NEW m \in DOMAIN cs, NEW k \in Kind, Entries(s, k) > 0, Shares(cs[m], k)
      PROVE  Shares(once[m], k)
  <2>1. cs[m] \in Cohort
    BY DEF WellFormed
  <2>2. CASE cs[m].held = "covered"
    <3>1. once[m] = cs[m]
      BY <1>1, <2>2
    <3> QED
      BY <1>3, <3>1
  <2>3. CASE cs[m].held # "covered"
    <3> DEFINE p == cs[m].parts[k]
               q == once[m].parts[k]
               n == Entries(s, k)
    <3>1. once[m] = AlignedCohort(cs[m], s, Borrowed(cs, m), mayRemove)
      BY <1>1, <2>3
    <3>2. p \in Seq(Group) /\ n \in Nat /\ n > 0
      BY <1>3, <2>1, OwnGroupsType, SplitFacts
    <3>3. PICK i \in DOMAIN p : p[i].shared
      BY <1>3 DEF Shares
    <3>4. p # <<>> /\ n # 0
      BY <3>2, <3>3
    <3>5. q = AlignedAll(p, n)
      BY <2>1, <3>1, <3>4, AlignedValue
    <3> HIDE DEF p, q, n
    <3>6. i \in DOMAIN q /\ q[i] = Aligned(p[i], n) /\ p[i] \in Group
      BY <3>2, <3>5 DEF AlignedAll
    <3>7. q[i].shared
      BY <3>3, <3>6 DEF Aligned, Group
    <3> QED
      BY <3>6, <3>7 DEF Shares, q
  <2> QED
    BY <2>2, <2>3
<1>4. ASSUME NEW l \in DOMAIN cs, NEW k \in Kind, k \in Borrowed(cs, l), Entries(s, k) > 0
      PROVE  k \in Borrowed(once, l)
  <2>1. PICK m \in DOMAIN cs \ {l} : Shares(cs[m], k)
    BY <1>4 DEF Borrowed
  <2> QED
    BY <1>1, <1>3, <1>4, <2>1 DEF Borrowed
<1>5. ASSUME NEW l \in DOMAIN cs PROVE twice[l] = once[l]
  <2>1. cs[l] \in Cohort
    BY DEF WellFormed
  <2>2. CASE cs[l].held = "covered"
    BY <1>1, <1>2, <2>2
  <2>3. CASE cs[l].held # "covered"
    <3>1. once[l] = AlignedCohort(cs[l], s, Borrowed(cs, l), mayRemove)
      BY <1>1, <2>3
    <3>2. AlignedCohort(once[l], s, Borrowed(once, l), mayRemove) = once[l]
      BY <1>4, <2>1, <3>1, AlignedTwice
    <3> QED
      BY <1>1, <1>2, <2>3, <3>2
  <2> QED
    BY <2>2, <2>3
<1>6. twice = once
  BY <1>1, <1>2, <1>5 DEF WellFormed
<1> QED
  BY <1>6 DEF once, twice

-----------------------------------------------------------------------------
(* Saving the screen again changes nothing, where no cohort is a host.     *)

NoHosts(cs) == \A l \in DOMAIN cs : ~cs[l].hosts

\* What refuses every withdrawal: somebody is assigned, or a wish that an empty
\* screen hands over to nobody.
Stuck(c, want) == IsHeld(c) \/ (want = <<>> /\ c.wished)

\* A cohort that is stuck stays; one that is not goes, if there is another one to
\* take its wishes.
LEMMA WithdrawnStuck ==
    ASSUME NEW ds, WellFormed(ds), DOMAIN ds \subseteq Nat, NoHosts(ds),
           NEW l \in DOMAIN ds, NEW want
    PROVE  /\ Stuck(ds[l], want) => Withdrawn(ds, l, want # <<>>) = ds
           /\ (want = <<>> \/ DOMAIN ds # {l}) /\ l \in DOMAIN Withdrawn(ds, l, want # <<>>)
                => Stuck(ds[l], want)
<1> DEFINE before == IF want # <<>> THEN HandedOver(ds, l) ELSE ds
           less == Withdrawn(ds, l, want # <<>>)
<1>1. Promoted(ds, l) = ds
  BY DEF Promoted, NoHosts
<1>2. less = IF before[l].wished \/ IsHeld(before[l]) THEN ds
             ELSE [m \in DOMAIN ds \ {l} |-> before[m]]
  BY <1>1 DEF Withdrawn
<1>3. /\ before[l].parts = ds[l].parts
      /\ want = <<>> => before = ds
      /\ want # <<>> /\ DOMAIN ds # {l} => ~before[l].wished
  BY HandedOverFacts
<1> HIDE DEF before, less
<1>4. IsHeld(before[l]) <=> IsHeld(ds[l])
  BY <1>3 DEF IsHeld
<1>5. Stuck(ds[l], want) => less = ds
  BY <1>2, <1>3, <1>4 DEF Stuck
<1>6. (want = <<>> \/ DOMAIN ds # {l}) /\ l \in DOMAIN less => Stuck(ds[l], want)
  BY <1>2, <1>3, <1>4 DEF Stuck
<1> QED
  BY <1>5, <1>6 DEF less

\* Where no wish is handed over, the others stay as they are.
WishesStay(cs, ds) == \A m \in DOMAIN ds : ds[m].wished = cs[m].wished

LEMMA WithdrawnWishes ==
    ASSUME NEW cs, NEW ds, NoHosts(ds), WishesStay(cs, ds), NEW l \in DOMAIN ds,
           NEW want, want = <<>>
    PROVE  WishesStay(cs, Withdrawn(ds, l, want # <<>>))
<1> DEFINE less == Withdrawn(ds, l, want # <<>>)
<1>1. Promoted(ds, l) = ds
  BY DEF Promoted, NoHosts
<1>2. less = ds \/ less = [m \in DOMAIN ds \ {l} |-> ds[m]]
  BY <1>1 DEF Withdrawn
<1> HIDE DEF less
<1>3. WishesStay(cs, less)
  BY <1>2 DEF WishesStay
<1> QED
  BY <1>3 DEF less

\* A letter that leaves is not the last one: a letter asked for is declared, or
\* one that is left out is renamed.
LEMMA SomebodyStays ==
    ASSUME NEW cs, WellFormed(cs), DOMAIN cs \subseteq Nat, NEW want, Screen(want),
           want # <<>>, NEW l \in Leaving(cs, want)
    PROVE  \E m \in DOMAIN cs : m \notin Leaving(cs, want)
<1> DEFINE S == Spare(cs, want)
           O == Open(cs, want)
           n == Renames(cs, want)
           T == {Cardinality(S), Cardinality(O)}
<1>1. DOMAIN want # {}
  <2>1. ASSUME DOMAIN want = {} PROVE FALSE
    <3>1. want = [x \in {} |-> want[x]]
      BY <2>1 DEF Screen
    <3>2. <<>> = [x \in {} |-> want[x]]
      OBVIOUS
    <3> QED
      BY <3>1, <3>2
  <2> QED
    BY <2>1
<1>2. PICK w \in DOMAIN want : TRUE
  BY <1>1
<1>3. CASE w \in DOMAIN cs
  BY <1>3 DEF Leaving, Spare
<1>4. CASE w \notin DOMAIN cs
  <2>1. /\ S \in SUBSET Nat /\ IsFiniteSet(S) /\ Cardinality(S) \in Nat /\ l \in S
        /\ IsFiniteSet(O) /\ Cardinality(O) \in Nat /\ w \in O
    <3>1. S \in SUBSET (DOMAIN cs) /\ O \in SUBSET (DOMAIN want) /\ l \in S /\ w \in O
      BY <1>4 DEF Spare, Open, Leaving
    <3>2. IsFiniteSet(DOMAIN cs) /\ IsFiniteSet(DOMAIN want)
      BY DEF WellFormed, Screen
    <3> HIDE DEF S, O
    <3> QED
      BY <3>1, <3>2, FS_Subset, FS_CardinalityType
  <2>2. Cardinality(S) # 0 /\ Cardinality(O) # 0
    <3> HIDE DEF S, O
    <3> QED
      BY <2>1, FS_EmptySet
  <2>3. n \in Nat /\ n # 0
    <3>1. T \in SUBSET Nat /\ T # {} /\ n = Min(T) /\ 0 \notin T
      BY <2>1, <2>2 DEF Renames
    <3> HIDE DEF T, n
    <3> QED
      BY <3>1, MinFacts
  <2> DEFINE m == Nth(S, 0)
  <2>4. m \in S /\ Rank(S, m) = 0
    <3>1. 0 \in 0 .. Cardinality(S) - 1
      BY <2>1, <2>2
    <3> HIDE DEF S
    <3> QED
      BY <2>1, <3>1, NthFacts
  <2> HIDE DEF m
  <2>5. m \in Renamed(cs, want)
    BY <2>3, <2>4 DEF Renamed, First
  <2> QED
    BY <2>4, <2>5 DEF Leaving, Spare
<1> QED
  BY <1>3, <1>4

\* What the withdrawals leave, where no cohort is a host: the cohorts as they
\* were, and of those that were to leave only what is stuck.
LEMMA LeavingStuck ==
    ASSUME NEW cs, WellFormed(cs), DOMAIN cs \subseteq Nat, NoHosts(cs),
           NEW want, Screen(want)
    PROVE  LET less == AfterLeaving(cs, want) IN
           /\ StaysOf(cs, want, less) /\ NoHosts(less)
           /\ \A l \in Leaving(cs, want) : l \in DOMAIN less => Stuck(less[l], want)
<1> DEFINE less == AfterLeaving(cs, want)
           Q == {ds \in Subsets(cs) : WellFormed(ds) /\ DOMAIN ds \subseteq DOMAIN cs =>
                    StaysOf(cs, want, ds) /\ (want = <<>> => WishesStay(cs, ds))}
           T == {l \in DOMAIN cs : Stuck(cs[l], want)}
<1>1. cs \in Q
  BY InSubsets DEF StaysOf, WishesStay
<1>2. ASSUME NEW ds, StaysOf(cs, want, ds), DOMAIN ds \subseteq DOMAIN cs
      PROVE  NoHosts(ds)
  BY <1>2 DEF StaysOf, NoHosts
<1>3. ASSUME NEW ds, StaysOf(cs, want, ds), DOMAIN ds \subseteq DOMAIN cs,
             want = <<>> => WishesStay(cs, ds), NEW l \in DOMAIN ds, l \in Leaving(cs, want)
      PROVE  Stuck(ds[l], want) <=> Stuck(cs[l], want)
  <2>1. \A k \in Kind : ds[l].parts[k] = cs[l].parts[k]
    <3>1. ~ \E m \in Leaving(cs, want) : cs[m].hosts
      BY DEF NoHosts, Leaving, Spare
    <3> QED
      BY <1>3, <3>1 DEF StaysOf
  <2>2. IsHeld(ds[l]) <=> IsHeld(cs[l])
    BY <2>1 DEF IsHeld
  <2>3. want = <<>> => ds[l].wished = cs[l].wished
    BY <1>3 DEF WishesStay
  <2> QED
    BY <2>2, <2>3 DEF Stuck
<1>4. ASSUME NEW ds \in Q, NEW l \in Leaving(cs, want),
             WellFormed(ds), DOMAIN ds \subseteq DOMAIN cs, l \in DOMAIN ds,
             DOMAIN cs \ Leaving(cs, want) \subseteq DOMAIN ds
      PROVE  /\ Withdrawn(ds, l, want # <<>>) \in Q
             /\ l \in DOMAIN Withdrawn(ds, l, want # <<>>) => l \in T
  <2> DEFINE new == Withdrawn(ds, l, want # <<>>)
  <2>1. StaysOf(cs, want, ds) /\ DOMAIN ds \subseteq Nat
        /\ (want = <<>> => WishesStay(cs, ds))
    BY <1>4
  <2> HIDE DEF Q, T
  <2>2. new = ds \/ (WellFormed(new) /\ DOMAIN new = DOMAIN ds \ {l})
    BY <1>4, <2>1, WithdrawnFacts
  <2>3. StaysOf(cs, want, new)
    BY <1>4, <2>1, WithdrawnStays
  <2>4. NoHosts(ds)
    BY <1>2, <1>4, <2>1
  <2>5. want = <<>> => WishesStay(cs, new)
    BY <1>4, <2>1, <2>4, WithdrawnWishes
  <2>6. new \in Subsets(cs)
    <3> HIDE DEF new
    <3>1. WellFormed(new) /\ DOMAIN new \subseteq DOMAIN cs
      BY <1>4, <2>2
    <3> QED
      BY <3>1, InSubsets
  <2>7. ASSUME l \in DOMAIN new PROVE l \in T
    <3>1. want = <<>> \/ DOMAIN ds # {l}
      <4>1. ASSUME want # <<>> PROVE DOMAIN ds # {l}
        <5>1. PICK m \in DOMAIN cs : m \notin Leaving(cs, want)
          BY <4>1, SomebodyStays
        <5> QED
          BY <1>4, <5>1
      <4> QED
        BY <4>1
    <3>2. Stuck(ds[l], want)
      BY <1>4, <2>1, <2>4, <2>7, <3>1, WithdrawnStuck
    <3>3. Stuck(cs[l], want)
      BY <1>3, <1>4, <2>1, <3>2
    <3> QED
      BY <1>4, <3>3 DEF T
  <2> HIDE DEF new
  <2>8. new \in Q
    BY <2>3, <2>5, <2>6 DEF Q
  <2> QED
    BY <2>7, <2>8 DEF new
<1> HIDE DEF Q, T
<1>5. less \in Q /\ WellFormed(less) /\ DOMAIN less \subseteq DOMAIN cs
      /\ DOMAIN less \cap Leaving(cs, want) \subseteq T
  BY <1>1, <1>4, LeavingByOne
<1> HIDE DEF less
<1>6. StaysOf(cs, want, less) /\ (want = <<>> => WishesStay(cs, less)) /\ NoHosts(less)
  BY <1>2, <1>5 DEF Q
<1>7. ASSUME NEW l \in Leaving(cs, want), l \in DOMAIN less PROVE Stuck(less[l], want)
  <2>1. Stuck(cs[l], want)
    BY <1>5, <1>7 DEF T
  <2> QED
    BY <1>3, <1>5, <1>6, <1>7, <2>1
<1> QED
  BY <1>6, <1>7 DEF less

\* Where letters leave, none that is asked for is left over.
LEMMA LeavingTakesAll ==
    ASSUME NEW cs, WellFormed(cs), DOMAIN cs \subseteq Nat, NEW want, Screen(want),
           NEW l \in Leaving(cs, want)
    PROVE  Open(cs, want) \subseteq Taken(cs, want)
<1> DEFINE S == Spare(cs, want)
           O == Open(cs, want)
           n == Renames(cs, want)
           T == {Cardinality(S), Cardinality(O)}
<1>1. /\ S \in SUBSET Nat /\ IsFiniteSet(S) /\ Cardinality(S) \in Nat
      /\ O \in SUBSET Nat /\ IsFiniteSet(O) /\ Cardinality(O) \in Nat
  <2>1. S \in SUBSET (DOMAIN cs) /\ O \in SUBSET (DOMAIN want)
    BY DEF Spare, Open
  <2>2. IsFiniteSet(DOMAIN cs) /\ IsFiniteSet(DOMAIN want)
    BY DEF WellFormed, Screen
  <2>3. DOMAIN cs \subseteq Nat /\ DOMAIN want \subseteq Nat
    BY DEF Screen
  <2> HIDE DEF S, O
  <2> QED
    BY <2>1, <2>2, <2>3, FS_Subset, FS_CardinalityType
<1>2. l \in S /\ ~(Rank(S, l) < n)
  BY DEF Leaving, Renamed, First
<1>3. n \in T
  <2>1. T \in SUBSET Nat /\ T # {} /\ n = Min(T)
    BY <1>1 DEF Renames
  <2> HIDE DEF T, n
  <2> QED
    BY <2>1, MinFacts
<1> HIDE DEF S, O, n
<1>4. Rank(S, l) \in 0 .. Cardinality(S) - 1
  BY <1>1, <1>2, RankFacts
<1>5. n = Cardinality(O)
  BY <1>1, <1>2, <1>3, <1>4
<1>6. \A x \in O : Rank(O, x) \in 0 .. Cardinality(O) - 1
  BY <1>1, RankFacts
<1>7. \A x \in O : Rank(O, x) < n
  BY <1>1, <1>5, <1>6
<1> QED
  BY <1>7 DEF Taken, First, O, n

\* A group more than none too many is not looked for.
LEMMA TrimmedByNone ==
    ASSUME NEW groups \in Seq(Group)
    PROVE  Trimmed(groups, 0) = groups
<1>1. ASSUME NEW i \in DOMAIN groups, Goes(groups, i, 0) PROVE FALSE
  <2>1. i \in From(groups, i)
    BY <1>1 DEF Goes, From
  <2>2. IsFiniteSet(From(groups, i)) /\ Cardinality(From(groups, i)) \in Nat
    BY FromFacts
  <2>3. Cardinality(From(groups, i)) # 0
    BY <2>1, <2>2, FS_EmptySet
  <2> QED
    BY <1>1, <2>2, <2>3 DEF Goes
<1> QED
  BY <1>1, NoneGoes

\* A cohort whose groups were brought to a number stays as it is when that is
\* tried again.
LEMMA AdjustedTwice ==
    ASSUME NEW c \in Cohort, NEW s \in Seq(Kind), NEW seen, NEW n \in Nat, NEW d,
           Practical(s) # NoKind => seen = OwnGroups(c, Practical(s)),
           d = Adjusted(c, s, seen, n)
    PROVE  Adjusted(d, s, OwnGroups(d, Practical(s)), n) = d
<1> DEFINE k == Practical(s)
           p == c.parts[k]
           q == d.parts[k]
           own == OwnGroups(d, k)
<1>1. CASE c.held = "covered" \/ k = NoKind
  <2>1. d = c
    BY <1>1 DEF Adjusted
  <2> QED
    BY <1>1, <2>1 DEF Adjusted
<1>2. CASE c.held # "covered" /\ k # NoKind
  <2>1. k \in Kind /\ seen = OwnGroups(c, k)
    BY <1>2, SplitFacts
  <2>2. seen \in Nat /\ p \in Seq(Group) /\ seen = Cardinality(Own(p))
    BY <2>1, OwnGroupsType, OwnGroupsAre
  <2>3. d \in Cohort /\ d.held = c.held
    BY <2>2, AdjustedFacts
  <2>4. own \in Nat /\ q \in Seq(Group) /\ own = Cardinality(Own(q))
    BY <2>1, <2>3, OwnGroupsType, OwnGroupsAre
  <2>5. Moves(seen, seen, n, own)
    <3>1. Moves(OwnGroups(c, k), seen, n, OwnGroups(Adjusted(c, s, seen, n), k))
      BY <1>2, <2>1, <2>2, AdjustedOwn
    <3> QED
      BY <2>1, <3>1
  <2>6. Adjusted(d, s, own, n)
            = IF own < n THEN [d EXCEPT !.parts[k] = @ \o [i \in 1 .. n - own |-> Part(0)]]
              ELSE [d EXCEPT !.parts[k] = Trimmed(@, own - n)]
    BY <1>2, <2>3 DEF Adjusted
  <2>7. [d EXCEPT !.parts[k] = q] = d
    BY <2>1, <2>3 DEF Cohort
  <2> HIDE DEF k, own
  <2>8. ~(own < n) /\ Trimmed(q, own - n) = q
    <3>1. CASE seen < n
      <4>1. own = n
        BY <2>2, <2>4, <2>5, <3>1 DEF Moves
      <4>2. own - n = 0 /\ ~(own < n)
        BY <4>1
      <4> QED
        BY <2>4, <4>2, TrimmedByNone
    <3>2. CASE ~(seen < n)
      <4> DEFINE g == Cardinality(Going(p, seen - n))
      <4>1. seen - n \in Nat
        BY <2>2, <3>2
      <4>2. q = Trimmed(p, seen - n)
        <5>1. d = [c EXCEPT !.parts[k] = Trimmed(@, seen - n)]
          BY <1>2, <3>2 DEF Adjusted, k
        <5> QED
          BY <2>1, <5>1 DEF Cohort
      <4>3. g \in Nat /\ g <= seen - n
        BY <2>2, <4>1, GoingFacts
      <4>4. own = seen - g
        <5>1. Cardinality(Own(Trimmed(p, seen - n))) = Cardinality(Own(p)) - g
          BY <2>2, <4>1, TrimmedFacts
        <5> QED
          BY <2>2, <2>4, <4>2, <5>1
      <4> HIDE DEF g, p, q
      <4>5. own - n = (seen - n) - g /\ ~(own < n)
        BY <2>2, <2>4, <4>1, <4>3, <4>4
      <4>6. Trimmed(Trimmed(p, seen - n), own - n) = Trimmed(p, seen - n)
        BY <2>2, <4>1, <4>5, TrimmedAgain DEF g
      <4> QED
        BY <4>2, <4>5, <4>6
    <3> QED
      BY <3>1, <3>2
  <2> QED
    BY <2>6, <2>7, <2>8 DEF k, own
<1> QED
  BY <1>1, <1>2

\* A save that finds nothing to withdraw that goes, nothing to rename, nothing to
\* declare and every group as it is asked for changes nothing.
LEMMA Steady ==
    ASSUME NEW cs, WellFormed(cs), DOMAIN cs \subseteq Nat, NEW s \in Seq(Kind),
           NEW want, Screen(want), NEW host,
           AfterLeaving(cs, want) = cs,
           Spare(cs, want) = {} \/ Open(cs, want) = {},
           s # <<>> => Open(cs, want) = {},
           \A l \in DOMAIN cs : l \in DOMAIN want =>
                Adjusted(cs[l], s, OwnGroups(cs[l], Practical(s)), want[l]) = cs[l]
    PROVE  Planned(cs, s, want, host) = cs
<1> DEFINE renamed == AfterRenames(cs, want)
           more == AfterCreating(cs, s, want, host)
           plan == Planned(cs, s, want, host)
<1>1. Renamed(cs, want) = {} /\ Taken(cs, want) = {}
  <2>1. CASE Spare(cs, want) = {}
    <3>1. Renamed(cs, want) = {}
      BY <2>1 DEF Renamed, First
    <3>2. \A l \in Taken(cs, want) : Before(cs, want, l) \in Renamed(cs, want)
      BY BeforeFacts
    <3> QED
      BY <3>1, <3>2
  <2>2. CASE Open(cs, want) = {}
    <3>1. Taken(cs, want) = {}
      BY <2>2 DEF Taken, First
    <3>2. \A m \in Renamed(cs, want) : \E l \in Taken(cs, want) : Before(cs, want, l) = m
      BY BeforeFacts
    <3> QED
      BY <3>1, <3>2
  <2> QED
    BY <2>1, <2>2
<1>2. \A l : Before(cs, want, l) = l
  BY <1>1, BeforeFacts
<1>3. cs = [l \in DOMAIN cs |-> cs[l]]
  BY DEF WellFormed
<1>4. renamed = cs
  <2>1. renamed = [l \in (DOMAIN cs \ {}) \cup {} |-> cs[Before(cs, want, l)]]
    BY <1>1 DEF AfterRenames
  <2> HIDE DEF renamed
  <2>2. renamed = [l \in DOMAIN cs |-> cs[l]]
    BY <1>2, <2>1
  <2> QED
    BY <1>3, <2>2
<1>5. Missing(cs, s, want) = {}
  BY DEF Missing
<1>6. more = cs
  <2>1. WellFormed(more) /\ DOMAIN more = DOMAIN cs
    <3>1. WellFormed(more) /\ DOMAIN more = DOMAIN renamed \cup Missing(cs, s, want)
      BY AfterCreatingFacts
    <3> HIDE DEF more, renamed
    <3> QED
      BY <1>4, <1>5, <3>1
  <2>2. \A l \in DOMAIN cs : more[l] = cs[l]
    BY <1>4, AfterCreatingValues
  <2>3. more = [l \in DOMAIN more |-> more[l]]
    BY <2>1 DEF WellFormed
  <2> HIDE DEF more
  <2> QED
    BY <1>3, <2>1, <2>2, <2>3
<1>7. /\ WellFormed(plan) /\ DOMAIN plan = DOMAIN cs
      /\ \A l \in DOMAIN cs :
            /\ l \notin DOMAIN want => plan[l] = cs[l]
            /\ l \in DOMAIN want => plan[l] = Adjusted(cs[l], s, Seen(cs, s, want, host, l), want[l])
  BY <1>6, PlannedFacts
<1>8. \A l \in DOMAIN cs : Seen(cs, s, want, host, l) = OwnGroups(cs[l], Practical(s))
  BY <1>2, <1>4 DEF Seen
<1> HIDE DEF plan
<1>9. \A l \in DOMAIN cs : plan[l] = cs[l]
  BY <1>7, <1>8
<1>10. plan = [l \in DOMAIN plan |-> plan[l]]
  BY <1>7 DEF WellFormed
<1> QED
  BY <1>3, <1>7, <1>9, <1>10 DEF plan

\* What there is after a save: the letters asked for, where there is a split to
\* declare them from, and the ones that are stuck, as the withdrawals left them.
LEMMA AfterTheSave ==
    ASSUME NEW cs, WellFormed(cs), DOMAIN cs \subseteq Nat, NoHosts(cs), NEW s \in Seq(Kind),
           NEW want, Screen(want), NEW host
    PROVE  LET once == Planned(cs, s, want, host) IN
           /\ WellFormed(once) /\ DOMAIN once \subseteq Nat /\ NoHosts(once)
           /\ s # <<>> => DOMAIN want \subseteq DOMAIN once
           /\ \A l \in DOMAIN once \ DOMAIN want :
                Stuck(once[l], want) /\ DOMAIN want \subseteq DOMAIN once
<1> DEFINE less == AfterLeaving(cs, want)
           renamed == AfterRenames(cs, want)
           more == AfterCreating(cs, s, want, host)
           once == Planned(cs, s, want, host)
           M == Missing(cs, s, want)
<1>1. /\ WellFormed(less) /\ DOMAIN less \subseteq DOMAIN cs
      /\ DOMAIN cs \ Leaving(cs, want) \subseteq DOMAIN less
  BY AfterLeavingFacts
<1>2. /\ NoHosts(less)
      /\ \A l \in Leaving(cs, want) : l \in DOMAIN less => Stuck(less[l], want)
  BY LeavingStuck
<1>3. /\ DOMAIN renamed = (DOMAIN less \ Renamed(cs, want)) \cup Taken(cs, want)
      /\ \A l \in DOMAIN renamed :
            Before(cs, want, l) \in DOMAIN less /\ renamed[l] = less[Before(cs, want, l)]
  BY AfterRenamesFacts
<1>4. /\ DOMAIN more = DOMAIN renamed \cup M
      /\ DOMAIN renamed \cap M = {}
  BY AfterCreatingFacts
<1>5. /\ \A l \in DOMAIN renamed : more[l] = renamed[l]
      /\ \A l \in M : ~more[l].hosts
  <2>1. ASSUME NEW l \in DOMAIN renamed PROVE more[l] = renamed[l]
    BY AfterCreatingValues
  <2>2. ASSUME NEW l \in M PROVE ~more[l].hosts
    <3>1. \/ more[l] = NewCohort("covered", NoParts)
          \/ more[l] = NewCohort("self", PartsFromSplit(s, SharedKinds(cs)))
      BY AfterCreatingValues
    <3> QED
      BY <3>1 DEF NewCohort
  <2> QED
    BY <2>1, <2>2
<1>6. /\ WellFormed(once) /\ DOMAIN once = DOMAIN more
      /\ \A l \in DOMAIN more :
            once[l].hosts = more[l].hosts /\ (l \notin DOMAIN want => once[l] = more[l])
  BY PlannedFacts
<1>7. /\ Renamed(cs, want) \subseteq DOMAIN cs \ DOMAIN want
      /\ Taken(cs, want) \subseteq DOMAIN want \ DOMAIN cs
      /\ \A l : l \notin Taken(cs, want) => Before(cs, want, l) = l
  BY BeforeFacts
<1>8. M \subseteq DOMAIN want /\ DOMAIN want \subseteq Nat
  BY DEF Missing, Open, Screen
<1>9. Leaving(cs, want) \cap DOMAIN want = {}
  BY DEF Leaving, Spare
<1>10. s # <<>> => Open(cs, want) \subseteq Taken(cs, want) \cup M
  BY DEF Missing
<1> HIDE DEF less, renamed, more, once, M
<1>11. DOMAIN once \subseteq Nat
  BY <1>1, <1>3, <1>4, <1>6, <1>7, <1>8
<1>12. NoHosts(once)
  <2>1. ASSUME NEW l \in DOMAIN once PROVE ~once[l].hosts
    <3>1. CASE l \in M
      BY <1>4, <1>5, <1>6, <3>1
    <3>2. CASE l \in DOMAIN renamed
      <4>1. once[l].hosts = less[Before(cs, want, l)].hosts
        BY <1>3, <1>4, <1>5, <1>6, <3>2
      <4> QED
        BY <1>2, <1>3, <3>2, <4>1 DEF NoHosts
    <3> QED
      BY <1>4, <1>6, <2>1, <3>1, <3>2
  <2> QED
    BY <2>1 DEF NoHosts
<1>13. ASSUME Open(cs, want) \subseteq Taken(cs, want) \cup M, NEW l \in DOMAIN want
       PROVE  l \in DOMAIN once
  <2>1. CASE l \in DOMAIN cs
    BY <1>1, <1>3, <1>4, <1>6, <1>7, <1>9, <2>1
  <2>2. CASE l \notin DOMAIN cs
    <3>1. l \in Open(cs, want)
      BY <2>2 DEF Open
    <3> QED
      BY <1>3, <1>4, <1>6, <1>13, <3>1
  <2> QED
    BY <2>1, <2>2
<1>14. ASSUME NEW l \in DOMAIN once \ DOMAIN want
       PROVE  Stuck(once[l], want) /\ DOMAIN want \subseteq DOMAIN once
  <2>1. l \in DOMAIN renamed /\ l \notin Taken(cs, want)
    BY <1>4, <1>6, <1>7, <1>8
  <2>2. once[l] = less[l] /\ l \in DOMAIN less /\ l \notin Renamed(cs, want)
    BY <1>3, <1>4, <1>5, <1>6, <1>7, <1>14, <2>1
  <2>3. l \in Leaving(cs, want)
    BY <1>1, <1>14, <2>2 DEF Leaving, Spare
  <2>4. Open(cs, want) \subseteq Taken(cs, want)
    BY <2>3, LeavingTakesAll
  <2> QED
    BY <1>2, <1>13, <2>2, <2>3, <2>4
<1> QED
  BY <1>6, <1>10, <1>11, <1>12, <1>13, <1>14 DEF once

\* The groups of a cohort that was saved are as they would be left again.
LEMMA GroupsAgain ==
    ASSUME NEW cs, WellFormed(cs), DOMAIN cs \subseteq Nat, NoHosts(cs), NEW s \in Seq(Kind),
           NEW want, Screen(want), NEW host,
           NEW l \in DOMAIN Planned(cs, s, want, host), l \in DOMAIN want, NEW c,
           c = Planned(cs, s, want, host)[l]
    PROVE  Adjusted(c, s, OwnGroups(c, Practical(s)), want[l]) = c
<1> DEFINE more == AfterCreating(cs, s, want, host)
           seen == Seen(cs, s, want, host, l)
           before == more[l]
<1>1. l \in DOMAIN more /\ c = Adjusted(before, s, seen, want[l])
  BY PlannedFacts
<1>2. before \in Cohort
  <2>1. WellFormed(more)
    BY AfterCreatingFacts
  <2> QED
    BY <1>1, <2>1 DEF WellFormed
<1>3. want[l] \in Nat
  BY DemandAssumption DEF Screen
<1>4. Practical(s) # NoKind => seen = OwnGroups(before, Practical(s))
  <2> SUFFICES ASSUME Practical(s) # NoKind PROVE seen = OwnGroups(before, Practical(s))
    OBVIOUS
  <2>1. Practical(s) \in Kind
    BY SplitFacts
  <2>2. ~ \E m \in Leaving(cs, want) : cs[m].hosts
    BY DEF NoHosts, Leaving, Spare
  <2> QED
    BY <1>1, <2>1, <2>2, GroupsAsSeen
<1> HIDE DEF more, seen, before
<1> QED
  BY <1>1, <1>2, <1>3, <1>4, AdjustedTwice

LEMMA PlannedTwice ==
    ASSUME NEW cs, WellFormed(cs), DOMAIN cs \subseteq Nat, NoHosts(cs), NEW s \in Seq(Kind),
           NEW want, Screen(want), NEW host, NEW once, once = Planned(cs, s, want, host)
    PROVE  Planned(once, s, want, host) = once
<1> DEFINE Q == {once}
<1>1. /\ WellFormed(once) /\ DOMAIN once \subseteq Nat /\ NoHosts(once)
      /\ s # <<>> => DOMAIN want \subseteq DOMAIN once
      /\ \A l \in DOMAIN once \ DOMAIN want :
            Stuck(once[l], want) /\ DOMAIN want \subseteq DOMAIN once
  BY AfterTheSave
<1>2. AfterLeaving(once, want) = once
  <2>1. ASSUME NEW ds \in Q, NEW l \in Leaving(once, want),
               WellFormed(ds), DOMAIN ds \subseteq DOMAIN once, l \in DOMAIN ds
        PROVE  Withdrawn(ds, l, want # <<>>) \in Q
    <3>1. l \in DOMAIN once \ DOMAIN want
      BY DEF Leaving, Spare
    <3>2. Stuck(once[l], want)
      BY <1>1, <3>1
    <3>3. Withdrawn(once, l, want # <<>>) = once
      BY <1>1, <3>1, <3>2, WithdrawnStuck
    <3> QED
      BY <3>3
  <2> HIDE DEF Q
  <2>2. once \in Q
    BY DEF Q
  <2>3. AfterLeaving(once, want) \in Q
    BY <1>1, <2>1, <2>2, LeavingInduction
  <2> QED
    BY <2>3 DEF Q
<1>3. /\ Spare(once, want) = {} \/ Open(once, want) = {}
      /\ s # <<>> => Open(once, want) = {}
  BY <1>1 DEF Spare, Open
<1>4. \A l \in DOMAIN once : l \in DOMAIN want =>
        Adjusted(once[l], s, OwnGroups(once[l], Practical(s)), want[l]) = once[l]
  BY GroupsAgain
<1> QED
  BY <1>1, <1>2, <1>3, <1>4, Steady

\* Pressing the button again, in every state: a second save of the same screen
\* finds what the first one left and leaves it, unless the first one handed a
\* share back for a promoted guest; a split is carried over once.
THEOREM PressingAgainChangesNothing == DemandSpec => []RepeatingChangesNothing
<1>1. DemandTypeOK => RepeatingChangesNothing
  <2> SUFFICES ASSUME DemandTypeOK PROVE RepeatingChangesNothing
    OBVIOUS
  <2>1. WellFormed(cohorts) /\ DOMAIN cohorts \subseteq Nat /\ split \in Seq(Kind)
    BY StateFacts
  <2>2. ASSUME NEW want \in Screens, NEW host \in BOOLEAN,
               \A l \in DOMAIN cohorts : ~cohorts[l].hosts
        PROVE  Planned(Planned(cohorts, split, want, host), split, want, host)
                = Planned(cohorts, split, want, host)
    <3>1. NoHosts(cohorts) /\ Screen(want)
      BY <2>2, ScreensAreScreens DEF NoHosts
    <3> QED
      BY <2>1, <3>1, PlannedTwice
  <2>3. ASSUME NEW mayRemove \in BOOLEAN
        PROVE  Applied(Applied(cohorts, split, mayRemove), split, mayRemove)
                = Applied(cohorts, split, mayRemove)
    BY <2>1, AppliedTwice
  <2> QED
    BY <2>2, <2>3 DEF RepeatingChangesNothing
<1> QED
  BY <1>1, CohortsStayWellFormed, PTL
=============================================================================
