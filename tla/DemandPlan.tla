----------------------------- MODULE DemandPlan -----------------------------
(***************************************************************************)
(* The cohorts of one module in one programme and semester, and everything *)
(* that rewrites them as a whole: declaring, duplicating, renaming and     *)
(* withdrawing a cohort, sharing a part between the cohorts, the coverage  *)
(* by another programme, saving the planning screen (PlanDemand), carrying *)
(* a corrected split over (ApplyModuleSplit), copying a semester.          *)
(*                                                                         *)
(* Each is one transaction and one step here; what two of them do to each  *)
(* other while they run is the matter of PartStaffing and Coverage. A      *)
(* preview is the same transaction rolled back: no step. Hours, the cohort *)
(* year, notes and the order of different kinds are left out.              *)
(***************************************************************************)
EXTENDS Integers, Sequences, FiniteSetsExt, Counting

CONSTANTS
    Letter,      \* the cohorts' letters, numbered in alphabetical order
    Kind,        \* the kinds of parts
    Lecture,     \* the kind that has no parallel groups
    Splits,      \* the splits somebody may confirm, sequences of kinds
    LastYear,    \* what a copy may find in the semester it reads
    Screens,     \* the screens: the groups asked for, by letter; one with a letter
                 \* outside Letter is only previewed
    MaxCohorts,  \* bound: cohorts declared at the same time (26 letters)
    MaxGroups,   \* the groups a screen can ask for (12 in the code)
    MaxParts,    \* bound: parts of all cohorts at a time
    MaxShared,   \* bound: kinds shared at a time
    MaxArranged, \* bound: other decisions about cohorts and parts at a time
    NoKind       \* a split without a practical kind

\* A part with the pieces cut from it. Somebody holds a row of it, or another
\* faculty teaches it.
Group == [pieces : Nat, shared : BOOLEAN, use : {"free", "held", "away"}]

\* held: by itself, its coverage asked for, or accepted. hosts: a cohort of
\* another programme names this one as its host.
Cohort == [held : {"self", "asked", "covered"}, hosts : BOOLEAN, wished : BOOLEAN,
           parts : [Kind -> Seq(Group)]]

NoParts == [k \in Kind |-> <<>>]

\* The cohorts of one semester: what another programme holds has no parts of
\* its own, and at most one cohort is a guest, never one that is a host.
WellFormed(cs) ==
    /\ cs \in [DOMAIN cs -> Cohort] /\ IsFiniteSet(DOMAIN cs)
    /\ \A l \in DOMAIN cs : cs[l].held = "covered" => cs[l].parts = NoParts
    /\ \A l \in DOMAIN cs : cs[l].held # "self" => ~cs[l].hosts
    /\ \A l, m \in DOMAIN cs : cs[l].held # "self" /\ cs[m].held # "self" => l = m

ASSUME DemandAssumption ==
    /\ Letter \subseteq Nat
    /\ IsFiniteSet(Kind) /\ Lecture \in Kind /\ NoKind \notin Kind
    /\ Splits \subseteq Seq(Kind)
    /\ \A year \in LastYear : DOMAIN year \subseteq Letter /\ WellFormed(year)
    /\ \A want \in Screens :
        /\ want \in [DOMAIN want -> 0..MaxGroups]
        /\ DOMAIN want \subseteq Nat /\ IsFiniteSet(DOMAIN want)
    /\ {MaxGroups, MaxShared, MaxArranged, MaxCohorts, MaxParts} \subseteq Nat

VARIABLES
    cohorts, \* the declared cohorts, by letter
    split    \* the module's confirmed split, <<>> for none

demandVars == <<cohorts, split>>

-----------------------------------------------------------------------------
(* The split and the parts made from it.                                   *)

Entries(s, k) == Cardinality({i \in DOMAIN s : s[i] = k})

Practical(s) ==
    LET others == {i \in DOMAIN s : s[i] # Lecture}
    IN  IF others = {} THEN NoKind ELSE s[Min(others)]

Part(n) == [pieces |-> n, shared |-> FALSE, use |-> "free"]

PartsFromSplit(s, skip) ==
    [k \in Kind |-> IF k \in skip \/ Entries(s, k) = 0 THEN <<>>
                    ELSE <<Part(Entries(s, k) - 1)>>]

NewCohort(held, parts) ==
    [held |-> held, hosts |-> FALSE, wished |-> FALSE, parts |-> parts]

Shares(c, k) == \E i \in DOMAIN c.parts[k] : c.parts[k][i].shared

SharedKinds(cs) ==
    {k \in Kind : \E l \in DOMAIN cs : cs[l].held # "covered" /\ Shares(cs[l], k)}

\* The groups a cohort counts as its own: not a piece, not a shared part.
OwnGroups(c, k) == Cardinality({i \in DOMAIN c.parts[k] : ~c.parts[k][i].shared})

\* coupleIfHostExists: with a host elsewhere, unless the programme has its
\* one covered cohort already.
Couples(cs, host) == host /\ \A l \in DOMAIN cs : cs[l].held = "self"

-----------------------------------------------------------------------------
(* Taking a cohort away.                                                   *)

\* Every sibling without a part of these kinds gets one, undivided, unless
\* another programme holds it (SplitInstancePartAcrossTracks,
\* unshareBeforeHandover).
GiveBack(cs, l, kinds) ==
    [m \in DOMAIN cs |->
        IF m = l \/ cs[m].held = "covered" THEN cs[m]
        ELSE [cs[m] EXCEPT !.parts = [k \in Kind |->
                IF k \in kinds /\ @[k] = <<>> THEN <<Part(0)>> ELSE @[k]]]]

\* The teaching of a host goes to its longest-standing guest, in another
\* programme.
Promoted(cs, l) ==
    IF ~cs[l].hosts THEN cs
    ELSE [GiveBack(cs, l, {k \in Kind : Shares(cs[l], k)})
            EXCEPT ![l].parts = NoParts, ![l].hosts = FALSE]

\* The wishes go to a sibling: one that is not asked for or covered first,
\* then by letter.
HandedOver(cs, l) ==
    LET siblings == DOMAIN cs \ {l}
        own == {m \in siblings : cs[m].held = "self"}
        to == Min(IF own # {} THEN own ELSE siblings)
    IN  IF siblings = {} \/ ~cs[l].wished THEN cs
        ELSE [cs EXCEPT ![l].wished = FALSE, ![to].wished = TRUE]

IsHeld(c) == \E k \in Kind : \E i \in DOMAIN c.parts[k] : c.parts[k][i].use = "held"

\* promoteCoverageSuccessor, handOverWishes and the DELETE; a wish or an
\* assignment that is left refuses, and then nothing happened.
Withdrawn(cs, l, keepOffered) ==
    LET before == IF keepOffered THEN HandedOver(Promoted(cs, l), l) ELSE Promoted(cs, l)
    IN  IF before[l].wished \/ IsHeld(before[l]) THEN cs
        ELSE [m \in DOMAIN cs \ {l} |-> before[m]]

-----------------------------------------------------------------------------
(* The planning screen: want maps the letters to the groups asked for.     *)

\* The last groups go, as many as there are too many, until one is divided or
\* somebody holds it.
Trimmed(groups, tooMany) ==
    LET own(i) == {j \in DOMAIN groups : j >= i /\ ~groups[j].shared}
        Goes(i) == /\ ~groups[i].shared
                   /\ \A j \in own(i) : groups[j].pieces = 0 /\ groups[j].use # "held"
                   /\ Cardinality(own(i)) <= tooMany
    IN  Chosen(groups, {i \in DOMAIN groups : ~Goes(i)})

\* Mutant: one group at a time.
AdjustedByOne(c, s, seen, n) ==
    LET k == Practical(s)
    IN  IF c.held = "covered" \/ k = NoKind THEN c
        ELSE IF seen < n THEN [c EXCEPT !.parts[k] = Append(@, Part(0))]
        ELSE [c EXCEPT !.parts[k] = Trimmed(@, seen - n)]

\* adjustGroups. seen is how many groups the cohort had when the transaction
\* read the demand; a covered cohort is not asked.
Adjusted(c, s, seen, n) ==
    LET k == Practical(s)
    IN  IF c.held = "covered" \/ k = NoKind THEN c
        ELSE IF seen < n
        THEN [c EXCEPT !.parts[k] = @ \o [i \in 1 .. n - seen |-> Part(0)]]
        ELSE [c EXCEPT !.parts[k] = Trimmed(@, seen - n)]

\* The declared letters the screen leaves out, and the letters it adds. As
\* many are renamed as there are letters of both; the first into the first.
Spare(cs, want) == DOMAIN cs \ DOMAIN want
Open(cs, want) == DOMAIN want \ DOMAIN cs
Renames(cs, want) == Min({Cardinality(Spare(cs, want)), Cardinality(Open(cs, want))})
Renamed(cs, want) == First(Spare(cs, want), Renames(cs, want))
Taken(cs, want) == First(Open(cs, want), Renames(cs, want))

\* The others are withdrawn, the last first.
Leaving(cs, want) == Spare(cs, want) \ Renamed(cs, want)

AfterLeaving(cs, want) ==
    LET n == Cardinality(Leaving(cs, want))
        after[i \in 0..n] ==
            IF i = 0 THEN cs
            ELSE Withdrawn(after[i - 1], Nth(Leaving(cs, want), n - i), want # <<>>)
    IN  after[n]

\* The letter a cohort had before the renames.
Before(cs, want, l) ==
    IF l \in Taken(cs, want) THEN Nth(Spare(cs, want), Rank(Open(cs, want), l)) ELSE l

AfterRenames(cs, want) ==
    LET less == AfterLeaving(cs, want)
    IN  [l \in (DOMAIN less \ Renamed(cs, want)) \cup Taken(cs, want) |->
            less[Before(cs, want, l)]]

\* createForPlan: what a sibling holds for everybody is left out, and where
\* another programme has the module, the first cohort is held with it.
AfterCreating(cs, s, want, host) ==
    LET renamed == AfterRenames(cs, want)
        missing == IF s = <<>> THEN {} ELSE Open(cs, want) \ Taken(cs, want)
    IN  [l \in DOMAIN renamed \cup missing |->
            IF l \notin missing THEN renamed[l]
            ELSE IF Couples(renamed, host) /\ l = Min(missing) THEN NewCohort("covered", NoParts)
            ELSE NewCohort("self", PartsFromSplit(s, SharedKinds(cs)))]

\* The number of groups is compared with what was read at first, if it was.
AllAdjusted(cs, s, want, renamed, more) ==
    LET seen(l) == OwnGroups(IF l \in DOMAIN renamed THEN cs[Before(cs, want, l)] ELSE more[l],
                             Practical(s))
    IN  [l \in DOMAIN more |->
            IF l \notin DOMAIN want THEN more[l] ELSE Adjusted(more[l], s, seen(l), want[l])]

\* planModule.
Planned(cs, s, want, host) ==
    AllAdjusted(cs, s, want, AfterRenames(cs, want), AfterCreating(cs, s, want, host))

\* The refusals of a plan: of a withdrawal, of a declaration, of the groups of
\* a covered cohort unless this plan declared it, of a group that stays.
Refusals(cs, s, want, plan) ==
    LET renamed == AfterRenames(cs, want)
        Kept(l) == \E k \in {Practical(s)} \cap Kind :
            /\ want[l] < OwnGroups(plan[l], k)
            /\ l \in DOMAIN renamed => want[l] < OwnGroups(cs[Before(cs, want, l)], k)
    IN  {<<l, "INSTANCE_IN_USE">> : l \in Leaving(cs, want) \cap DOMAIN plan}
        \cup {<<l, "MODULE_NOT_DECOMPOSED">> : l \in DOMAIN want \ DOMAIN plan}
        \cup {<<l, "INSTANCE_COVERED">> :
                l \in {m \in DOMAIN want \cap DOMAIN renamed : renamed[m].held = "covered"}}
        \cup {<<l, "PART_KEPT">> :
                l \in {m \in DOMAIN want \cap DOMAIN plan : Kept(m)}}

-----------------------------------------------------------------------------
(* Carrying a corrected split over.                                        *)

Borrowed(cs, l) == {k \in Kind : \E m \in DOMAIN cs \ {l} : Shares(cs[m], k)}

\* Mutant: a divided group is cut once more.
AlignedAgain(g, entries) == [g EXCEPT !.pieces = @ + entries - 1]

\* A group of a kind the split names: an undivided one is cut as the split
\* says, a divided one stays as somebody cut it.
Aligned(g, entries) == IF g.pieces = 0 THEN [g EXCEPT !.pieces = entries - 1] ELSE g

\* A group of a kind it no longer names stays where somebody arranged it.
Stays(g, mayRemove) == ~mayRemove \/ g.pieces > 0 \/ g.use # "free"

\* How many groups of a kind the cohort lacks: one; of the practical kind as
\* many as went of the one it replaces.
Lacking(c, s, mayRemove, k) ==
    LET dropped == {d \in Kind \ {Lecture} : Entries(s, d) = 0 /\ c.parts[d] # <<>>}
        most == CHOOSE d \in dropped :
                    \A e \in dropped : Len(c.parts[e]) <= Len(c.parts[d])
    IN  IF k = Practical(s) /\ dropped # {}
        THEN Cardinality({i \in DOMAIN c.parts[most] : ~Stays(c.parts[most][i], mayRemove)})
        ELSE 1

\* alignInstance.
AlignedCohort(c, s, borrowed, mayRemove) ==
    [c EXCEPT !.parts = [k \in Kind |->
        CASE Entries(s, k) = 0 ->
                Chosen(@[k], {i \in DOMAIN @[k] : Stays(@[k][i], mayRemove)})
          [] Entries(s, k) > 0 /\ @[k] # <<>> ->
                [i \in DOMAIN @[k] |-> Aligned(@[k][i], Entries(s, k))]
          [] Entries(s, k) > 0 /\ @[k] = <<>> /\ k \in borrowed -> <<>>
          [] OTHER -> [i \in 1 .. Lacking(c, s, mayRemove, k) |-> Part(Entries(s, k) - 1)]]]

\* Mutant: covered cohorts are aligned too.
AppliedToAll(cs, s, mayRemove) ==
    [l \in DOMAIN cs |-> AlignedCohort(cs[l], s, Borrowed(cs, l), mayRemove)]

\* ApplyModuleSplit leaves covered cohorts out.
Applied(cs, s, mayRemove) ==
    [l \in DOMAIN cs |-> IF cs[l].held = "covered" THEN cs[l]
                         ELSE AlignedCohort(cs[l], s, Borrowed(cs, l), mayRemove)]

-----------------------------------------------------------------------------
(* The operations.                                                         *)

\* convertPendingAdvanceWishes, at the end of each transaction that may have
\* brought a cohort: an advance wish that was waiting becomes a wish for every
\* cohort that is not taught elsewhere altogether (WishRound has the rest).
TaughtAway(c) ==
    /\ c.parts # NoParts
    /\ \A k \in Kind : \A i \in DOMAIN c.parts[k] :
            c.parts[k][i].use = "away" /\ c.parts[k][i].pieces = 0

Converted(cs, advance) ==
    [l \in DOMAIN cs |-> IF advance /\ ~TaughtAway(cs[l])
                         THEN [cs[l] EXCEPT !.wished = TRUE] ELSE cs[l]]

\* The bounds: on the parts, on the kinds shared, on what else was decided about
\* a single part or cohort (a part that is not as the split makes it counts).
Bounded(cs) ==
    LET parts == UNION {UNION {{<<l, k, i>> : i \in DOMAIN cs[l].parts[k]} : k \in Kind} :
                            l \in DOMAIN cs}
        group(p) == cs[p[1]].parts[p[2]][p[3]]
        odd(p) == \/ group(p).use # "free"
                  \/ group(p).pieces # Entries(split, p[2]) - 1
    IN  /\ Cardinality(DOMAIN cs) <= MaxCohorts
        /\ Cardinality(parts) <= MaxParts
        /\ Cardinality({p[2] : p \in {q \in parts : group(q).shared}}) <= MaxShared
        /\ Cardinality({l \in DOMAIN cs : cs[l].held # "self"})
            + Cardinality({l \in DOMAIN cs : cs[l].hosts \/ cs[l].wished})
            + Cardinality({p \in parts : odd(p)}) <= MaxArranged

DemandInit ==
    /\ cohorts = <<>>
    /\ split \in Splits

Becomes(cs) ==
    /\ cohorts' = cs
    /\ Bounded(cs)
    /\ UNCHANGED split

\* Where a cohort may have arrived.
Receives(cs) ==
    \E advance \in BOOLEAN : LET new == Converted(cs, advance) IN Becomes(new)

\* A cohort is added.
Joined(cs, l, new) == [n \in DOMAIN cs \cup {l} |-> IF n = l THEN new ELSE cs[n]]

\* CreateCourseInstance gives the cohort all the parts of the split.
Declare(l, host) ==
    /\ split # <<>>
    /\ l \notin DOMAIN cohorts
    /\ LET new == IF Couples(cohorts, host) THEN NewCohort("covered", NoParts)
                  ELSE NewCohort("self", PartsFromSplit(split, {}))
       IN  Receives(Joined(cohorts, l, new))

Rename(cs, l, m) == [n \in (DOMAIN cs \ {l}) \cup {m} |-> cs[IF n = m THEN l ELSE n]]

\* UpdateCourseInstance; the unique index refuses a letter that is taken.
Change(l, m) ==
    /\ l \in DOMAIN cohorts
    /\ m \notin DOMAIN cohorts
    /\ Becomes(Rename(cohorts, l, m))

\* copyParts: assignments stay behind, divisions and other faculties' parts
\* come along.
CopiedParts(parts) ==
    [k \in Kind |-> [i \in DOMAIN parts[k] |->
        [parts[k][i] EXCEPT !.use = IF @ = "held" THEN "free" ELSE @]]]

\* Mutant: the shared parts are duplicated too.
DuplicateShared(l, source, m) ==
    /\ l \in DOMAIN cohorts /\ cohorts[l].held # "covered"
    /\ source = l \/ source \notin DOMAIN cohorts
    /\ m \notin DOMAIN Rename(cohorts, l, source)
    /\ Receives(Joined(Rename(cohorts, l, source), m,
                       NewCohort("self", CopiedParts(cohorts[l].parts))))

\* DuplicateCourseInstance: the source may get a new letter, and keeps what it
\* shares.
Duplicate(l, source, m) ==
    /\ l \in DOMAIN cohorts /\ cohorts[l].held # "covered"
    /\ source = l \/ source \notin DOMAIN cohorts
    /\ m \notin DOMAIN Rename(cohorts, l, source)
    /\ LET parts == cohorts[l].parts
           own == [k \in Kind |-> Chosen(parts[k], {i \in DOMAIN parts[k] : ~parts[k][i].shared})]
       IN  Receives(Joined(Rename(cohorts, l, source), m, NewCohort("self", CopiedParts(own))))

\* DeleteCourseInstance.
Withdraw(l) ==
    /\ l \in DOMAIN cohorts
    /\ LET less == Withdrawn(cohorts, l, TRUE) IN l \notin DOMAIN less /\ Becomes(less)

\* PartsOfKindAreDividedOrElsewhere.
DividedOrAway(c, k) ==
    \E i \in DOMAIN c.parts[k] : c.parts[k][i].pieces > 0 \/ c.parts[k][i].use = "away"

\* ShareInstancePartAcrossTracks: the siblings' parts of the kind go, and
\* nobody may hold one.
Share(l, k, i) ==
    /\ l \in DOMAIN cohorts /\ i \in DOMAIN cohorts[l].parts[k]
    /\ DOMAIN cohorts # {l}
    /\ \A m \in DOMAIN cohorts : ~DividedOrAway(cohorts[m], k)
    /\ \A m \in DOMAIN cohorts \ {l} : \A j \in DOMAIN cohorts[m].parts[k] :
            cohorts[m].parts[k][j].use = "free"
    /\ Becomes([m \in DOMAIN cohorts |->
            IF m = l THEN [cohorts[m] EXCEPT !.parts[k][i].shared = TRUE]
            ELSE [cohorts[m] EXCEPT !.parts[k] = <<>>]])

\* SplitInstancePartAcrossTracks.
Unshare(l, k, i) ==
    /\ l \in DOMAIN cohorts /\ i \in DOMAIN cohorts[l].parts[k]
    /\ cohorts[l].parts[k][i].shared
    /\ ~DividedOrAway(cohorts[l], k)
    /\ Becomes([GiveBack(cohorts, l, {k}) EXCEPT ![l].parts[k][i].shared = FALSE])

\* RequestInstanceCoverage, where another programme has a cohort that holds
\* itself; one cohort of a programme, and not one that is a host.
Ask(l) ==
    /\ l \in DOMAIN cohorts /\ ~cohorts[l].hosts
    /\ \A m \in DOMAIN cohorts : cohorts[m].held = "self"
    /\ Becomes([cohorts EXCEPT ![l].held = "asked"])

\* AcceptInstanceCoverage, by the other programme.
Agree(l) ==
    /\ l \in DOMAIN cohorts /\ cohorts[l].held = "asked"
    /\ ~IsHeld(cohorts[l])
    /\ Becomes([cohorts EXCEPT ![l].held = "covered", ![l].parts = NoParts])

\* ReleaseInstanceCoverage builds the parts from the split.
Release(l) ==
    /\ l \in DOMAIN cohorts /\ cohorts[l].held # "self"
    /\ cohorts[l].held = "covered" => split # <<>>
    /\ Becomes([cohorts EXCEPT ![l].held = "self",
            ![l].parts = IF cohorts[l].held = "covered" THEN PartsFromSplit(split, {}) ELSE @])

\* PlanDemand.
Plan(want, host) == LET plan == Planned(cohorts, split, want, host) IN Receives(plan)

\* ApplyModuleSplit.
ApplySplit(mayRemove) ==
    /\ split # <<>>
    /\ LET new == Applied(cohorts, split, mayRemove) IN Becomes(new)

\* CopyDemand: what is declared stays. A cohort that was another programme's
\* guest asks again where the host is declared; where that host cannot be one,
\* or a cohort of this programme asked already, the key or the index refuses
\* and the whole copy fails.
Copy(year, host) ==
    LET new == DOMAIN year \ DOMAIN cohorts
        asks == {l \in new : year[l].held # "self" /\ host # "absent"}
    IN  /\ asks # {} => host = "free" /\ \A l \in DOMAIN cohorts : cohorts[l].held = "self"
        /\ Receives([l \in DOMAIN cohorts \cup new |->
                IF l \notin new THEN cohorts[l]
                ELSE NewCohort(IF l \in asks THEN "asked" ELSE "self", CopiedParts(year[l].parts))])

-----------------------------------------------------------------------------
(* What others do to the cohorts and their parts, a step at a time:        *)
(* assigning, handing away, dividing and rejoining (PartStaffing), wishing *)
(* (WishRound), another programme's guests (Coverage), the catalogue.      *)

Arrange(l, k, i, use, pieces) ==
    /\ l \in DOMAIN cohorts /\ i \in DOMAIN cohorts[l].parts[k]
    /\ LET g == cohorts[l].parts[k][i] IN
        \/ g.use = "free" /\ use # "free" /\ pieces = g.pieces
        \/ g.use # "free" /\ use = "free" /\ pieces = g.pieces
        \/ use = g.use /\ pieces \in {g.pieces - 1, g.pieces + 1} /\ pieces <= 1
    /\ Becomes([cohorts EXCEPT ![l].parts[k][i].use = use, ![l].parts[k][i].pieces = pieces])

Wish(l) ==
    /\ l \in DOMAIN cohorts
    /\ Becomes([cohorts EXCEPT ![l].wished = ~@])

Guest(l) ==
    /\ l \in DOMAIN cohorts
    /\ cohorts[l].held = "self"
    /\ Becomes([cohorts EXCEPT ![l].hosts = ~@])

StateSplit(s) ==
    /\ s # split
    /\ split' = s
    /\ UNCHANGED cohorts

DemandNext ==
    \/ \E l \in Letter :
        \/ \E host \in BOOLEAN : Declare(l, host)
        \/ \E m \in Letter : Change(l, m) \/ \E source \in Letter : Duplicate(l, source, m)
        \/ Withdraw(l)
        \/ Ask(l) \/ Agree(l) \/ Release(l)
        \/ Wish(l) \/ Guest(l)
        \/ \E k \in Kind, i \in 1 .. MaxParts :
            \/ Share(l, k, i)
            \/ Unshare(l, k, i)
            \/ \E use \in {"free", "held", "away"}, pieces \in 0..1 : Arrange(l, k, i, use, pieces)
    \/ \E want \in Screens, host \in BOOLEAN : DOMAIN want \subseteq Letter /\ Plan(want, host)
    \/ \E mayRemove \in BOOLEAN : ApplySplit(mayRemove)
    \/ \E year \in LastYear, host \in {"absent", "free", "guest"} : Copy(year, host)
    \/ \E s \in Splits : StateSplit(s)

DemandSpec == DemandInit /\ [][DemandNext]_demandVars

-----------------------------------------------------------------------------
(* Properties.                                                             *)

\* Types, and what the schema cannot say: whatever the screen asks for, a
\* cohort another programme holds has no parts of its own, and at most one
\* cohort of a programme is a guest, never one that is a host.
DemandTypeOK ==
    /\ DOMAIN cohorts \subseteq Letter
    /\ split \in Splits
    /\ WellFormed(cohorts)

\* A save of the planning screen does what it was asked or refuses it by name:
\* every letter asked for is declared with its groups, every other one is gone.
\* Where a withdrawn cohort's teaching went to another programme, a cohort may
\* have one group more: the one it was handed back, which adjustGroups did not
\* see.
PlanIsDoneOrRefused ==
    \A want \in Screens, host \in BOOLEAN :
        LET plan == Planned(cohorts, split, want, host)
            refused == Refusals(cohorts, split, want, plan)
            promoted == \E l \in Leaving(cohorts, want) : cohorts[l].hosts
        IN  /\ \A l \in DOMAIN want :
                \/ \E code \in {"MODULE_NOT_DECOMPOSED", "INSTANCE_COVERED", "PART_KEPT"} :
                        <<l, code>> \in refused
                \/ /\ l \in DOMAIN plan
                   /\ \/ Practical(split) = NoKind \/ plan[l].held = "covered"
                      \/ OwnGroups(plan[l], Practical(split)) - want[l]
                            \in IF promoted THEN {0, 1} ELSE {0}
            /\ \A l \in DOMAIN plan \ DOMAIN want : <<l, "INSTANCE_IN_USE">> \in refused

\* Pressing the button again changes nothing: the same screen saved twice, the
\* same split carried over twice, adds no group, no piece and no cohort.
RepeatingChangesNothing ==
    /\ \A want \in Screens, host \in BOOLEAN :
        LET once == Planned(cohorts, split, want, host) IN
        (\A l \in DOMAIN cohorts : ~cohorts[l].hosts) =>
            Planned(once, split, want, host) = once
    /\ split # <<>> => \A mayRemove \in BOOLEAN :
        LET once == Applied(cohorts, split, mayRemove) IN
        Applied(once, split, mayRemove) = once

\* The lectures a cohort attends: its own and what its siblings hold for it.
Attended(cs, l) ==
    Len(cs[l].parts[Lecture])
        + Cardinality({m \in DOMAIN cs \ {l} : Shares(cs[m], Lecture)})

AttendedOnce(cs) == \A l \in DOMAIN cs : Attended(cs, l) <= 1

\* A lecture held once for all cohorts stays held once: no cohort comes to
\* attend two but by declaring it by hand, by a released coverage, or by a
\* copy that comes beside cohorts that were there already or of a semester in
\* which one attended two.
LectureIsHeldOnce ==
    [][AttendedOnce(cohorts) /\ ~AttendedOnce(cohorts') =>
        \/ \E l \in Letter, host \in BOOLEAN : Declare(l, host)
        \/ \E l \in Letter : Release(l)
        \/ \E year \in LastYear, host \in {"absent", "free", "guest"} :
            Copy(year, host) /\ (cohorts # <<>> \/ ~AttendedOnce(year))]_demandVars
=============================================================================
