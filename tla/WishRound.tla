----------------------------- MODULE WishRound -----------------------------
(***************************************************************************)
(* The wishes for one module in one programme and semester: noted down in  *)
(* advance, converted when the demand is released or a cohort declared,    *)
(* entered and withdrawn, and handed over when cohorts are merged.         *)
(*                                                                         *)
(* A step is a statement, or the rest of a transaction after its last read *)
(* of what others can change. What a request reads before it writes is     *)
(* kept in tx. A row that a transaction has written is locked until it     *)
(* ends; a new wish takes its cohort FOR KEY SHARE, a withdrawal FOR       *)
(* UPDATE. Every refusal is an Abort, as is a lost connection.             *)
(*                                                                         *)
(* Notes, the bounds on tracks, the subject group's window (read with the  *)
(* phase and the release, and nothing else asks for it) and cohorts taught *)
(* elsewhere are not modelled.                                             *)
(***************************************************************************)
EXTENDS Integers, FiniteSets

CONSTANTS
    Person,    \* who may wish
    Cohort,    \* ids of the module's cohorts in the programme
    Client,    \* requests open at the same time
    LastPhase, \* FINAL, the fifth phase
    Weakest,   \* the weakest priority (3 in the code), 1 is the strongest
    Nothing    \* NULL

ASSUME ConstantsAssumption ==
    /\ LastPhase \in Nat \ {0}
    /\ Weakest \in Nat \ {0}
    /\ Nothing \notin Person \cup Cohort \cup Client \cup Nat

VARIABLES
    phase,     \* semester.phase
    released,  \* a row in demand_completion: the programme's demand is settled
    declared,  \* the cohorts with a row in course_instance
    gone,      \* the cohorts withdrawn: an id is never used again
    wish,      \* the priority of a person's wish for a cohort, 0 for none
    advance,   \* the priority of a person's advance wish, 0 for none
    converted, \* whose advance wish has converted_at set
    lock,      \* who holds the FOR UPDATE lock of a cohort
    tx         \* a client's request

semester == <<phase, released>>
cohorts == <<declared, gone>>
wishes == <<wish, advance, converted>>
vars == <<phase, released, declared, gone, wish, advance, converted, lock, tx>>

Phase == 1..LastPhase
Level == 0..Weakest
Operation == {"phase", "wish", "unwish", "advance", "announce", "declare", "withdraw"}

\* person, cohort: what the request names. phase: as it was read. due: whose
\* advance wishes it converts, into wishes for the cohorts in onto. target: the
\* cohort that takes the wishes over. dropped: the wishes it deletes. late, which
\* the code does not keep: who changed a wish of theirs since that was decided.
Idle == [op |-> "none", at |-> "idle", person |-> Nothing, cohort |-> Nothing,
         phase |-> 1, due |-> {}, onto |-> {}, target |-> Nothing, dropped |-> {}, late |-> {}]
Request ==
    [op : Operation, at : {"read", "written", "ready"}, person : Person \cup {Nothing},
     cohort : Cohort \cup {Nothing}, phase : Phase, due : SUBSET Person,
     onto : SUBSET Cohort, target : Cohort \cup {Nothing},
     dropped : SUBSET (Cohort \X Person), late : SUBSET Person]

\* Only what was noted down is converted, and only rows that are there locked.
TypeOK ==
    /\ phase \in Phase
    /\ released \in BOOLEAN
    /\ declared \subseteq Cohort
    /\ gone \subseteq Cohort \ declared
    /\ wish \in [Cohort -> [Person -> Level]]
    /\ advance \in [Person -> Level]
    /\ converted \subseteq {p \in Person : advance[p] # 0}
    /\ lock \in [Cohort -> Client \cup {Nothing}]
    /\ \A c \in Cohort : lock[c] # Nothing => c \in declared
    /\ tx \in [Client -> Request \cup {Idle}]

Init ==
    /\ phase = 1
    /\ released = FALSE
    /\ declared = {}
    /\ gone = {}
    /\ wish = [c \in Cohort |-> [p \in Person |-> 0]]
    /\ advance = [p \in Person |-> 0]
    /\ converted = {}
    /\ lock = [c \in Cohort |-> Nothing]
    /\ tx = [k \in Client |-> Idle]

-----------------------------------------------------------------------------

Running(k, op, at) == tx[k].op = op /\ tx[k].at = at
Begin(k, op, at, p, c) ==
    /\ tx[k] = Idle
    /\ tx' = [tx EXCEPT ![k] = [Idle EXCEPT !.op = op, !.at = at, !.person = p,
                                            !.cohort = c, !.phase = phase]]
Answer(k) == tx' = [tx EXCEPT ![k] = Idle]
Unlock(k) == [c \in Cohort |-> IF lock[c] = k THEN Nothing ELSE lock[c]]

\* Rows others have written and not yet committed.
ConvertedBy(k, p) == tx[k].at = "ready" /\ p \in tx[k].due
AdvanceFree(k, p) == \A j \in Client \ {k} : ~ConvertedBy(j, p)
WishFree(k, c, p) ==
    \A j \in Client \ {k} :
        /\ <<c, p>> \notin tx[j].dropped
        /\ ~(ConvertedBy(j, p) /\ c \in tx[j].onto)

\* A new wish keeps its cohort's row in place until its transaction ends.
Inserted(k, c) ==
    \E p \in tx[k].due : ConvertedBy(k, p) /\ c \in tx[k].onto /\ wish[c][p] = 0

-----------------------------------------------------------------------------
(* The semester.                                                           *)

\* AdvancePhase reads the phase ...
PhaseRead(k) ==
    /\ Begin(k, "phase", "read", Nothing, Nothing)
    /\ UNCHANGED <<semester, cohorts, wishes, lock>>

Adjacent(from, to) == to = from + 1 \/ from = to + 1

\* Mutant: the phase is written whatever it is by now.
PhaseWriteAnyway(k, to) ==
    /\ Running(k, "phase", "read")
    /\ Adjacent(tx[k].phase, to)
    /\ phase' = to
    /\ Answer(k)
    /\ UNCHANGED <<released, cohorts, wishes, lock>>

\* ... and writes if it is still that one.
PhaseWrite(k, to) ==
    /\ Running(k, "phase", "read")
    /\ Adjacent(tx[k].phase, to)
    /\ phase = tx[k].phase
    /\ phase' = to
    /\ Answer(k)
    /\ UNCHANGED <<released, cohorts, wishes, lock>>

\* WithdrawDemandComplete: the DELETE waits for an announcement that refreshes
\* the row.
WithdrawRelease ==
    /\ released
    /\ \A k \in Client : tx[k].op # "announce"
    /\ released' = FALSE
    /\ UNCHANGED <<phase, cohorts, wishes, lock, tx>>

-----------------------------------------------------------------------------
(* Advance wishes.                                                         *)

\* SetAdvanceWish reads the phase and the release ...
AdvanceRead(k, p) ==
    /\ phase # LastPhase /\ ~released
    /\ Begin(k, "advance", "read", p, Nothing)
    /\ UNCHANGED <<semester, cohorts, wishes, lock>>

\* ... and then notes it down, or changes it while it is pending.
AdvanceWrite(k, level) ==
    LET p == tx[k].person IN
    /\ Running(k, "advance", "read")
    /\ p \notin converted /\ AdvanceFree(k, p)
    /\ advance' = [advance EXCEPT ![p] = level]
    /\ Answer(k)
    /\ UNCHANGED <<semester, cohorts, wish, converted, lock>>

\* Mutant: the DELETE does not wait for a conversion.
WithdrawAdvanceAtOnce(p) ==
    /\ advance[p] # 0
    /\ advance' = [advance EXCEPT ![p] = 0]
    /\ converted' = converted \ {p}
    /\ UNCHANGED <<semester, cohorts, wish, lock, tx>>

\* WithdrawAdvanceWish, pending or converted, whatever the phase.
WithdrawAdvance(p) ==
    /\ advance[p] # 0 /\ \A k \in Client : ~ConvertedBy(k, p)
    /\ advance' = [advance EXCEPT ![p] = 0]
    /\ converted' = converted \ {p}
    /\ UNCHANGED <<semester, cohorts, wish, lock, tx>>

-----------------------------------------------------------------------------
(* Conversion (convertPendingAdvanceWishes), in the transaction of a       *)
(* release and in that of a declaration.                                   *)

\* AnnounceDemandComplete writes its row, and waits for another's.
Announce(k) ==
    /\ \A j \in Client : tx[j].op # "announce"
    /\ Begin(k, "announce", "written", Nothing, Nothing)
    /\ UNCHANGED <<semester, cohorts, wishes, lock>>

\* CreateCourseInstance inserts the cohort.
Declare(k, c) ==
    /\ c \notin declared \cup gone
    /\ \A j \in Client : ~(tx[j].op = "declare" /\ tx[j].cohort = c)
    /\ Begin(k, "declare", "written", Nothing, c)
    /\ UNCHANGED <<semester, cohorts, wishes, lock>>

\* What the transaction sees: what is committed, and its own row.
SeesRelease(k) == released \/ tx[k].op = "announce"
SeesCohorts(k) == declared \cup (IF tx[k].op = "declare" THEN {tx[k].cohort} ELSE {})
\* Mutant: a converted advance wish is due again.
DueAgain(k) ==
    IF phase # LastPhase /\ SeesRelease(k) /\ SeesCohorts(k) # {}
    THEN {p \in Person : advance[p] # 0} ELSE {}

Due(k) ==
    IF phase # LastPhase /\ SeesRelease(k) /\ SeesCohorts(k) # {}
    THEN {p \in Person : advance[p] # 0 /\ p \notin converted} ELSE {}

\* ConvertAdvanceWishes waits for the rows it changes, and for the cohorts it
\* adds wishes to. One that was converted meanwhile is passed over.
Convert(k) ==
    LET onto == SeesCohorts(k) IN
    /\ tx[k].op \in {"announce", "declare"} /\ tx[k].at = "written"
    /\ \A p \in Due(k) :
        /\ AdvanceFree(k, p)
        /\ \A c \in onto : WishFree(k, c, p) /\ (wish[c][p] = 0 => lock[c] = Nothing)
    /\ tx' = [tx EXCEPT ![k].at = "ready", ![k].due = Due(k), ![k].onto = onto]
    /\ UNCHANGED <<semester, cohorts, wishes, lock>>

\* An existing wish keeps the stronger priority.
Stronger(old, new) == IF old = 0 \/ new < old THEN new ELSE old

\* The commit of a release or of a declaration.
Release(k) ==
    /\ tx[k].op \in {"announce", "declare"} /\ tx[k].at = "ready"
    /\ released' = (released \/ tx[k].op = "announce")
    /\ declared' = SeesCohorts(k)
    /\ wish' = [c \in Cohort |-> [p \in Person |->
                 IF c \in tx[k].onto /\ p \in tx[k].due
                 THEN Stronger(wish[c][p], advance[p]) ELSE wish[c][p]]]
    /\ converted' = converted \cup tx[k].due
    /\ Answer(k)
    /\ UNCHANGED <<phase, gone, advance, lock>>

-----------------------------------------------------------------------------
(* Wishes.                                                                 *)

\* What a person's own write means for the others' requests: a merge that has
\* decided about their wishes did not see it.
Unseen(p) ==
    [j \in Client |-> IF \E c \in Cohort : <<c, p>> \in tx[j].dropped
                     THEN [tx[j] EXCEPT !.late = @ \cup {p}] ELSE tx[j]]

\* WishWriteContext, of an instance: one statement.
TakesWishes(c) == c \in declared /\ phase # LastPhase /\ released

WishRead(k, p, c) ==
    /\ TakesWishes(c)
    /\ Begin(k, "wish", "read", p, c)
    /\ UNCHANGED <<semester, cohorts, wishes, lock>>

\* Mutant: no foreign key.
WishWriteAnyway(k, level) ==
    LET p == tx[k].person
        c == tx[k].cohort IN
    /\ Running(k, "wish", "read")
    /\ WishFree(k, c, p)
    /\ wish' = [wish EXCEPT ![c][p] = level]
    /\ Answer(k)
    /\ UNCHANGED <<semester, cohorts, advance, converted, lock>>

\* UpsertWish. A new row waits for a withdrawal of its cohort, and is refused
\* once that is gone.
WishWrite(k, level) ==
    LET p == tx[k].person
        c == tx[k].cohort IN
    /\ Running(k, "wish", "read")
    /\ c \in declared
    /\ WishFree(k, c, p) /\ (wish[c][p] = 0 => lock[c] = Nothing)
    /\ wish' = [wish EXCEPT ![c][p] = level]
    /\ tx' = [Unseen(p) EXCEPT ![k] = Idle]
    /\ UNCHANGED <<semester, cohorts, advance, converted, lock>>

\* Withdraw reads the wish and its context. It names the wish, which is there
\* until somebody deletes it and may move to another cohort meanwhile.
UnwishRead(k, p, c) ==
    /\ wish[c][p] # 0 /\ TakesWishes(c)
    /\ Begin(k, "unwish", "read", p, c)
    /\ UNCHANGED <<semester, cohorts, wishes, lock>>

Names(j, c, p) == tx[j].op = "unwish" /\ tx[j].cohort = c /\ tx[j].person = p

\* DeleteOwnWish. Another request that names the wish will find nothing.
Unwish(k) ==
    LET p == tx[k].person
        c == tx[k].cohort IN
    /\ Running(k, "unwish", "read")
    /\ WishFree(k, c, p)
    /\ wish' = [wish EXCEPT ![c][p] = 0]
    /\ tx' = [j \in Client |-> IF j = k \/ Names(j, c, p) THEN Idle ELSE Unseen(p)[j]]
    /\ UNCHANGED <<semester, cohorts, advance, converted, lock>>

-----------------------------------------------------------------------------
(* Withdrawing a cohort (DeleteCourseInstance with handOverWishes).        *)

\* LockCoverageGroup.
WithdrawBegin(k, c) ==
    /\ c \in declared /\ lock[c] = Nothing
    /\ \A j \in Client : ~Inserted(j, c)
    /\ Begin(k, "withdraw", "written", Nothing, c)
    /\ lock' = [lock EXCEPT ![c] = k]
    /\ UNCHANGED <<semester, cohorts, wishes>>

\* Who wished for both cohorts, and what may be deleted of each: the weaker
\* one, and of two alike the younger.
WishedForBoth(c, t) == {p \in Person : wish[c][p] # 0 /\ wish[t][p] # 0}
\* Mutant: the stronger one goes.
StrongerOf(c, t, p) ==
    {d \in {c, t} : wish[d][p] <= wish[c][p] /\ wish[d][p] <= wish[t][p]}

WeakerOf(c, t, p) ==
    {d \in {c, t} : wish[d][p] >= wish[c][p] /\ wish[d][p] >= wish[t][p]}

\* WishHandoverTarget and DeleteWeakerCollidingWishes. With no other cohort
\* there is nothing to hand over.
HandOver(k) ==
    LET c == tx[k].cohort IN
    /\ Running(k, "withdraw", "written")
    /\ \/ /\ declared = {c}
          /\ tx' = [tx EXCEPT ![k].at = "ready"]
       \/ \E t \in declared \ {c} :
          LET both == WishedForBoth(c, t) IN
          /\ \A p \in both : WishFree(k, c, p) /\ WishFree(k, t, p)
          /\ \E weaker \in [both -> {c, t}] :
              /\ \A p \in both : weaker[p] \in WeakerOf(c, t, p)
              /\ tx' = [tx EXCEPT ![k].at = "ready", ![k].target = t,
                                  ![k].dropped = {<<weaker[p], p>> : p \in both}]
    /\ UNCHANGED <<semester, cohorts, wishes, lock>>

\* The wishes for c that are left. MoveWishesToInstance moves them, the unique
\* index refuses where somebody has wished for the target meanwhile.
Left(k) == {p \in Person : wish[tx[k].cohort][p] # 0 /\ <<tx[k].cohort, p>> \notin tx[k].dropped}
MovedTo(k, t) ==
    /\ t \in declared /\ lock[t] \in {Nothing, k}
    /\ \A p \in Left(k) :
        /\ WishFree(k, tx[k].cohort, p) /\ WishFree(k, t, p)
        /\ wish[t][p] = 0 \/ <<t, p>> \in tx[k].dropped

\* Then the cohort's row is deleted, which a wish that is left refuses.
Withdraw(k) ==
    LET c == tx[k].cohort
        t == tx[k].target
        left == Left(k) IN
    /\ Running(k, "withdraw", "ready")
    /\ left # {} => t # Nothing /\ MovedTo(k, t)
    /\ declared' = declared \ {c}
    /\ gone' = gone \cup {c}
    /\ wish' = [d \in Cohort |-> [p \in Person |->
                 IF d = t /\ p \in left THEN wish[c][p]
                 ELSE IF <<d, p>> \in tx[k].dropped \/ d = c THEN 0 ELSE wish[d][p]]]
    /\ lock' = Unlock(k)
    /\ tx' = [j \in Client |->
               IF j = k \/ \E cp \in tx[k].dropped : Names(j, cp[1], cp[2]) THEN Idle
               ELSE IF tx[j].op = "unwish" /\ tx[j].cohort = c THEN [tx[j] EXCEPT !.cohort = t]
               ELSE tx[j]]
    /\ UNCHANGED <<semester, advance, converted>>

\* A refusal, a cancelled request or a deadlock's victim.
Abort(k) ==
    /\ tx[k] # Idle
    /\ lock' = Unlock(k)
    /\ Answer(k)
    /\ UNCHANGED <<semester, cohorts, wishes>>

-----------------------------------------------------------------------------

Next ==
    \/ WithdrawRelease
    \/ \E p \in Person : WithdrawAdvance(p)
    \/ \E k \in Client :
        \/ PhaseRead(k)
        \/ \E to \in Phase : PhaseWrite(k, to)
        \/ \E p \in Person : AdvanceRead(k, p)
        \/ \E level \in 1..Weakest : AdvanceWrite(k, level)
        \/ Announce(k)
        \/ \E c \in Cohort : Declare(k, c) \/ WithdrawBegin(k, c)
        \/ Convert(k)
        \/ Release(k)
        \/ \E p \in Person, c \in Cohort : WishRead(k, p, c) \/ UnwishRead(k, p, c)
        \/ \E level \in 1..Weakest : WishWrite(k, level)
        \/ Unwish(k)
        \/ HandOver(k)
        \/ Withdraw(k)
        \/ Abort(k)

Spec == Init /\ [][Next]_vars

-----------------------------------------------------------------------------
(* Properties.                                                             *)

\* The phase moves one step at a time, however many administrators move it at
\* once (AdvancePhase: "the condition on the write is what makes the read safe").
PhaseMovesOneStep == [][phase' # phase => Adjacent(phase, phase')]_vars

\* A wish is for a cohort that is there: a withdrawal takes no wish with it,
\* whatever arrives between its statements.
WishedIsDeclared == \A c \in Cohort, p \in Person : wish[c][p] # 0 => c \in declared

\* A person gets a wish by entering it, by a first conversion of an advance
\* wish, or from a cohort that is merged: "a wish withdrawn afterwards does not
\* come back on the next release" (migration 20261101100000).
Wishes(c, p) == wish[c][p] # 0
WishesComeOnce ==
    [][\A c \in Cohort, p \in Person : ~Wishes(c, p) /\ Wishes(c, p)' =>
        \/ \E k \in Client, level \in 1..Weakest : tx[k].person = p /\ WishWrite(k, level)
        \/ p \in converted' \ converted
        \/ \E d \in declared \ declared' : Wishes(d, p)]_vars

\* Conversions and merges never weaken what a person wishes for most, let alone
\* lose it ("keeps one wish: the stronger priority", handOverWishes); unless the
\* person changed a wish between a merge's decision about it and its commit.
Weakened(p) ==
    \E c \in Cohort : Wishes(c, p)
        /\ \A d \in Cohort : Wishes(d, p)' => wish'[d][p] > wish[c][p]
OwnAct(p) ==
    \E k \in Client : tx[k].person = p
        /\ (Unwish(k) \/ \E level \in 1..Weakest : WishWrite(k, level))
StrongestIsKept ==
    [][\A p \in Person : Weakened(p) =>
        OwnAct(p) \/ \E k \in Client : Withdraw(k) /\ p \in tx[k].late]_vars

\* Nobody sees a released programme with a cohort whose advance wishes are still
\* pending: what the comment in AnnounceDemandComplete says
\* (internal/store/planningmarks.go:84).
NothingPendsAfterRelease ==
    released /\ declared # {} => {p \in Person : advance[p] # 0} \subseteq converted
=============================================================================
