# tallox.go in TLA+

Tallox plans who teaches what at a faculty: study programmes declare course
instances, lecturers wish for them, subject groups assign their parts, the
dean's office evaluates. The program is one Go process (a GraphQL handler with
two doors) over one PostgreSQL database. It keeps almost no state in memory.
What can go wrong is therefore what several transactions do to the same rows in
an order nobody tried, at PostgreSQL's READ COMMITTED isolation, and what a
person decided on a screen that was rendered some minutes ago. The modules here
model those transactions statement by statement, with their row locks.

## How a database step is modelled

* One action is one committed statement, or one statement of a transaction that
  others can see or wait for. What a transaction writes is invisible before the
  commit, so its writes are one step with the commit; its locks and its reads
  are steps of their own.
* `SELECT ... FOR UPDATE`, `FOR SHARE`, the key lock a foreign key takes and the
  row lock of an `UPDATE` or `DELETE` are guards on lock variables. A statement
  that waited re-reads the rows it waited for and only those; where that
  distinction matters (AdminGuard, PlanningMark) the snapshot is in the state.
* `ON CONFLICT`, `CHECK`, unique indexes and foreign keys are guards of the
  statement they refuse.
* The early returns of a handler end its transaction and change nothing (the
  deferred `Rollback`). A refused single statement is no step.
* A screen, or a value read earlier and used later, is a variable.
* Ids, people and modules are model values. Time is a phase or a flag.

## Inventory

| Component | State | Operations | What is hard | What makes it correct |
| --- | --- | --- | --- | --- |
| Part staffing and division (`store/assignments.go`, `store/demand.go` 933-1236) | `instance_part`, `assignment` | fill, replace, clear; add, correct, remove, divide, rejoin, hand away | fills against handing away; two row locks; stale screens | nothing is both staffed and taught elsewhere; no assignment loses its part; pieces one level deep; no deadlock |
| Coverage (`store/demand.go` 1405-1905, migrations 20260829, 20260830) | `course_instance.covered_by_instance_id`, accepted, parts | declare, request, accept, release, withdraw with promotion | handshake between two leads, promotion of a guest, races of unlocked reads | one level, one covered cohort, an accepted guest holds no teaching of its own, teaching is never lost |
| Sharing parts between tracks (`store/demand.go` 1249-1400) | `serves_sibling_tracks`, parts of siblings | share, split | siblings change between read and write | a shared part is held once |
| Planning a demand, copying, duplicating, applying a split (`store/demand.go` 601-775, 2031-2943, `store/splitapplication.go`) | instances and parts of a programme | planDemand with savepoints, copyDemand, duplicate, applyModuleSplit | partial refusal inside one transaction, a dry run, re-running | what is reported is what happened; a dry run changes nothing; copying twice copies once |
| Administrators (`store/people.go` 440-600, `store/bootstrap.go`) | `person.active`, `person_role` | grant, revoke, activate, deactivate, admit, reconcile at start | write skew over a set of rows | somebody can always administer |
| Role and scope sets (`domain/people.go` 417-570, `store/people.go` 625-682, `store/subject_groups.go` 235-327) | grants, scopes, memberships | replace a whole set | two replacements of one set | the set is one somebody sent |
| Planning mark (`store/semesters.go` 219-314) | `semester.is_planning` | set | two marks at once, unique index, one retry | calls take turns, the mark never disappears, two at once are never refused |
| Semester process (`domain/semester.go`) | phase, publication and freeze marks | advance, step back, publish wishes, assignments and figures, freeze | check then write, compare and set | phases move one step; a publication is never undone; no publication with an open window |
| Wishes (`domain/wish.go`, `store/wishes.go`) | `wish`, `wish_track_limit` | set, withdraw, limit | the phase and window are read before the write | a wish is written only while it may be |
| Advance wishes and completion marks (`store/advancewishes.go`, `store/planningmarks.go`) | `advance_wish`, `demand_completion`, `review_completion`, `wish_window` | set, withdraw, announce, withdraw announcement, conversion | conversion in two kinds of transaction | an advance wish is converted once; a released programme has none pending |
| Desired hours (`domain/desiredhours.go`, `store/desiredhours.go`) | `desired_teaching_hours` | state, clear, correct | the freeze arrives between check and write | a frozen figure changes only by the dean's office |
| Assignment confirmation (`domain/assignmentconfirmation.go`) | `assignment_confirmation` with a fingerprint | confirm | an assignment changes while it is confirmed | a changed assignment is never shown as confirmed |
| Examination office import (`domain/zpasync.go`, `store/zpa.go`, `store/zpalock.go`) | `zpa_object`, `zpa_sync_run`, advisory lock | start, fetch each kind, retire, finish, project, abandon | endpoints fail one by one, crash, detached runs | only a complete fetch retires; one run at a time; every run ends |
| Catalogue projection (`store/catalogue.go`) | programmes, modules, offerings | project | deletes what the source dropped | a hand-made row is never touched |
| Competences (`domain/competence.go`, `store/competences.go`) | `competence` | set, withdraw, for a teacher | own row against the entered one | a person's own statement wins |
| Subject groups (`domain/subjectgroup.go`, `store/subject_groups.go`) | groups, members, leads, filed modules | create, rename, retire, file, set members and leads | count then write | a batch is filed whole or not at all |
| Tokens and doors (`internal/auth`, `domain/token.go`) | `personal_access_token` | mint, revoke, authenticate, mark used | revocation against a running request | a token is never more than its owner |
| Policy (`internal/policy`, SQL filters) | none | who may read and write what | the same rule in Go and in SQL | the two agree; unpublished wishes stay unseen |
| Access log (`store/access.go`, `domain/accessservice.go`) | `access_log` | record, prune, report | append only | |
| Migrations, configuration, start and shutdown (`store/migrate.go`, `bootstrap/`) | schema version | migrate, serve, drain | two replicas starting | |
| GraphQL layer, names, handbook parsing, generated code (`graph/`, `internal/sdl`) | none | | | |

The components read and write each other's rows through foreign keys and through
a few transactions that cross them: declaring an instance couples it to a host
and converts advance wishes; withdrawing one promotes a guest and hands wishes
over; every write of an assignment or a wish first reads the semester's phase.
The phase and permission checks run before the transaction that writes, in a
statement of their own.

## Modules

| Module | What it is |
| --- | --- |
| `Counting` | what is counted per part or per cohort: its units, and how many there are; the order of letters and of groups |
| `CountingProofs` | moving units from one place to another keeps their number; the first, the n-th and the chosen ones |
| `PartTeaching` | abstract: who teaches each part of an instance |
| `PartStaffing` | parts, pieces and assignments, with the transactions on them; implements `PartTeaching` |
| `PartStaffingProofs` | its theorems |
| `AdminGuard` | "somebody can always administer": grants, revocations, activity, admission at start |
| `AdminGuardProofs` | its theorems |
| `Coverage` | a programme's demand met by another programme's event: the handshake and the withdrawal |
| `CoverageProofs` | its theorems |
| `PlanningMark` | the one semester that is being planned |
| `PlanningMarkProofs` | its theorems |
| `DemandPlan` | the cohorts of one module: declared, planned, shared, copied, and a corrected split carried over |
| `DemandPlanProofs` | its theorems |
| `WishRound` | one module's wishes: in advance, converted, entered, withdrawn, handed over; the phase |
| `WishRoundProofs` | its theorems |
| `ZpaSync` | the import of the examination office's master data, and its projection into the catalogue |
| `ZpaSyncProofs` | its theorems |
| `MC...` | constants and symmetry for TLC |

### PartStaffing

`stored`, `hours`, `root`, `elsewhere` are columns of `instance_part`
(`teaching_hours`, `divided_from_id`, `taught_by`), `assignment` is the row of
`assignment` that names the part. `lock` and `tx` are the transactions of
`store/demand.go`: `LockPart` is `LockInstancePart`, the first statement of
`DivideInstancePart`, `RejoinInstancePart` and `SetInstancePartTaughtBy`;
`Divide`, `RejoinCheck`, `RejoinLockRoot`, `Rejoin`, `HandAwayCheck`,
`HandAway` and `TakeBack` are the steps after it; `Refuse` is an early return
and `Crash` a lost connection. `Fill`, `Replace`, `Clear`, `AddPart`,
`CorrectHours` and `RemovePart` are single statements. `seen` is what a screen
shows: a replacement and a clearing name the assignment that was on it.

`part_staffing` (two parts, two people, two transactions, one screen) shows that
a part handed to another faculty is never staffed, that an assignment never
loses its part, that every behaviour is one of `PartTeaching`, and that a
transaction that began ends. `part_division` (three parts, one person, no
assignment) looks at cutting: pieces stay one level deep, hours are conserved,
and nobody waits for a transaction that itself waits. Two transactions are
enough for each pair of operations to meet, three parts for a piece of a piece.
`part_replacement` is a finding, below.

Fairness, for `TransactionsEnd` alone: strong, on the continuation of each
client's transaction. The server runs a request to its end without waiting for
its user, which gives the weak part; a row lock is granted in the order of
PostgreSQL's queue, so that others who take it again and again cannot starve the
one who waits, which gives the strong part. Losing the connection is not fair.

### AdminGuard

`admins` and `active` are `person_role` (ADMIN only) and `person.active`. A
revocation or deactivation of `store/people.go` takes the locks of
`LockAdminGrants` one by one over the snapshot its statement started with
(`Begin`, `LockGrant`), counts (`Count`), and writes. `Activate`, `GrantAdmin` and
`Reconcile` (the start of a process) take no part in the locking. `QuietSpec` is
the same without a grant of ADMIN while a removal waits for its locks.

`admin_guard` (three people, three removals at a time) checks `QuietSpec`:
somebody administers, and removals that touch an administrator exclude each
other. `admin_grant_race` checks `Spec`: with a grant committed while a removal
waits, the guarantee is gone.

### Coverage

The cohorts of one module in one semester, in two programmes. `host` and
`accepted` are `covered_by_instance_id` and `covered_accepted_at`; parts and
assignments are counts, since no operation here tells one part from another.
`Declare` is `CreateCourseInstance` with `coupleIfHostExists`; `Request`,
`Accept`, `Release` are the handshake after `lockCoveragePair` (two `LockNext`,
in id order); `Withdraw` and `Promote` are `DeleteCourseInstance` after
`LockCoverageGroup` and `CoverageSuccessorFor`. What a transaction reads before
it locks is kept in `tx` and used later, as the code does. Refusals and lost
connections are one action, `Abort`, which may come at any point.

`coverage` runs three cohorts, of which two share a programme (the least for a
promotion that re-points a second guest, and for the index that allows one
covered cohort per programme), two transactions, up to two parts a cohort and
two assignments in all (`MaxStaffed`; the promotion adds the two). An id is declared once:
PostgreSQL never uses it again. Deadlock is not checked because the system
stops when every cohort has been withdrawn.

Left out: the service's reads for permission, parts a cohort keeps for the
siblings of its own programme and wishes handed over with a promotion (both are in
DemandPlan), `planning_status`.

### PlanningMark

`SetPlanningSemester` of `store/semesters.go`: a transaction that clears the mark
(an UPDATE over the rows its snapshot saw marked, each re-read once its lock is
granted), marks the target, and may be refused by the unique index, after which
the call tries once more. `Tell` is the error that reaches the caller.

`planning` (three semesters, three calls) shows that calls take turns: once one has
cleared the mark, no other commits before it ends, whether it waits for the row, sees the
mark on its own target or missed it. A mark once set never disappears; a call is
told "somebody else was faster" only after each of its attempts was overtaken by the commit of
a call for another semester; and calls that wait for each other in a ring all name one semester.
That one semester at most is marked is what the unique index is for, and is not checked:
`OtherMarks` is the index, which refuses a second mark by itself. Three calls are
what the retry needs: one is overtaken twice by two others; and it takes a third to
commit past one that cleared a row without looking at it again.

### DemandPlan

The cohorts of one module in one programme and semester, and every operation that
rewrites them as a whole. `cohorts` maps each declared letter to its row:
`held` is the coverage (by itself, asked for, accepted), `hosts` that another
programme's cohort names it, `wished` that a wish for it exists, `parts` the
undivided rows of `instance_part` by kind, each with the number of pieces cut
from it, `serves_sibling_tracks`, and whether somebody is assigned to a row of it
or another faculty teaches one. `split` is `module_component`.

* One cohort: `Declare`, `Change`, `Duplicate`, `Withdraw` (with `Promoted`, `GiveBack`,
  `HandedOver`), `Ask`, `Agree`, `Release`.
* The siblings: `Share`, `Unshare`.
* The screen: `Plan` is `PlanDemand` for one row. `Planned` is `planModule` in its
  order: `AfterLeaving` (the last spare letters are withdrawn, each under its
  savepoint: a refused one is as if nothing had been tried), `AfterRenames`,
  `AfterCreating`, and `Adjusted` for every cohort, with the number of groups read at
  the start. `Refusals` is the report. What the code does by position in a list sorted by
  letter (the first spare cohort takes the first open letter, the last ones go) is said with
  the `Rank` of a letter among others and the `Nth` letter, what it does by filtering a list of parts
  (`Trimmed`, `AlignedCohort`, `Duplicate`) with the parts `Chosen`: both are numbers that can be counted.
* The split: `StateSplit`, `ApplySplit` (`Applied` is `ApplyModuleSplit`,
  `AlignedCohort` its three passes for a cohort).
* `Copy` is `CopyDemand`.
* `Converted` ends every transaction that may have brought a cohort: a pending
  advance wish becomes a wish.
* `Arrange`, `Wish` and `Guest` stand for what the other modules have in detail.

A transaction is one step: two at once are the matter of PartStaffing and
Coverage. A preview is a transaction that is rolled back, hence no step, but its
report is checked: `PlanIsDoneOrRefused` and `RepeatingChangesNothing` are
evaluated, in every state, for every screen, also for those with a letter no
step declares. Hours, notes, the cohort year, the format of teaching and the order
of parts of different kinds are left out.

In `planning` the module shares a run with PlanningMark, of which it reads nothing:
either moves while the other is as it began, so that the run is both state spaces
and not their product. It has two letters (three on a preview), three
splits (a lecture named twice with a laboratory; an exercise named twice instead; none), five
screens, two semesters to copy (cohorts with the lecture in common; a former
guest), and four parts in all. `MaxShared`, `MaxArranged` allow one shared kind
and one other decision (a staffed or foreign part, one that is cut otherwise than the
split says or not named by it, a coverage, a guest, a wish) at a time; a change of the split
itself is not bounded. This suffices: what the rules refuse or keep is decided part by part and
cohort by cohort, and each of the exceptions below is reached within these
bounds. Two letters are the least for a merge, a rename and a
shared part; the third on the preview is for a rename beside a withdrawal and a
declaration beside two siblings.

The run shows that a save does what it was asked or names what it refused, for
every letter; that saving again, and applying a split again, changes nothing; that
nothing gives an accepted guest parts or a programme two guests; and
that no operation makes a cohort attend two lectures where all attended one (a copied
semester in which one attended two is no such operation: it brings what it finds). The
properties name the cases in which the code does not keep this (under "Seen
while modelling").

### WishRound

The wishes for one module in one programme and semester. `wish` is the priority
in `wish` for each cohort and person, `advance` and `converted` are the priority
and `converted_at` of `advance_wish`, `released` is the row in
`demand_completion`, `declared` the rows in `course_instance`. `gone` keeps ids
from being used again. `tx` is what a request has read or decided, `lock` the
FOR UPDATE lock of a cohort.

* The phase: `PhaseRead`, `PhaseWrite` are `AdvancePhase` with the conditional
  UPDATE of `AdvanceSemesterPhase`.
* Noting down: `AdvanceRead`, `AdvanceWrite` are the checks and the upsert of
  `SetAdvanceWish`, `WithdrawAdvance` is `WithdrawAdvanceWish`.
* Conversion: `Announce` or `Declare` writes the row that is to be committed,
  `Convert` is the one statement `ConvertAdvanceWishes` with what it can see, and
  `Release` the commit. `WithdrawRelease` takes the announcement back.
* Wishes: `WishRead`, `WishWrite` and `UnwishRead`, `Unwish` are the write context
  and the write of `Set` and `Withdraw` in `domain/wish.go`.
* Merging: `WithdrawBegin`, `HandOver`, `Withdraw` are `DeleteCourseInstance` with
  `handOverWishes`: the lock, the decision which of two wishes of a person goes,
  and the rest of the transaction.

The phases are three in the run (the code has five): two that are open and the
last, which is what the guards tell apart. The phase and the release that
`SetAdvanceWish` reads in two statements are read in one, since nothing uses one
against the other. `late` is bookkeeping of the model for `StrongestIsKept`.
Any cohort may be the target of a merge; the code's order among them (those that
hold their teaching first) is a choice the properties do not depend on.

`wish_round` (one person, two cohorts, three requests) shows that no cohort goes
with a wish on it, that a wish appears only because its owner entered it, because
an advance wish was converted for the first time, or with a merge, and that
conversions and merges keep a person's strongest wish. One person suffices
because every row belongs to one; three requests let a conversion, a merge and
the owner meet. Two cohorts are the least for a merge. `StrongestIsKept` excepts
a person who changed a wish after a merge decided about it: that merge can lose
the interest (a hazard).

`wish_pending` (two requests) is a finding, below.

### ZpaSync

`cache` is `zpa_object` (payload and `gone_at`), `rows` the status of
`zpa_sync_run` and how long a row has been RUNNING, `changes` the lines of
`zpa_change` a run wrote about the kind it is at, `holder` the advisory lock of
`store/zpalock.go`, `catalogue` the rows of `module` and `module_offering`.
`job` is where a process is in `begin`, `complete` and `syncKind`
(`domain/zpasync.go`); `got` is what it was answered, `known` what it had read
of the cache; `draft` is the open transaction of a projection by hand.

* Starting: `ProcessStarts` (with `FailAbandonedRuns`) and `ProcessStartsUncleared`
  (its error is only a warning), `AcquireSyncLock`, `StartRun`.
* An endpoint: `Fetch` with `StateByKind`, then `Upsert` for each object in any
  order, `RecordChange` where `classify` finds one, `RetireMissing` and
  `RecordDisappeared`. `KindFails` is every error on the way: what was written stays.
  `RecordRunKind` ends it. Each is one statement that commits on its own.
* The end: `FinishRun` with `StatusOf`, `RunProjects` after a run without a failure.
* `ProjectCatalogue`, `DeleteStaleModuleOfferings` and `HandProjectionFails` are the
  projection by hand, in two steps because its transaction is READ COMMITTED and
  it does not take the lock.
* What ends a run early: `RunReturns` (a store call outside of an endpoint fails,
  and the row is left as it is), `RunTimesOut` (the thirty minutes of a detached
  run), `Dies` (the process, and with its sessions the lock and the transaction).

`zpa_sync` has one module, an association that names it, and one that names a
module the catalogue does not have; the answers of an endpoint are every
non-empty subset, since the client refuses an empty one. Two rows, so that an
abandoned one and a live one exist at once; the model reuses a row that ended,
and loses nothing by it because nothing reads one. Half an hour is the unit in which the
limit of a detached run (one) and the age of an abandoned one (two) differ; ages
stop counting at two, where nothing tells them apart any more. Two of the five
endpoints are the least for a PARTIAL run, and those two are what an offering is
made of. The run shows that a kind reported as succeeded left the cache as the
endpoint answered and logged exactly the difference, that the offerings a run
commits are those of its own complete answers, that a live run of the button is
never declared dead, and that no row stays RUNNING. Deadlock is checked.

What the run does not have is an object with two payloads, hence no line CHANGED: `EveryRunEnds` needs
two rows, and the liveness check of both together is beyond the time of a run. `ReportIsTrue` and
`CatalogueIsTheFetch` are proved for any payloads (`ReportsAreTrue`, `CatalogueIsWhatWasFetched`);
without `EveryRunEnds`, TLC has checked them and both invariants with two modules, described in one
way, and an association that names either of them.

Fairness, for `EveryRunEnds` alone: weak for what a process does once it runs and
for time; strong for a start of the nightly process that reaches the database,
which cron starts again every night whatever happened before. Neither the button,
nor the restart of a server, nor a death is fair: a process may die at every run.

## Proofs

Checked by TLAPS for every value of the constants.

* `PartStaffingProofs`. The inductive invariant `IInv` adds to the type invariant
  that a transaction holds the locks of its place in the code and nobody else
  holds any (`OwnPartLocked`, `NothingElseLocked`), that what it checked still
  holds because of them (`ChecksStillHold`: a rejoined piece is still a free piece,
  a part handed away still free), and the three facts proper, which need each
  other: a piece's root cannot be removed because of its foreign key, and a
  removal cannot meet an assignment. From it: `TypeCorrect`, `StaffedHereOnly`,
  `AssignmentsKeepTheirPart`, `PiecesOneLevelDeep`, `NoWaitingForWaiters` and
  `Implementation` (`Spec => Teaching!Spec`, step by step). `HoursStay`: the hours a
  division takes from the part are those of its pieces and a rejoining gives them
  back, as units moved from one place to another (`CountingProofs`).
* `CountingProofs`, lemmas for the others. A total over a finite set is the number of pairs of a place and a
  number up to its figure. `MovingKeepsTotal`: if one place gives any amount to another
  and the rest stay, there is a bijection of the pairs, so the total stays. This takes the
  place of an induction over the set, which the provers cannot do. `RankFacts` and `NthFacts`: the
  ranks of a finite set of numbers are the numbers below its cardinality, in its order (as many
  different ranks as elements, in as many places). `ChosenFacts`, `RanksCount`: how many of the
  chosen elements of a sequence have a property is how many of their places have it.
* `CoverageProofs`. A transaction takes its locks in the order of ids, so a ring of
  waiters would have to descend somewhere (`LocksInOrder`, `LockOrderPreventsCircles`).
  A row that is locked was declared and is there (`LockedIsDeclared`), what a
  transaction named and no longer waits for, it holds (`LocksWhatItNames`), and a
  successor that was chosen under these locks still fits the place of its host when it
  is promoted (`SuccessorFits`). `OneLevelAcrossProgrammes` and
  `OneCoveredPerProgramme` are inductive with these and not without: a promotion
  re-points the other guests to what it chose some steps before. `TypeCorrectness`,
  `CoverageHasOneLevel`, `IndexIsKept`; `OnlyAddedPartsStayWithGuests`, and
  `NobodyLosesTeaching`: a promotion moves the assignments one for one
  (`MovingKeepsTotal`).
* `DemandPlanProofs`, with arbitrarily many letters, kinds, cohorts, groups and pieces, for every
  split and every screen.
  * `CohortsStayWellFormed`: `WellFormed` is inductive as it stands. A save withdraws a number of
    cohorts that depends on the state; that it keeps whatever one withdrawal keeps is
    `LeavingByOne`, an induction over the number of the letters that were tried, and counting up to
    a number (`CountingOn`) is all the induction the prover needs. A rename is an injection
    of letters (`BeforeFacts`, `Reindexed`).
  * `LectureStaysHeldOnce`: `AttendedOnce` counts; `Once` says the same with quantifiers
    (`AttendedOnceIsOnce`), and only so can each operation be looked at: it replaces a cohort by
    one with no more lectures (`NoMore`), takes one away, or adds one with what no sibling holds for it.
  * `SaveIsDoneOrRefused`: the groups that go are no more than there are too many, and are the last ones
    (`GoingFacts`); what is left has as many own groups as there were less those
    (`TrimmedFacts`); so that a cohort has after a save what was asked for (`AdjustedOwn`) or a
    group that was kept, which is reported. `AfterLeavingStays` says what the withdrawals before may have
    changed: nothing, or one group where there was none, handed back for a promoted guest.
  * `PressingAgainChangesNothing`: where no cohort is a host, a withdrawal is refused because of the cohort
    that is to go and of nothing else (`Stuck`, `LeavingStuck`): there is always another one
    to take its wishes (`SomebodyStays`). So what is left over after a save is stuck, is left over again, and no letter
    waits for it (`LeavingTakesAll`); what was not trimmed because of a divided or held group is not
    trimmed the second time (`TrimmedAgain`). For the split (`AppliedTwice`): what stayed
    stays (`StayingStays`), and nothing is lacking that was not (`LacksNothingAgain`).
* `AdminGuardProofs`. For `QuietSpec`: whoever is past the locks holds one that
  was a grant all along (`ThePastHoldALock`), whoever waits waits for every grant
  (`WaitersSeeEveryGrant`), so at most one removal of an administrator is past the
  locks and its count still holds when it writes (`AllowedIsHarmless`).
  `AdministeredAlways`, `GuardExcludes`; `TypeCorrect` for `Spec`.
* `PlanningMarkProofs`. A transaction that cleared a row holds its lock
  (`ClearedIsHeld`), cleared at most one (`ClearsOneRow`), and an attempt that ended
  in a conflict was overtaken (`OvertakenPerAttempt`). Whoever marks has the row that is marked to itself, so
  nobody else has cleared it (`MarkerIsAlone`). `TypeCorrect`,
  `DecisionsTakeTurns`, `MarkIsNeverLost`, `TellingNeedsAttemptsOthers`,
  `RingsNameOneSemester`.
* `WishRoundProofs`. What a conversion is about to write stays as it was when that
  was decided: whom it converts is pending, and converted by nobody else
  (`DueOnce`), the cohorts it writes to stay, with the wishes it changes
  (`OntoStays`), because their rows are locked. The one case the locks do not
  cover, a withdrawal of a cohort whose wishes are being changed, not added, waits
  when it moves them. `TypeCorrect`, `WishesAreForCohorts`, `ComeOnce`; `OneStep`
  needs no invariant. Of merges: two decide about different wishes (`DroppedOnce`: the
  row of a wish that one is to delete is locked, and the other waits), and for each
  wish that one is to delete its owner has another that is at least as strong and that
  nobody is to delete (`AnotherStands`), unless the owner changed a wish since. The
  second half is what a chain of merges needs, where the wish that was kept could
  be the one the next merge deletes. `MergesAgree` proves it, `StrongestStays` follows.
* `ZpaSyncProofs`. The inductive invariant `IInv` says of every process, in `InOrder`,
  what is true at the step it has reached: it holds the lock exactly while it is
  past `AcquireSyncLock`, its row is its own and its answers are answers, and
  within an endpoint the objects that are not left to do are cached as they were
  answered and logged as they differ from what was known; once a kind is reported
  succeeded, the cache keeps that answer until the lock is given back. Beside it: every line of the log belongs to
  a live run (`LogHasOwner`), an object that is gone has a payload, and a detached
  run is within its limit (`WithinItsLimit`), which is what keeps it from being
  declared dead. The lock is why another process's steps leave all of this alone.
  `ImportInvariant`, `ImportTypes`, `LiveRunStaysRunning`, `ReportsAreTrue`,
  `CatalogueIsWhatWasFetched`.

They assume what the modules assume of their constants: that ids, clients and
`Nothing` are distinct, that bounds are naturals, and finiteness where a
cardinality is taken (the parts a semester begins with; that only finitely many
cohorts are declared is part of an invariant). `DemandPlan` assumes that there are finitely many kinds, that a
screen names finitely many letters, and that a semester that is copied is `WellFormed` itself: it was
planned with the same operations, and the theorem is that they keep it so. Bounds (`MaxId`, `MaxHours`, `MaxGroups`, `Attempts`) are arbitrary.

Each of these invariants was checked by TLC before it was proved, the one of merges
also with three cohorts. Every invariant and every action property that a passing run checks is
a theorem. The exceptions in `PlanIsDoneOrRefused`, `RepeatingChangesNothing` and
`LectureIsHeldOnce` are as small as the properties name them: without each, TLC finds a
counterexample; but for one, a copy of a semester in which a cohort attended two lectures, of which
the run has none and which only the proof demanded.

Left to TLC: liveness under fairness (`TransactionsEnd`, `EveryRunEnds`) and `ENABLED`,
which these provers do not have, and the counterexamples of the runs that expect a violation.

## Where the code and its comments disagree

With a run:

* `part_replacement`: a replacement overwrites a decision its author never saw,
  because a replacement keeps the assignment's id
  (`db/queries/assignment.sql:190`).
* `admin_grant_race`: a grant that commits while a removal waits for its locks is
  counted without being locked, and the last administrator can be removed
  (`db/queries/person.sql:237`).
* `coverage_added_part`: a part added during an acceptance stays on the accepted
  guest (`internal/store/demand.go:947`).
* `coverage_release_race`: a release that read before the acceptance gives nothing
  back (`internal/store/demand.go:1882`).
* `wish_pending`: a release and a declaration at the same time convert nothing,
  and an advance wish stays pending in a released programme with a cohort
  (`internal/store/planningmarks.go:87`; the comment above it excludes that).

Seen while modelling, without a run (they are hazards with a note): an acceptance
after the guest re-pointed its request was checked for another programme; a
pending successor keeps its own parts beside the ones it inherits; two withdrawals
of one host can deadlock; two calls that mark one semester can deadlock when a
third commits between their statements; and of the import:

* A projection by hand (`domain/zpasync.go:611`) removes offerings from a cache that
  a run is writing or that an endpoint failed to fill, although "an operation that
  can remove things is never driven by an incomplete read"
  (`domain/zpasync.go:416-418`). `CatalogueIsTheFetch` is therefore said of the
  projection of a run.
* Its report is gathered "against the same snapshot" (`store/catalogue.go:175`); the
  transaction is READ COMMITTED and every statement has a snapshot of its own.
* An object that was written and whose change could not be recorded fails the
  kind (`domain/zpasync.go:528`); the next run finds it as it is and never logs it.
* An error of `RecordRunKind` or `FinishRun` leaves the row RUNNING until some process
  starts an hour later, without a crash (`domain/zpasync.go:371,385`).
* A run of the nightly process has no limit, and a start can take one that lives
  for more than an hour for abandoned (`bootstrap/zpasync.go:78`); its `FinishRun` writes over that.

And of planning, copying and applying a split:

* A withdrawal by a save that promotes another programme's guest first hands the
  siblings their share of the kinds it held for them (`unshareBeforeHandover`); the groups of a
  sibling are then adjusted from the number read at the start
  (`store/demand.go:2481`), so that it gets one group more than the row asks for.
  "And finally bring every cohort to the number of groups the row asks for" is not
  what happens; saving once more removes the group.
* A declaration by hand, a release of a coverage and a copy into a partly declared semester
  give a cohort a lecture although a sibling holds one for all, against
  `store/demand.go:2508-2510`. A withdrawal without a promotion, or an accepted
  coverage, of the cohort that holds it leaves the siblings without.
* `CopyDemand` fails as a whole, with a raw error, where the host in the target
  semester is itself covered or the programme already has a guest
  (`store/demand.go:2088`); a former guest whose host is not declared arrives
  with no parts.
* `adjustGroups` removes an undivided group that another faculty teaches without
  a word (`store/demand.go:2886`), which `alignInstance` and sharing refuse.
* `ApplyModuleSplit` does not remember what it replaced: a group that was refused and
  freed later goes at the next application without a new one
  (`store/splitapplication.go:333`).
* `createForPlan` inserts outside of its savepoint (`store/demand.go:2706`): a letter
  that another save took meanwhile aborts the whole screen instead of the row.
* A request for coverage by a cohort that has guests itself fails with a raw
  foreign key error (`store/demand.go:1714`).
* `domain/catalogueservice.go:290` says that an emptied split "falls back to the
  proposal"; `store/demand.go` has "No fall back to the proposal any more".

## Not modelled

* Publications, windows and the freeze; desired hours; the confirmation of
  assignments; role, scope and group sets; tokens. Each is a check in one statement and a
  write in another, or a replacement of a set by a delete and inserts; the races they have are
  listed as hazards. They come next (Plan).
* Competences, the access log: single statements on rows nobody else writes.
* Who may see and write what: rules without state, in Go and once more in SQL.
* Migrations, start and shutdown: left to the migration library's lock and to the HTTP server.
* The GraphQL layer: generated, or a translation of arguments and errors; no state.
* Within the modelled components: hours, notes, topics and formats of a cohort, and two
  saves of the planning screen at once (DemandPlan); the bounds on tracks (WishRound); the
  interval between two imports by hand (ZpaSync).

## Plan

In this order, each with a run of its own where it asks a question the others
do not:

1. Two saves of the planning screen at once.
2. `SetReplacement`: one abstract replacement of a set, for roles, programmes,
   members and leads, with the filing of modules.
3. `Publication`: wishes, assignments and figures published once, the open windows
   they wait for, the freeze of the desired hours; the confirmation of
   assignments beside it.
4. Small ones: a token revoked during a request, competences, the bounds on
   tracks, the visibility rules as operators.
