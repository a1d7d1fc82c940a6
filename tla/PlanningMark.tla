---------------------------- MODULE PlanningMark ----------------------------
(***************************************************************************)
(* The mark on the semester that is being planned, and the calls that move *)
(* it (SetPlanningSemester): clear the other mark, set this one, once more *)
(* if the unique index refuses.                                            *)
(*                                                                         *)
(* The clearing UPDATE works on the marks that are committed when it       *)
(* starts; where it waited it looks again at the row it waited for, not at *)
(* the others (READ COMMITTED). The clearing stays in the transaction      *)
(* until the commit, which is one step with the index letting the mark in. *)
(***************************************************************************)
EXTENDS Integers, FiniteSets

CONSTANTS
    Semester, \* the semesters
    Client,   \* calls at the same time
    Attempts, \* how often a call tries (2 in the code)
    Nothing   \* nobody, no semester

ASSUME ConstantsAssumption ==
    /\ Attempts \in Nat \ {0}
    /\ Nothing \notin Semester \cup Client

VARIABLES
    marked,   \* the semesters whose is_planning_semester is committed
    lock,     \* whose UPDATE has a semester's row
    call,     \* what a client's call is doing
    overtaken \* how many calls for another semester committed since this one
              \* began, as far as Attempts

vars == <<marked, lock, call, overtaken>>

Idle == [at |-> "idle", target |-> Nothing, attempt |-> 0, want |-> {}, cleared |-> {}]

TypeOK ==
    /\ marked \subseteq Semester
    /\ lock \in [Semester -> Client \cup {Nothing}]
    /\ call \in [Client -> {Idle} \cup
            [at : {"start", "clearing", "marking"}, target : Semester, attempt : 1..Attempts,
             want : SUBSET Semester, cleared : SUBSET Semester]]
    /\ overtaken \in [Client -> 0..Attempts]

\* One is marked, or none: a fresh installation has no mark (PlanningSemester).
Init ==
    /\ marked \in {{}} \cup {{s} : s \in Semester}
    /\ lock = [s \in Semester |-> Nothing]
    /\ call = [k \in Client |-> Idle]
    /\ overtaken = [k \in Client |-> 0]

-----------------------------------------------------------------------------

Unlock(k) == [s \in Semester |-> IF lock[s] = k THEN Nothing ELSE lock[s]]

Begin(k, t) ==
    /\ call[k] = Idle
    /\ call' = [call EXCEPT ![k] = [Idle EXCEPT !.at = "start", !.target = t, !.attempt = 1]]
    /\ overtaken' = [overtaken EXCEPT ![k] = 0]
    /\ UNCHANGED <<marked, lock>>

\* Mutant: nothing is cleared.
ClearNothing(k) ==
    /\ call[k].at = "start"
    /\ call' = [call EXCEPT ![k].at = "clearing"]
    /\ UNCHANGED <<marked, lock, overtaken>>

\* Mutant: the UPDATE names every other semester, not only marked ones.
ClearEverything(k) ==
    /\ call[k].at = "start"
    /\ call' = [call EXCEPT ![k].at = "clearing", ![k].want = Semester \ {call[k].target}]
    /\ UNCHANGED <<marked, lock, overtaken>>

\* ClearPlanningSemester starts, with the marks of this moment.
ClearStart(k) ==
    /\ call[k].at = "start"
    /\ call' = [call EXCEPT ![k].at = "clearing", ![k].want = marked \ {call[k].target}]
    /\ UNCHANGED <<marked, lock, overtaken>>

\* Mutant: each statement commits by itself.
ClearRowAlone(k, s) ==
    /\ s \in call[k].want
    /\ lock[s] = Nothing
    /\ marked' = marked \ {s}
    /\ call' = [call EXCEPT ![k].want = @ \ {s}]
    /\ UNCHANGED <<lock, overtaken>>

\* Mutant: the marked rows were found by a SELECT before, and the UPDATE names
\* them by their id: what became of a row during the wait is not looked at.
ClearRowByItsId(k, s) ==
    /\ s \in call[k].want
    /\ lock[s] = Nothing
    /\ lock' = [lock EXCEPT ![s] = k]
    /\ call' = [call EXCEPT ![k].want = @ \ {s}, ![k].cleared = @ \cup {s}]
    /\ UNCHANGED <<marked, overtaken>>

\* It takes a row when it is free, and clears it if it still is marked.
ClearRow(k, s) ==
    /\ s \in call[k].want
    /\ lock[s] = Nothing
    /\ IF s \in marked
       THEN /\ lock' = [lock EXCEPT ![s] = k]
            /\ call' = [call EXCEPT ![k].want = @ \ {s}, ![k].cleared = @ \cup {s}]
       ELSE /\ call' = [call EXCEPT ![k].want = @ \ {s}]
            /\ UNCHANGED lock
    /\ UNCHANGED <<marked, overtaken>>

\* Every call under way for another semester has been overtaken once more.
Overtake(k) ==
    overtaken' = [j \in Client |->
        IF call[j] # Idle /\ call[j].target # call[k].target /\ overtaken[j] < Attempts
        THEN overtaken[j] + 1 ELSE overtaken[j]]

\* MarkPlanningSemester has the clearing behind it and takes its own row.
MarkRow(k) ==
    /\ call[k].at = "clearing" /\ call[k].want = {}
    /\ lock[call[k].target] = Nothing
    /\ lock' = [lock EXCEPT ![call[k].target] = k]
    /\ call' = [call EXCEPT ![k].at = "marking"]
    /\ UNCHANGED <<marked, overtaken>>

\* What the unique index holds against it: a mark its clearing never saw. It
\* waits for a transaction that is changing that row before it decides.
OtherMarks(k) == marked \ (call[k].cleared \cup {call[k].target})
Refused(k) ==
    /\ call[k].at = "marking"
    /\ \E s \in OtherMarks(k) : lock[s] = Nothing

\* The index allows it, and the commit.
Mark(k) ==
    /\ call[k].at = "marking" /\ OtherMarks(k) = {}
    /\ marked' = (marked \ call[k].cleared) \cup {call[k].target}
    /\ lock' = Unlock(k)
    /\ call' = [call EXCEPT ![k] = Idle]
    /\ Overtake(k)

\* Mutant: one attempt too many.
RetryOnceMore(k) ==
    /\ Refused(k)
    /\ call[k].attempt <= Attempts
    /\ lock' = Unlock(k)
    /\ call' = [call EXCEPT ![k] = [Idle EXCEPT !.at = "start", !.target = call[k].target,
                                                !.attempt = call[k].attempt + 1]]
    /\ UNCHANGED <<marked, overtaken>>

\* The index refuses, the transaction is rolled back and the call tries again.
Retry(k) ==
    /\ Refused(k)
    /\ call[k].attempt < Attempts
    /\ lock' = Unlock(k)
    /\ call' = [call EXCEPT ![k] = [Idle EXCEPT !.at = "start", !.target = call[k].target,
                                                !.attempt = call[k].attempt + 1]]
    /\ UNCHANGED <<marked, overtaken>>

\* It refuses the last attempt, and the caller is told.
Tell(k) ==
    /\ Refused(k)
    /\ call[k].attempt = Attempts
    /\ lock' = Unlock(k)
    /\ call' = [call EXCEPT ![k] = Idle]
    /\ UNCHANGED <<marked, overtaken>>

\* The request is cancelled, the connection lost, or PostgreSQL ends a ring.
Crash(k) ==
    /\ call[k] # Idle
    /\ lock' = Unlock(k)
    /\ call' = [call EXCEPT ![k] = Idle]
    /\ UNCHANGED <<marked, overtaken>>

Continue(k) ==
    \/ ClearStart(k)
    \/ \E s \in Semester : ClearRow(k, s)
    \/ MarkRow(k)
    \/ Mark(k)
    \/ Retry(k)
    \/ Tell(k)

Next ==
    \E k \in Client :
        \/ \E t \in Semester : Begin(k, t)
        \/ Continue(k)
        \/ Crash(k)

Spec == Init /\ [][Next]_vars

-----------------------------------------------------------------------------
(* Properties.                                                             *)

\* Once a semester is being planned, one is for good: moving the mark never
\* leaves a moment without it.
MarkStays == [][marked # {} => marked' # {}]_vars

\* Calls take turns (SetPlanningSemester): from the moment one has cleared the
\* mark until it ends, no other commits. Neither one that decided the same, nor
\* one whose clearing missed the mark, nor one that cleared nothing because the
\* mark is on its target gets past it: the row lock stops some of them, the index
\* the others.
TakeTurns == [][\A j, k \in Client : Mark(j) /\ call[k].cleared # {} => j = k]_vars

\* A call is told only if at least two others (Attempts in general) committed a
\* decision for another semester while it ran: two people deciding at once are
\* never told, nor is anybody because of people who decide as they do. This is
\* what the one retry is for.
ToldOnlyWhenOvertaken == [][\A k \in Client : Tell(k) => overtaken[k] = Attempts]_vars

\* A ring of waiting calls consists of calls that name the same semester: calls
\* that decide differently never block each other for good. (Two that name the
\* same one can: one has its row and waits at the index for the mark the other
\* has cleared, which waits for the row. It takes a third whose commit the
\* first one's clearing missed.)
WaitsFor(j, k) ==
    /\ j # k
    /\ \/ \E s \in call[j].want : lock[s] = k
       \/ call[j].at = "clearing" /\ call[j].want = {} /\ lock[call[j].target] = k
       \/ call[j].at = "marking" /\ \E s \in OtherMarks(j) : lock[s] = k
Ring(R) == \A k \in R : (\E j \in R : WaitsFor(j, k)) /\ (\E l \in R : WaitsFor(k, l))
RingsShareATarget ==
    \A R \in SUBSET Client : Ring(R) => \A k, l \in R : call[k].target = call[l].target
=============================================================================
