----------------------------- MODULE MCPlanning -----------------------------
(* PlanningMark and DemandPlan for TLC. Neither reads what the other writes, *)
(* so one run takes them in turn instead of together: each moves while the   *)
(* other is as it began. Semesters and clients are interchangeable.          *)
EXTENDS PlanningMark, DemandPlan, TLC

CONSTANTS LECTURE, LAB, EXERCISE

Symmetry == Permutations(Semester) \cup Permutations(Client)

MCSplits == {<<LECTURE, LECTURE, LAB>>, <<EXERCISE, EXERCISE>>, <<>>}

Of(held, lecture, lab) ==
    NewCohort(held, (LECTURE :> lecture) @@ (LAB :> lab) @@ (EXERCISE :> <<>>))

\* Two cohorts with the lecture in common, and one that was a guest.
MCLastYear ==
    LET lecture == [pieces |-> 0, shared |-> TRUE, use |-> "held"]
    IN  {(1 :> Of("self", <<lecture>>, <<Part(0)>>)) @@ (2 :> Of("self", <<>>, <<Part(0)>>)),
         (1 :> Of("covered", <<>>, <<>>))}

MCScreens ==
    {<<>>, 2 :> 2, (1 :> 2) @@ (2 :> 0), 3 :> 1, (1 :> 0) @@ (2 :> 1) @@ (3 :> 2)}

MCInit ==
    /\ Init /\ DemandInit
    /\ marked = {} \/ split = <<>>

MCNext ==
    \/ cohorts = <<>> /\ split = <<>> /\ Next /\ UNCHANGED demandVars
    \/ marked = {} /\ (\A k \in Client : call[k] = Idle) /\ DemandNext /\ UNCHANGED vars

MCSpec == MCInit /\ [][MCNext]_<<vars, demandVars>>
=============================================================================
