------------------------- MODULE PartStaffingProofs -------------------------
(***************************************************************************)
(* Theorems about PartStaffing, for every set of parts, people and         *)
(* clients. All rest on one inductive invariant, IInv: an open transaction *)
(* holds the row of its part until it commits, so what it read of the part *)
(* is still so when it writes.                                             *)
(***************************************************************************)
EXTENDS PartStaffing, CountingProofs, TLAPS

\* A transaction works on a stored part and holds its row.
OwnPartLocked ==
    \A k \in Client : tx[k] # Idle => tx[k].part \in stored /\ lock[tx[k].part] = k

\* It holds nothing else, but the root of a piece it is about to join back.
NothingElseLocked ==
    \A k \in Client, p \in Part : lock[p] = k =>
        \/ tx[k] # Idle /\ p = tx[k].part
        \/ In(k, "rejoin", "rootLocked") /\ p = root[tx[k].part]

\* What was checked under the lock still holds.
ChecksStillHold ==
    \A k \in Client :
        /\ In(k, "handAway", "checked") => ~Assigned(tx[k].part)
        /\ In(k, "rejoin", "checked") \/ In(k, "rejoin", "rootLocked")
            => root[tx[k].part] # Nothing

IInv ==
    /\ TypeOK
    /\ OwnPartLocked
    /\ NothingElseLocked
    /\ ChecksStillHold
    /\ elsewhere \subseteq stored
    /\ NeverStaffedElsewhere
    /\ AssignedPartsAreStored
    /\ PiecesNameAnUndividedPart

-----------------------------------------------------------------------------
(* Types.                                                                  *)

\* What a part's row, an assignment or a transaction may hold stays of its type
\* under every statement.
LEMMA TypeInvariant == TypeOK /\ [Next]_vars => TypeOK'
<1> SUFFICES ASSUME TypeOK, [Next]_vars PROVE TypeOK'
  OBVIOUS
<1> USE ConstantsAssumption DEF TypeOK, Hours, Assignment, rows, staffing
<1>1. ASSUME NEW p \in Part, NEW w \in Who, Fill(p, w) PROVE TypeOK'
  BY <1>1 DEF Fill
<1>2. ASSUME NEW s \in Screen, NEW p \in Part, Look(s, p) PROVE TypeOK'
  BY <1>2 DEF Look, Assigned
<1>3. ASSUME NEW s \in Screen, NEW w \in Who, Replace(s, w) PROVE TypeOK'
  BY <1>3 DEF Replace, Assigned
<1>4. ASSUME NEW s \in Screen, Clear(s) PROVE TypeOK'
  BY <1>4 DEF Clear
<1>5. ASSUME NEW p \in Part, NEW h \in Hours \cup {Nothing}, AddPart(p, h) PROVE TypeOK'
  BY <1>5 DEF AddPart
<1>6. ASSUME NEW p \in Part, NEW h \in Hours \cup {Nothing}, CorrectHours(p, h) PROVE TypeOK'
  BY <1>6 DEF CorrectHours
<1>7. ASSUME NEW p \in Part, RemovePart(p) PROVE TypeOK'
  BY <1>7 DEF RemovePart
<1>8. ASSUME NEW k \in Client, NEW op \in Operation, NEW p \in Part, LockPart(k, op, p)
      PROVE TypeOK'
  BY <1>8 DEF LockPart, Transaction, Step
<1>9. ASSUME NEW k \in Client, Continue(k) \/ Crash(k) PROVE TypeOK'
  <2> DEFINE P == tx[k].part
  <2>1. ASSUME tx[k] # Idle
        PROVE  /\ P \in Part
               /\ Commit(k) => /\ lock' \in [Part -> Client \cup {Nothing}]
                               /\ tx' \in [Client -> Transaction]
               /\ \A at \in Step : Advance(k, at) => tx' \in [Client -> Transaction]
    BY <2>1 DEF Transaction, Commit, Unlock, Advance
  <2>2. ASSUME NEW op, NEW at \in Step, In(k, op, at) PROVE tx[k] # Idle
    BY <2>2 DEF In, Step, Idle
  <2>3. ASSUME NEW h \in Hours, NEW q \in Part, Divide(k, h, q) PROVE TypeOK'
    <3>1. tx[k] # Idle
      BY <2>2, <2>3 DEF Divide, Step
    <3>2. hours' \in [Part -> Hours \cup {Nothing}]
      <4>1. hours[P] - h \in Hours
        BY <2>1, <2>3, <3>1 DEF Divide, Divisible
      <4> QED
        BY <2>1, <2>3, <3>1, <4>1 DEF Divide
    <3>3. UndividedPart(P) \in Part \cup {Nothing}
      BY <2>1, <3>1 DEF UndividedPart
    <3> QED
      BY <2>1, <2>3, <3>1, <3>2, <3>3 DEF Divide
  <2>4. ASSUME RejoinCheck(k) PROVE TypeOK'
    BY <2>1, <2>2, <2>4 DEF RejoinCheck, Step
  <2>5. ASSUME RejoinLockRoot(k) PROVE TypeOK'
    BY <2>1, <2>2, <2>5 DEF RejoinLockRoot, Step
  <2>6. ASSUME Rejoin(k) PROVE TypeOK'
    <3>1. tx[k] # Idle
      BY <2>2, <2>6 DEF Rejoin, Step
    <3>2. hours' \in [Part -> Hours \cup {Nothing}]
      BY <2>1, <2>6, <3>1 DEF Rejoin, Stated
    <3> QED
      BY <2>1, <2>6, <3>1, <3>2 DEF Rejoin
  <2>7. ASSUME HandAwayCheck(k) PROVE TypeOK'
    BY <2>1, <2>2, <2>7 DEF HandAwayCheck, Step
  <2>8. ASSUME HandAway(k) PROVE TypeOK'
    BY <2>1, <2>2, <2>8 DEF HandAway, Step
  <2>9. ASSUME TakeBack(k) PROVE TypeOK'
    BY <2>1, <2>2, <2>9 DEF TakeBack, Step
  <2>10. ASSUME Refuse(k) PROVE TypeOK'
    <3>1. tx[k] # Idle
      BY <2>2, <2>10 DEF Refuse, Refused, Step
    <3> QED
      BY <2>1, <2>10, <3>1 DEF Refuse
  <2>11. ASSUME Crash(k) PROVE TypeOK'
    BY <2>1, <2>11 DEF Crash
  <2> QED
    BY <1>9, <2>3, <2>4, <2>5, <2>6, <2>7, <2>8, <2>9, <2>10, <2>11 DEF Continue
<1>10. ASSUME UNCHANGED vars PROVE TypeOK'
  BY <1>10 DEF vars
<1> QED
  BY <1>1, <1>2, <1>3, <1>4, <1>5, <1>6, <1>7, <1>8, <1>9, <1>10
     DEF Next, Statement, Begin

-----------------------------------------------------------------------------
(* The inductive invariant.                                                *)

\* The parts declared at first are free, of this faculty, undivided and locked
\* by nobody.
LEMMA InvariantInit == Init => IInv
BY ConstantsAssumption
   DEF Init, IInv, TypeOK, OwnPartLocked, NothingElseLocked, ChecksStillHold,
       NeverStaffedElsewhere, AssignedPartsAreStored, PiecesNameAnUndividedPart,
       Assigned, In, Idle, Transaction, Hours

\* Every statement and every step of a transaction keeps the invariant.
LEMMA InvariantStep == IInv /\ [Next]_vars => IInv'
<1> SUFFICES ASSUME IInv, [Next]_vars PROVE IInv'
  OBVIOUS
<1>0. TypeOK'
  BY TypeInvariant DEF IInv
<1> USE ConstantsAssumption, <1>0 DEF IInv, rows, staffing, Assigned, Unlocked,
    NeverStaffedElsewhere, AssignedPartsAreStored, PiecesNameAnUndividedPart
<1>1. ASSUME NEW p \in Part, NEW w \in Who, Fill(p, w) PROVE IInv'
  <2>1. OwnPartLocked' /\ NothingElseLocked' /\ ChecksStillHold'
    <3>1. OwnPartLocked' /\ NothingElseLocked'
      BY <1>1 DEF Fill, OwnPartLocked, NothingElseLocked, In
    <3>2. ASSUME NEW k \in Client, In(k, "handAway", "checked") PROVE tx[k].part # p
      BY <1>1, <3>2 DEF Fill, OwnPartLocked, In, Idle
    <3> QED
      BY <1>1, <3>1, <3>2 DEF Fill, ChecksStillHold, TypeOK, In
  <2>2. (elsewhere \subseteq stored)' /\ PiecesNameAnUndividedPart'
    BY <1>1 DEF Fill, TypeOK
  <2>3. NeverStaffedElsewhere' /\ AssignedPartsAreStored'
    BY <1>1 DEF Fill, TypeOK
  <2> QED
    BY <2>1, <2>2, <2>3
<1>2. ASSUME NEW s \in Screen, NEW p \in Part, Look(s, p) PROVE IInv'
  BY <1>2 DEF Look, OwnPartLocked, NothingElseLocked, ChecksStillHold, In, TypeOK
<1>3. ASSUME NEW s \in Screen, NEW w \in Who, Replace(s, w) PROVE IInv'
  BY <1>3 DEF Replace, OwnPartLocked, NothingElseLocked, ChecksStillHold, In, TypeOK
<1>4. ASSUME NEW s \in Screen, Clear(s) PROVE IInv'
  BY <1>4 DEF Clear, OwnPartLocked, NothingElseLocked, ChecksStillHold, In, TypeOK
<1>5. ASSUME NEW p \in Part, NEW h \in Hours \cup {Nothing}, AddPart(p, h) PROVE IInv'
  <2>1. OwnPartLocked' /\ NothingElseLocked' /\ ChecksStillHold'
    BY <1>5 DEF AddPart, OwnPartLocked, NothingElseLocked, ChecksStillHold, In, TypeOK, Transaction, Idle
  <2>2. (elsewhere \subseteq stored)' /\ PiecesNameAnUndividedPart'
    BY <1>5 DEF AddPart, TypeOK
  <2>3. NeverStaffedElsewhere' /\ AssignedPartsAreStored'
    BY <1>5 DEF AddPart, TypeOK
  <2> QED
    BY <2>1, <2>2, <2>3
<1>6. ASSUME NEW p \in Part, NEW h \in Hours \cup {Nothing}, CorrectHours(p, h) PROVE IInv'
  BY <1>6 DEF CorrectHours, OwnPartLocked, NothingElseLocked, ChecksStillHold, In, TypeOK
<1>7. ASSUME NEW p \in Part, RemovePart(p) PROVE IInv'
  <2>1. OwnPartLocked'
    BY <1>7 DEF OwnPartLocked, TypeOK, Transaction, Idle, RemovePart, In
  <2>2. NothingElseLocked'
    BY <1>7 DEF NothingElseLocked, OwnPartLocked, TypeOK, Transaction, Idle, RemovePart, In
  <2>3. ChecksStillHold'
    BY <1>7 DEF ChecksStillHold, OwnPartLocked, TypeOK, Transaction, Idle, RemovePart, In
  <2>4. (elsewhere \subseteq stored)'
    BY <1>7 DEF OwnPartLocked, RemovePart, In, Idle
  <2>5. NeverStaffedElsewhere' /\ AssignedPartsAreStored'
    BY <1>7 DEF ChecksStillHold, RemovePart
  <2>6. PiecesNameAnUndividedPart'
    BY <1>7 DEF OwnPartLocked, ChecksStillHold, TypeOK, Transaction, Idle, In, RemovePart, Pieces, UndividedPart
  <2> QED
    BY <2>1, <2>2, <2>3, <2>4, <2>5, <2>6
<1>8. ASSUME NEW k \in Client, NEW op \in Operation, NEW p \in Part, LockPart(k, op, p) PROVE IInv'
  <2>1. OwnPartLocked'
    BY <1>8 DEF OwnPartLocked, TypeOK, Transaction, Idle, LockPart, In
  <2>2. NothingElseLocked'
    BY <1>8 DEF NothingElseLocked, OwnPartLocked, TypeOK, Transaction, Idle, LockPart, In
  <2>3. ChecksStillHold'
    BY <1>8 DEF ChecksStillHold, OwnPartLocked, TypeOK, Transaction, Idle, LockPart, In
  <2> QED
    BY <1>8, <2>1, <2>2, <2>3 DEF LockPart
<1>9. ASSUME NEW k \in Client, NEW h \in Hours, NEW q \in Part, Divide(k, h, q) PROVE IInv'
  <2>1. OwnPartLocked'
    BY <1>9 DEF OwnPartLocked, TypeOK, Transaction, Idle, Divide, Commit, Unlock, In
  <2>2. NothingElseLocked'
    BY <1>9 DEF NothingElseLocked, OwnPartLocked, TypeOK, Transaction, Idle, Divide, Commit, Unlock, In
  <2>3. ChecksStillHold'
    BY <1>9 DEF ChecksStillHold, OwnPartLocked, TypeOK, Transaction, Idle, Divide, Commit, Unlock, In
  <2>4. (elsewhere \subseteq stored)'
    BY <1>9 DEF OwnPartLocked, Divide, In, Idle
  <2>5. NeverStaffedElsewhere' /\ AssignedPartsAreStored'
    BY <1>9 DEF ChecksStillHold, Divide
  <2>6. PiecesNameAnUndividedPart'
    BY <1>9 DEF OwnPartLocked, ChecksStillHold, TypeOK, Transaction, Idle, In, Divide, Pieces, UndividedPart
  <2> QED
    BY <2>1, <2>2, <2>3, <2>4, <2>5, <2>6
<1>10. ASSUME NEW k \in Client, RejoinCheck(k) PROVE IInv'
  <2>1. OwnPartLocked'
    BY <1>10 DEF OwnPartLocked, TypeOK, Transaction, Idle, RejoinCheck, Advance, In
  <2>2. NothingElseLocked'
    BY <1>10 DEF NothingElseLocked, OwnPartLocked, TypeOK, Transaction, Idle, RejoinCheck, Advance, In
  <2>3. ChecksStillHold'
    BY <1>10 DEF ChecksStillHold, OwnPartLocked, TypeOK, Transaction, Idle, RejoinCheck, Advance, In
  <2> QED
    BY <1>10, <2>1, <2>2, <2>3 DEF RejoinCheck
<1>11. ASSUME NEW k \in Client, RejoinLockRoot(k) PROVE IInv'
  <2>1. OwnPartLocked'
    BY <1>11 DEF OwnPartLocked, TypeOK, Transaction, Idle, RejoinLockRoot, Advance, In
  <2>2. NothingElseLocked'
    BY <1>11 DEF NothingElseLocked, OwnPartLocked, TypeOK, Transaction, Idle, RejoinLockRoot, Advance, In
  <2>3. ChecksStillHold'
    BY <1>11 DEF ChecksStillHold, OwnPartLocked, TypeOK, Transaction, Idle, RejoinLockRoot, Advance, In
  <2> QED
    BY <1>11, <2>1, <2>2, <2>3 DEF RejoinLockRoot
<1>12. ASSUME NEW k \in Client, Rejoin(k) PROVE IInv'
  <2>1. OwnPartLocked'
    BY <1>12 DEF OwnPartLocked, TypeOK, Transaction, Idle, Rejoin, Commit, Unlock, In
  <2>2. NothingElseLocked'
    BY <1>12 DEF NothingElseLocked, OwnPartLocked, TypeOK, Transaction, Idle, Rejoin, Commit, Unlock, In
  <2>3. ChecksStillHold'
    BY <1>12 DEF ChecksStillHold, OwnPartLocked, TypeOK, Transaction, Idle, Rejoin, Commit, Unlock, In
  <2>4. (elsewhere \subseteq stored)'
    BY <1>12 DEF OwnPartLocked, Rejoin, In, Idle
  <2>5. NeverStaffedElsewhere' /\ AssignedPartsAreStored'
    BY <1>12 DEF ChecksStillHold, Rejoin
  <2>6. PiecesNameAnUndividedPart'
    BY <1>12 DEF OwnPartLocked, ChecksStillHold, TypeOK, Transaction, Idle, In, Rejoin, Pieces, UndividedPart
  <2> QED
    BY <2>1, <2>2, <2>3, <2>4, <2>5, <2>6
<1>13. ASSUME NEW k \in Client, HandAwayCheck(k) PROVE IInv'
  <2>1. OwnPartLocked'
    BY <1>13 DEF OwnPartLocked, TypeOK, Transaction, Idle, HandAwayCheck, Advance, In
  <2>2. NothingElseLocked'
    BY <1>13 DEF NothingElseLocked, OwnPartLocked, TypeOK, Transaction, Idle, HandAwayCheck, Advance, In
  <2>3. ChecksStillHold'
    BY <1>13 DEF ChecksStillHold, OwnPartLocked, TypeOK, Transaction, Idle, HandAwayCheck, Advance, In
  <2> QED
    BY <1>13, <2>1, <2>2, <2>3 DEF HandAwayCheck
<1>14. ASSUME NEW k \in Client, HandAway(k) PROVE IInv'
  <2>1. OwnPartLocked'
    BY <1>14 DEF OwnPartLocked, TypeOK, Transaction, Idle, HandAway, Commit, Unlock, In
  <2>2. NothingElseLocked'
    BY <1>14 DEF NothingElseLocked, OwnPartLocked, TypeOK, Transaction, Idle, HandAway, Commit, Unlock, In
  <2>3. ChecksStillHold'
    BY <1>14 DEF ChecksStillHold, OwnPartLocked, TypeOK, Transaction, Idle, HandAway, Commit, Unlock, In
  <2>4. (elsewhere \subseteq stored)'
    BY <1>14 DEF OwnPartLocked, HandAway, In, Idle
  <2>5. NeverStaffedElsewhere' /\ AssignedPartsAreStored'
    BY <1>14 DEF ChecksStillHold, HandAway
  <2>6. PiecesNameAnUndividedPart'
    BY <1>14 DEF OwnPartLocked, ChecksStillHold, TypeOK, Transaction, Idle, In, HandAway, Pieces, UndividedPart
  <2> QED
    BY <2>1, <2>2, <2>3, <2>4, <2>5, <2>6
<1>15. ASSUME NEW k \in Client, TakeBack(k) PROVE IInv'
  <2>1. OwnPartLocked'
    BY <1>15 DEF OwnPartLocked, TypeOK, Transaction, Idle, TakeBack, Commit, Unlock, In
  <2>2. NothingElseLocked'
    BY <1>15 DEF NothingElseLocked, OwnPartLocked, TypeOK, Transaction, Idle, TakeBack, Commit, Unlock, In
  <2>3. ChecksStillHold'
    BY <1>15 DEF ChecksStillHold, OwnPartLocked, TypeOK, Transaction, Idle, TakeBack, Commit, Unlock, In
  <2> QED
    BY <1>15, <2>1, <2>2, <2>3 DEF TakeBack
<1>16. ASSUME NEW k \in Client, Refuse(k) PROVE IInv'
  <2>1. OwnPartLocked'
    BY <1>16 DEF OwnPartLocked, TypeOK, Transaction, Idle, Refuse, Commit, Unlock, In
  <2>2. NothingElseLocked'
    BY <1>16 DEF NothingElseLocked, OwnPartLocked, TypeOK, Transaction, Idle, Refuse, Commit, Unlock, In
  <2>3. ChecksStillHold'
    BY <1>16 DEF ChecksStillHold, OwnPartLocked, TypeOK, Transaction, Idle, Refuse, Commit, Unlock, In
  <2> QED
    BY <1>16, <2>1, <2>2, <2>3 DEF Refuse
<1>17. ASSUME NEW k \in Client, Crash(k) PROVE IInv'
  <2>1. OwnPartLocked'
    BY <1>17 DEF OwnPartLocked, TypeOK, Transaction, Idle, Crash, Commit, Unlock, In
  <2>2. NothingElseLocked'
    BY <1>17 DEF NothingElseLocked, OwnPartLocked, TypeOK, Transaction, Idle, Crash, Commit, Unlock, In
  <2>3. ChecksStillHold'
    BY <1>17 DEF ChecksStillHold, OwnPartLocked, TypeOK, Transaction, Idle, Crash, Commit, Unlock, In
  <2> QED
    BY <1>17, <2>1, <2>2, <2>3 DEF Crash
<1>18. CASE UNCHANGED vars
  BY <1>18 DEF vars, OwnPartLocked, NothingElseLocked, ChecksStillHold, In
<1> QED
  BY <1>1, <1>2, <1>3, <1>4, <1>5, <1>6, <1>7, <1>8, <1>9, <1>10, <1>11, <1>12, <1>13, <1>14, <1>15, <1>16, <1>17, <1>18
     DEF Next, Statement, Begin, Continue

\* IInv holds in every reachable state.
THEOREM Invariance == Spec => []IInv
<1>1. Init => IInv
  BY InvariantInit
<1>2. IInv /\ [Next]_vars => IInv'
  BY InvariantStep
<1> QED
  BY <1>1, <1>2, PTL DEF Spec

-----------------------------------------------------------------------------
(* What follows.                                                           *)

\* Every variable keeps its type: in particular no part's hours are ever
\* divided down to nothing or joined back beyond the schema's maximum.
THEOREM TypeCorrect == Spec => []TypeOK
<1>1. IInv => TypeOK
  BY DEF IInv
<1> QED
  BY <1>1, Invariance, PTL

\* FillInstancePart and SetInstancePartTaughtBy never leave a part both staffed
\* here and taught elsewhere.
THEOREM StaffedHereOnly == Spec => []NeverStaffedElsewhere
<1>1. IInv => NeverStaffedElsewhere
  BY DEF IInv
<1> QED
  BY <1>1, Invariance, PTL

\* No rejoin or removal deletes a part somebody was assigned to.
THEOREM AssignmentsKeepTheirPart == Spec => []AssignedPartsAreStored
<1>1. IInv => AssignedPartsAreStored
  BY DEF IInv
<1> QED
  BY <1>1, Invariance, PTL

\* Pieces stay one level deep, and outlive nothing they name.
THEOREM PiecesOneLevelDeep == Spec => []PiecesNameAnUndividedPart
<1>1. IInv => PiecesNameAnUndividedPart
  BY DEF IInv
<1> QED
  BY <1>1, Invariance, PTL

\* Who is waited for holds an undivided part and wants no other.
LEMMA WaitedForDoesNotWait == IInv => NobodyWaitsForAWaiter
<1> SUFFICES ASSUME IInv, NEW j \in Client, NEW k \in Client, NEW l \in Client,
                    WaitsFor(j, k), WaitsFor(k, l)
             PROVE FALSE
  BY DEF NobodyWaitsForAWaiter
<1> USE DEF IInv
<1>1. tx[j] # Idle /\ tx[k] # Idle
  BY DEF WaitsFor, Needs, In, Idle
<1>2. tx[j].part \in stored /\ tx[k].part \in stored
  BY <1>1 DEF OwnPartLocked
<1>3. lock[tx[j].part] = j /\ lock[tx[k].part] = k
  BY <1>1 DEF OwnPartLocked
<1>4. PICK u \in Needs(j) : lock[u] = k
  BY DEF WaitsFor
<1>5. u # tx[j].part /\ u \in stored /\ root[u] = Nothing
  <2>1. u # tx[j].part
    BY <1>3, <1>4 DEF WaitsFor
  <2> QED
    BY <1>2, <1>4, <2>1
       DEF Needs, UndividedPart, ChecksStillHold, PiecesNameAnUndividedPart
<1>6. u = tx[k].part
  BY <1>4, <1>5 DEF NothingElseLocked, TypeOK, WaitsFor, Needs, In
<1>7. Needs(k) = {u}
  BY <1>5, <1>6 DEF WaitsFor, Needs, ChecksStillHold, UndividedPart
<1> QED
  BY <1>4, <1>7 DEF WaitsFor

\* The transactions over parts never deadlock, however many there are.
THEOREM NoWaitingForWaiters == Spec => []NobodyWaitsForAWaiter
BY WaitedForDoesNotWait, Invariance, PTL

-----------------------------------------------------------------------------
(* PartStaffing implements PartTeaching.                                   *)

\* One part changes hands and all others stay: a step of PartTeaching.
LEMMA OnePartGoes ==
    ASSUME NEW p \in Part, NEW from, NEW to,
           TaughtBy[p] \in from, TaughtBy'[p] \in to,
           \A q \in Part \ {p} : TaughtBy'[q] = TaughtBy[q]
    PROVE  Teaching!Goes(p, from, to)
<1>1. TaughtBy' = [TaughtBy EXCEPT ![p] = TaughtBy'[p]]
  BY DEF TaughtBy
<1> QED
  BY <1>1 DEF Teaching!Goes

\* What decides who teaches a part is its row, its faculty and its assignment.
LEMMA NobodyGoes ==
    UNCHANGED <<stored, elsewhere, assignment>> => UNCHANGED TaughtBy
BY DEF TaughtBy, Assigned

\* Each step gives, takes or moves the teaching of at most one part, in a way
\* PartTeaching allows.
LEMMA StepImplements == IInv /\ [Next]_vars => [Teaching!Next]_TaughtBy
<1> SUFFICES ASSUME IInv, [Next]_vars PROVE Teaching!Next \/ UNCHANGED TaughtBy
  OBVIOUS
<1> USE DEF IInv, TypeOK, rows, staffing, Assigned, NeverStaffedElsewhere,
        AssignedPartsAreStored
<1>1. ASSUME NEW p \in Part, NEW w \in Who, Fill(p, w) PROVE Teaching!Goes(p, {Open}, Who)
  BY <1>1, OnePartGoes, ConstantsAssumption DEF Fill, TaughtBy
<1>2. ASSUME NEW s \in Screen, NEW w \in Who, Replace(s, w)
      PROVE Teaching!Next
  <2>1. seen[s].part \in Part
    BY <1>2 DEF Replace
  <2>2. Teaching!Goes(seen[s].part, Who, Who)
    BY <1>2, <2>1, OnePartGoes, ConstantsAssumption DEF Replace, TaughtBy, Assignment
  <2> QED
    BY <2>1, <2>2 DEF Teaching!Next
<1>3. ASSUME NEW s \in Screen, Clear(s) PROVE Teaching!Next
  <2>1. seen[s].part \in Part
    BY <1>3 DEF Clear
  <2>2. Teaching!Goes(seen[s].part, Who, {Open})
    BY <1>3, <2>1, OnePartGoes DEF Clear, TaughtBy, Assignment
  <2> QED
    BY <2>1, <2>2 DEF Teaching!Next
<1>4. ASSUME NEW p \in Part, NEW h \in Hours \cup {Nothing}, AddPart(p, h)
      PROVE Teaching!Goes(p, {Absent}, {Open})
  BY <1>4, OnePartGoes DEF AddPart, TaughtBy
<1>5. ASSUME NEW p \in Part, RemovePart(p)
      PROVE Teaching!Goes(p, {Open, Elsewhere}, {Absent})
  BY <1>5, OnePartGoes DEF RemovePart, TaughtBy
<1>6. ASSUME NEW k \in Client, NEW h \in Hours, NEW q \in Part, Divide(k, h, q)
      PROVE Teaching!Goes(q, {Absent}, {Open})
  BY <1>6, OnePartGoes DEF Divide, TaughtBy
<1>7. ASSUME NEW k \in Client, Rejoin(k)
      PROVE Teaching!Next
  <2>1. tx[k].part \in stored
    BY <1>7 DEF Rejoin, In, OwnPartLocked, Idle
  <2>2. Teaching!Goes(tx[k].part, {Open, Elsewhere}, {Absent})
    BY <1>7, <2>1, OnePartGoes DEF Rejoin, TaughtBy
  <2> QED
    BY <2>1, <2>2 DEF Teaching!Next
<1>8. ASSUME NEW k \in Client, HandAway(k)
      PROVE Teaching!Next \/ UNCHANGED TaughtBy
  <2>1. tx[k].part \in stored
    BY <1>8 DEF HandAway, In, OwnPartLocked, Idle
  <2>2. CASE tx[k].part \in elsewhere
    BY <1>8, <2>2, NobodyGoes DEF HandAway
  <2>3. CASE tx[k].part \notin elsewhere
    <3>1. Teaching!Goes(tx[k].part, {Open}, {Elsewhere})
      BY <1>8, <2>1, <2>3, OnePartGoes DEF HandAway, TaughtBy, ChecksStillHold
    <3> QED
      BY <2>1, <3>1 DEF Teaching!Next
  <2> QED
    BY <2>2, <2>3
<1>9. ASSUME NEW k \in Client, TakeBack(k)
      PROVE Teaching!Next \/ UNCHANGED TaughtBy
  <2>1. tx[k].part \in stored
    BY <1>9 DEF TakeBack, In, OwnPartLocked, Idle
  <2>2. CASE tx[k].part \notin elsewhere
    BY <1>9, <2>2, NobodyGoes DEF TakeBack
  <2>3. CASE tx[k].part \in elsewhere
    <3>1. Teaching!Goes(tx[k].part, {Elsewhere}, {Open})
      BY <1>9, <2>1, <2>3, OnePartGoes DEF TakeBack, TaughtBy
    <3> QED
      BY <2>1, <3>1 DEF Teaching!Next
  <2> QED
    BY <2>2, <2>3
<1>10. ASSUME NEW s \in Screen, NEW p \in Part, Look(s, p) PROVE UNCHANGED TaughtBy
  BY <1>10, NobodyGoes DEF Look
<1>11. ASSUME NEW p \in Part, NEW h \in Hours \cup {Nothing}, CorrectHours(p, h) PROVE UNCHANGED TaughtBy
  BY <1>11, NobodyGoes DEF CorrectHours
<1>12. ASSUME NEW k \in Client, NEW op \in Operation, NEW p \in Part, LockPart(k, op, p) PROVE UNCHANGED TaughtBy
  BY <1>12, NobodyGoes DEF LockPart
<1>13. ASSUME NEW k \in Client, RejoinCheck(k) PROVE UNCHANGED TaughtBy
  BY <1>13, NobodyGoes DEF RejoinCheck
<1>14. ASSUME NEW k \in Client, RejoinLockRoot(k) PROVE UNCHANGED TaughtBy
  BY <1>14, NobodyGoes DEF RejoinLockRoot
<1>15. ASSUME NEW k \in Client, HandAwayCheck(k) PROVE UNCHANGED TaughtBy
  BY <1>15, NobodyGoes DEF HandAwayCheck
<1>16. ASSUME NEW k \in Client, Refuse(k) PROVE UNCHANGED TaughtBy
  BY <1>16, NobodyGoes DEF Refuse
<1>17. ASSUME NEW k \in Client, Crash(k) PROVE UNCHANGED TaughtBy
  BY <1>17, NobodyGoes DEF Crash
<1>18. CASE UNCHANGED vars
  BY <1>18, NobodyGoes DEF vars
<1> QED
  BY <1>1, <1>2, <1>3, <1>4, <1>5, <1>6, <1>7, <1>8, <1>9, <1>10, <1>11, <1>12, <1>13, <1>14, <1>15, <1>16, <1>17, <1>18
     DEF Next, Statement, Begin, Continue, Teaching!Next

\* With Absent, Open and Elsewhere read off the rows, the statements and
\* transactions of PartStaffing behave as PartTeaching promises.
THEOREM Implementation == Spec => ImplementsTeaching
<1>1. Init => Teaching!Init
  BY DEF Init, Teaching!Init, TaughtBy, Assigned
<1>2. IInv /\ [Next]_vars => [Teaching!Next]_TaughtBy
  BY StepImplements
<1> QED
  BY <1>1, <1>2, Invariance, PTL DEF Spec, ImplementsTeaching, Teaching!Spec

-----------------------------------------------------------------------------
(* Dividing and rejoining move hours.                                      *)

\* An instance has finitely many parts: it began so, and a step adds one.
FinitelyMany == IsFiniteSet(stored)
LEMMA FinitelyManyParts == Spec => []FinitelyMany
<1>1. Init => FinitelyMany
  BY ConstantsAssumption DEF Init, FinitelyMany
<1>2. FinitelyMany /\ [Next]_vars => FinitelyMany'
  <2> SUFFICES ASSUME IsFiniteSet(stored), [Next]_vars PROVE IsFiniteSet(stored')
    BY DEF FinitelyMany
  <2>1. ASSUME NEW p \in Part, stored' = stored \cup {p} PROVE IsFiniteSet(stored')
    BY <2>1, FS_AddElement
  <2>2. ASSUME NEW p, stored' = stored \ {p} PROVE IsFiniteSet(stored')
    BY <2>2, FS_RemoveElement
  <2>3. CASE stored' = stored
    BY <2>3
  <2> QED
    BY <2>1, <2>2, <2>3
    DEF Next, Statement, Begin, Continue, Fill, Look, Replace, Clear, AddPart, CorrectHours,
        RemovePart, LockPart, Divide, RejoinCheck, RejoinLockRoot, Rejoin, HandAwayCheck,
        HandAway, TakeBack, Refuse, Crash, vars, rows, staffing
<1> QED
  BY <1>1, <1>2, PTL DEF Spec

\* What a part credits.
Worth == [p \in Part |-> IF p \in stored THEN Stated(hours[p]) ELSE 0]

LEMMA WorthType ==
    ASSUME TypeOK
    PROVE  /\ Worth \in [Part -> Nat]
           /\ \A p \in Part : Worth[p] <= MaxHours /\ (Worth[p] # 0 => p \in stored)
<1>1. ASSUME NEW p \in Part PROVE Stated(hours[p]) \in 0..MaxHours
  BY ConstantsAssumption DEF TypeOK, Stated, Hours
<1>2. ASSUME NEW p \in Part
      PROVE  Worth[p] \in Nat /\ Worth[p] <= MaxHours /\ (Worth[p] # 0 => p \in stored)
  BY <1>1, ConstantsAssumption DEF Worth
<1> QED
  BY <1>2 DEF Worth

\* A piece takes its hours from the part that was cut.
LEMMA DivideMoves ==
    ASSUME IInv, TypeOK', NEW k \in Client, NEW h \in Hours, NEW q \in Part, Divide(k, h, q)
    PROVE  \E p \in Part : /\ p # q /\ h <= Worth[p]
                           /\ Worth'[p] = Worth[p] - h /\ Worth'[q] = Worth[q] + h
                           /\ \A r \in Part \ {p, q} : Worth'[r] = Worth[r]
<1> DEFINE p == tx[k].part
<1>1. p \in stored /\ p \in Part /\ q \notin stored /\ p # q
  BY DEF Divide, IInv, OwnPartLocked, In, Idle, TypeOK
<1>2. /\ hours[p] \in Hours /\ h < hours[p]
      /\ hours' = [hours EXCEPT ![p] = hours[p] - h, ![q] = h]
      /\ stored' = stored \cup {q}
  BY <1>1 DEF Divide, Divisible, IInv, TypeOK
<1> HIDE DEF p
<1>3. /\ hours'[p] = hours[p] - h /\ hours'[q] = h
      /\ \A r \in Part \ {p, q} : hours'[r] = hours[r]
  BY <1>1, <1>2 DEF IInv, TypeOK
<1>4. hours[p] - h # Nothing /\ h # Nothing /\ hours[p] # Nothing /\ h \in Nat /\ hours[p] \in Nat
  BY <1>2, ConstantsAssumption DEF Hours
<1>5. /\ Worth[p] = hours[p] /\ Worth[q] = 0
      /\ Worth'[p] = hours[p] - h /\ Worth'[q] = h
      /\ \A r \in Part \ {p, q} : Worth'[r] = Worth[r]
  BY <1>1, <1>2, <1>3, <1>4 DEF Worth, Stated
<1>6. h <= Worth[p] /\ Worth'[q] = Worth[q] + h
  BY <1>2, <1>4, <1>5
<1> QED
  BY <1>1, <1>5, <1>6

\* A piece that is joined back gives its hours to the part it was cut from,
\* which is another part that is still there.
LEMMA RejoinMoves ==
    ASSUME IInv, TypeOK', NEW k \in Client, Rejoin(k)
    PROVE  \E p \in Part, u \in Part :
               /\ p # u /\ Worth'[p] = 0 /\ Worth'[u] = Worth[u] + Worth[p]
               /\ \A r \in Part \ {p, u} : Worth'[r] = Worth[r]
<1> DEFINE p == tx[k].part
           u == root[p]
<1>1. p \in stored /\ p \in Part /\ u # Nothing
  BY DEF Rejoin, IInv, OwnPartLocked, ChecksStillHold, In, Idle, TypeOK
<1>2. u \in stored /\ u \in Part /\ u # p
  BY <1>1 DEF IInv, PiecesNameAnUndividedPart, TypeOK
<1>3. /\ stored' = stored \ {p}
      /\ hours' = [hours EXCEPT
             ![u] = IF hours[p] = Nothing THEN @ ELSE Stated(@) + hours[p], ![p] = Nothing]
  BY DEF Rejoin
<1>4. hours \in [Part -> Hours \cup {Nothing}]
  BY DEF IInv, TypeOK
<1> HIDE DEF p, u
<1>5. /\ hours'[u] = IF hours[p] = Nothing THEN hours[u] ELSE Stated(hours[u]) + hours[p]
      /\ \A r \in Part \ {p, u} : hours'[r] = hours[r]
  BY <1>1, <1>2, <1>3, <1>4
<1>6. Stated(hours'[u]) = Stated(hours[u]) + Stated(hours[p])
  <2>1. Stated(hours[u]) \in Nat /\ Stated(hours[p]) \in Nat
    BY <1>1, <1>2, <1>4 DEF Stated, Hours
  <2>2. CASE hours[p] = Nothing
    BY <1>5, <2>1, <2>2 DEF Stated
  <2>3. CASE hours[p] # Nothing
    <3>1. hours[p] \in Nat /\ hours'[u] = Stated(hours[u]) + hours[p]
      BY <1>1, <1>4, <1>5, <2>3 DEF Hours
    <3>2. hours'[u] # Nothing
      BY <2>1, <3>1, ConstantsAssumption
    <3> QED
      BY <2>3, <3>1, <3>2 DEF Stated
  <2> QED
    BY <2>2, <2>3
<1>7. Worth'[p] = 0 /\ Worth[p] = Stated(hours[p]) /\ Worth[u] = Stated(hours[u])
  BY <1>1, <1>2, <1>3 DEF Worth
<1>8. Worth'[u] = Stated(hours'[u])
  BY <1>1, <1>2, <1>3 DEF Worth
<1>9. ASSUME NEW r \in Part \ {p, u} PROVE Worth'[r] = Worth[r]
  <2>1. hours'[r] = hours[r] /\ (r \in stored' <=> r \in stored)
    BY <1>3, <1>5
  <2> QED
    BY <2>1 DEF Worth
<1> QED
  BY <1>1, <1>2, <1>6, <1>7, <1>8, <1>9

\* Dividing and rejoining lose no hours, for any number of parts, hours and
\* transactions (DivideInstancePart, RejoinInstancePart).
THEOREM HoursStay == Spec => HoursAreMoved
<1> DEFINE Moved == (\E k \in Client : DividesOrRejoins(k)) => TotalHours' = TotalHours
<1>1. ASSUME IInv, TypeOK', IsFiniteSet(stored), NEW k \in Client, DividesOrRejoins(k)
      PROVE  TotalHours' = TotalHours
  <2>1. Worth \in [Part -> Nat] /\ Worth' \in [Part -> Nat]
    <3>1. TypeOK
      BY <1>1 DEF IInv
    <3>2. Worth \in [Part -> Nat]
      BY <3>1, WorthType
    <3>3. (TypeOK => Worth \in [Part -> Nat])'
      BY WorthType, PTL
    <3> QED
      BY <1>1, <3>2, <3>3
  <2>2. IsFiniteSet(Units(Worth))
    <3>1. \A p \in Part : Worth[p] <= MaxHours /\ (Worth[p] # 0 => p \in stored)
      BY <1>1, WorthType DEF IInv
    <3> QED
      BY <1>1, <2>1, <3>1, UnitsAreFinite, ConstantsAssumption
  <2>3. TotalHours = Total(Worth) /\ TotalHours' = Total(Worth')
    BY DEF TotalHours, Worth
  <2> SUFFICES Total(Worth') = Total(Worth)
    BY <2>3
  <2>4. ASSUME NEW h \in Hours, NEW q \in Part, Divide(k, h, q)
        PROVE  Total(Worth') = Total(Worth)
    <3>1. PICK p \in Part : /\ p # q /\ h <= Worth[p]
                            /\ Worth'[p] = Worth[p] - h /\ Worth'[q] = Worth[q] + h
                            /\ \A r \in Part \ {p, q} : Worth'[r] = Worth[r]
      BY <1>1, <2>4, DivideMoves
    <3>2. h \in Nat
      BY DEF Hours
    <3> QED
      BY <2>1, <2>2, <3>1, <3>2, MovingKeepsTotal
  <2>5. ASSUME Rejoin(k) PROVE Total(Worth') = Total(Worth)
    <3>1. PICK p \in Part, u \in Part :
               /\ p # u /\ Worth'[p] = 0 /\ Worth'[u] = Worth[u] + Worth[p]
               /\ \A r \in Part \ {p, u} : Worth'[r] = Worth[r]
      BY <1>1, <2>5, RejoinMoves
    <3>2. Worth[p] \in Nat /\ Worth[p] <= Worth[p] /\ Worth'[p] = Worth[p] - Worth[p]
      BY <2>1, <3>1
    <3> QED
      BY <2>1, <2>2, <3>1, <3>2, MovingKeepsTotal
  <2> QED
    BY <1>1, <2>4, <2>5 DEF DividesOrRejoins
<1>2. IInv /\ FinitelyMany /\ [Next]_vars => [Moved]_vars
  BY <1>1, TypeInvariant DEF IInv, FinitelyMany
<1> QED
  BY <1>2, Invariance, FinitelyManyParts, PTL DEF Spec, HoursAreMoved
=============================================================================
