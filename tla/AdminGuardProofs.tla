-------------------------- MODULE AdminGuardProofs --------------------------
(***************************************************************************)
(* The guard of the last administrator, for any number of people and of    *)
(* transactions. The argument: whoever waits for the lock wants or holds   *)
(* every ADMIN row, so whoever gets past it holds them all; hence one      *)
(* transaction at a time is past it, and what that one counted still       *)
(* stands when it writes. The first half is where an ADMIN granted during  *)
(* the wait does harm, and why the theorems are about QuietSpec.           *)
(***************************************************************************)
EXTENDS AdminGuard, TLAPS

Past(k) == At(k, "alone") \/ At(k, "allowed")

\* A transaction that waits wants every row that is there but those it holds.
WaitersSeeEveryGrant ==
    \A k \in Client : At(k, "locking") =>
        \A p \in admins \ want[k] : lock[p] = k

\* A transaction past the lock holds a row: an installation without one is
\* what the guard prevents.
ThePastHoldALock == \A k \in Client : Past(k) => \E p \in Person : lock[p] = k

\* A change that is allowed leaves another administrator.
AllowedIsHarmless == \A k \in Client : At(k, "allowed") => Others(tx[k].person) # {}

IInv ==
    /\ TypeOK
    /\ SomebodyAdministers
    /\ OneAtATime
    /\ WaitersSeeEveryGrant
    /\ ThePastHoldALock
    /\ AllowedIsHarmless

-----------------------------------------------------------------------------

\* Every step keeps the rows, the locks and the transactions of their types,
\* and a row is locked only while it is there.
LEMMA TypeInvariant == TypeOK /\ [Next]_vars => TypeOK'
<1> SUFFICES ASSUME TypeOK, [Next]_vars PROVE TypeOK'
  OBVIOUS
<1> USE ConstantsAssumption DEF TypeOK, Transaction, Change, At, Advance, Unlock, Commit
<1>1. ASSUME NEW p \in Person, Activate(p) \/ GrantAdmin(p) \/ Reconcile(p) PROVE TypeOK'
  BY <1>1 DEF Activate, GrantAdmin, Reconcile
<1>2. ASSUME NEW k \in Client, NEW op \in Change, NEW p \in Person, Begin(k, op, p)
      PROVE  TypeOK'
  BY <1>2 DEF Begin
<1>3. ASSUME NEW k \in Client, NEW q \in Person, LockGrant(k, q) PROVE TypeOK'
  BY <1>3 DEF LockGrant
<1>4. ASSUME NEW k \in Client, Count(k) PROVE TypeOK'
  BY <1>4 DEF Count, Idle
<1>5. ASSUME NEW k \in Client, ReadPerson(k) PROVE TypeOK'
  BY <1>5 DEF ReadPerson, Idle
<1>6. ASSUME NEW k \in Client, Revoke(k) PROVE TypeOK'
  BY <1>6 DEF Revoke
<1>7. ASSUME NEW k \in Client, Deactivate(k) PROVE TypeOK'
  BY <1>7 DEF Deactivate
<1>8. ASSUME NEW k \in Client, Crash(k) PROVE TypeOK'
  BY <1>8 DEF Crash
<1>9. CASE UNCHANGED vars
  BY <1>9 DEF vars
<1> QED
  BY <1>1, <1>2, <1>3, <1>4, <1>5, <1>6, <1>7, <1>8, <1>9 DEF Next

-----------------------------------------------------------------------------

\* At the start somebody administers and nobody has a transaction open.
LEMMA InvariantInit == Init => IInv
<1> SUFFICES ASSUME Init PROVE IInv
  OBVIOUS
<1>1. TypeOK
  BY ConstantsAssumption DEF Init, TypeOK, Transaction
<1>2. \A k \in Client : tx[k].at = "idle"
  BY DEF Init, Idle
<1> QED
  BY <1>1, <1>2 DEF Init, IInv, SomebodyAdministers, OneAtATime, WaitersSeeEveryGrant,
     ThePastHoldALock, AllowedIsHarmless, Past, At

\* The lock, the counting and the write, in this order, preserve the invariant
\* as long as no ADMIN is granted during a wait.
LEMMA InvariantStep == IInv /\ [Next /\ Quiet]_vars => IInv'
<1> SUFFICES ASSUME IInv, [Next /\ Quiet]_vars PROVE IInv'
  OBVIOUS
<1>0. TypeOK'
  BY TypeInvariant DEF IInv
<1> DEFINE Rest == SomebodyAdministers /\ OneAtATime /\ WaitersSeeEveryGrant
                    /\ ThePastHoldALock /\ AllowedIsHarmless
<1> SUFFICES Rest'
  BY <1>0 DEF IInv
<1> USE ConstantsAssumption DEF TypeOK, IInv, SomebodyAdministers, OneAtATime,
      WaitersSeeEveryGrant, ThePastHoldALock, AllowedIsHarmless, Past, At,
      Administrators, Others
<1>1. ASSUME NEW p \in Person, Activate(p) \/ GrantAdmin(p) \/ Reconcile(p), Quiet
      PROVE  Rest'
  <2>1. /\ Administrators \subseteq Administrators'
        /\ UNCHANGED <<lock, want, tx>>
    BY <1>1 DEF Activate, GrantAdmin, Reconcile
  <2>2. (WaitersSeeEveryGrant)'
    BY <1>1, <2>1 DEF Quiet, Activate, GrantAdmin, Reconcile
  <2> QED
    BY <2>1, <2>2
<1>2. ASSUME NEW k \in Client, NEW op \in Change, NEW p \in Person, Begin(k, op, p)
      PROVE  Rest'
  BY <1>2 DEF Begin, Idle, Transaction
<1>3. ASSUME NEW k \in Client, NEW q \in Person, LockGrant(k, q) PROVE Rest'
  BY <1>3 DEF LockGrant
<1>4. ASSUME NEW k \in Client, Count(k) PROVE Rest'
  <2>1. \A q \in admins : lock[q] = k
    BY <1>4 DEF Count
  <2>2. \A j \in Client : Past(j) => j = k
    BY <2>1
  <2>3. \A j \in Client \ {k} : tx'[j] = tx[j]
    BY <1>4 DEF Count, Advance
  <2>4. tx'[k].person = tx[k].person /\ Past(k)'
    BY <1>4 DEF Count, Advance, Transaction, Idle
  <2>5. At(k, "allowed")' => Others(tx[k].person) # {}
    BY <1>4 DEF Count, Advance, Transaction, Idle
  <2> QED
    BY <1>4, <2>1, <2>2, <2>3, <2>4, <2>5 DEF Count
<1>5. ASSUME NEW k \in Client, ReadPerson(k) PROVE Rest'
  <2>1. CASE tx[k].person \in Administrators
    BY <1>5, <2>1 DEF ReadPerson, Unlock, Idle
  <2>2. CASE tx[k].person \notin Administrators
    BY <1>5, <2>2 DEF ReadPerson, Advance, Transaction, Idle
  <2> QED
    BY <2>1, <2>2
<1>6. ASSUME NEW k \in Client, Revoke(k) PROVE Rest'
  <2> DEFINE P == tx[k].person
  <2>1. /\ Others(P) \subseteq Administrators'
        /\ \A j \in Client \ {k} : tx'[j] = tx[j] /\ ~Past(j)
        /\ tx'[k].at = "idle"
    BY <1>6 DEF Revoke, Commit, Idle
  <2>2. (SomebodyAdministers)'
    BY <1>6, <2>1 DEF Revoke
  <2>3. (WaitersSeeEveryGrant)'
    BY <1>6, <2>1 DEF Revoke, Commit, Unlock
  <2> QED
    BY <2>1, <2>2, <2>3
<1>7. ASSUME NEW k \in Client, Deactivate(k) PROVE Rest'
  <2>1. /\ Others(tx[k].person) \subseteq Administrators'
        /\ \A j \in Client \ {k} : tx'[j] = tx[j] /\ ~Past(j)
        /\ tx'[k].at = "idle"
    BY <1>7 DEF Deactivate, Commit, Idle
  <2>2. (WaitersSeeEveryGrant)'
    BY <1>7, <2>1 DEF Deactivate, Commit, Unlock
  <2> QED
    BY <1>7, <2>1, <2>2 DEF Deactivate
<1>8. ASSUME NEW k \in Client, Crash(k) PROVE Rest'
  BY <1>8 DEF Crash, Commit, Unlock, Idle
<1>9. CASE UNCHANGED vars
  BY <1>9 DEF vars
<1> QED
  BY <1>1, <1>2, <1>3, <1>4, <1>5, <1>6, <1>7, <1>8, <1>9 DEF Next

-----------------------------------------------------------------------------

\* The invariant holds in every environment that grants no ADMIN during a wait.
THEOREM Invariance == QuietSpec => []IInv
  BY InvariantInit, InvariantStep, PTL DEF QuietSpec

\* However many guarded changes run at once, somebody can still administer the
\* installation (guardingAdmins).
THEOREM AdministeredAlways == QuietSpec => []SomebodyAdministers
<1>1. IInv => SomebodyAdministers
  BY DEF IInv
<1> QED
  BY Invariance, <1>1, PTL

\* Only one guarded change at a time is past LockAdminGrants.
THEOREM GuardExcludes == QuietSpec => []OneAtATime
<1>1. IInv => OneAtATime
  BY DEF IInv
<1> QED
  BY Invariance, <1>1, PTL

\* Every row and every transaction keeps its type whatever is granted when: no
\* lock is of a row that is gone, and nobody waits for one that is.
THEOREM TypeCorrect == Spec => []TypeOK
<1>1. Init => TypeOK
  BY InvariantInit DEF IInv
<1> QED
  BY <1>1, TypeInvariant, PTL DEF Spec
=============================================================================
