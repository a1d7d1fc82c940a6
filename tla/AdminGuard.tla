----------------------------- MODULE AdminGuard -----------------------------
(***************************************************************************)
(* Who can administer the installation, and the guard that refuses to take *)
(* the last administrator away (guardingAdmins).                           *)
(*                                                                         *)
(* A guarded change locks the rows of every ADMIN grant, counts the other  *)
(* administrators, reads the person, writes and commits; each of these is  *)
(* a step, for each statement sees what is committed when it starts. The   *)
(* lock is one statement too, but it waits row by row: the rows it asks    *)
(* for are those of its start, a row deleted meanwhile is passed over, and *)
(* a row inserted meanwhile is not locked (READ COMMITTED).                *)
(*                                                                         *)
(* An ADMIN grant never expires (a CHECK of the schema), so a person is an *)
(* administrator who is active and has the row.                            *)
(***************************************************************************)
EXTENDS FiniteSets

CONSTANTS
    Person,  \* the people of the installation
    Client,  \* guarded transactions open at the same time
    Nothing  \* no lock, no transaction

ASSUME ConstantsAssumption == Nothing \notin Person \cup Client

VARIABLES
    active, \* the people whose person.active is set
    admins, \* the people with an ADMIN row in person_role
    lock,   \* who holds the FOR UPDATE lock of a person's ADMIN row
    want,   \* the ADMIN rows a lock statement still has to lock
    tx      \* a client's guarded transaction

vars == <<active, admins, lock, want, tx>>

Change == {"revoke", "deactivate"}
Idle == [at |-> "idle", op |-> Nothing, person |-> Nothing]
Transaction == {Idle} \cup
    [at : {"locking", "alone", "allowed"}, op : Change, person : Person]

\* A row locked or waited for is a row that exists: what a waiting statement
\* finds deleted it passes over.
TypeOK ==
    /\ active \subseteq Person
    /\ admins \subseteq Person
    /\ lock \in [Person -> Client \cup {Nothing}]
    /\ \A p \in Person : lock[p] # Nothing => p \in admins
    /\ want \in [Client -> SUBSET admins]
    /\ tx \in [Client -> Transaction]

Administrators == active \cap admins

\* ReconcileProtectedAdmins has run: somebody on its list administers.
Init ==
    /\ active \in SUBSET Person
    /\ admins \in SUBSET Person
    /\ Administrators # {}
    /\ lock = [p \in Person |-> Nothing]
    /\ want = [k \in Client |-> {}]
    /\ tx = [k \in Client |-> Idle]

-----------------------------------------------------------------------------
(* Changes without a guard: they only ever add.                            *)

\* SetPersonActive(true), and the activation of AdmitTeacher, whose grant is
\* never ADMIN.
Activate(p) ==
    /\ active' = active \cup {p}
    /\ UNCHANGED <<admins, lock, want, tx>>

\* GrantRole: a new row is locked by nobody.
GrantAdmin(p) ==
    /\ p \notin admins
    /\ admins' = admins \cup {p}
    /\ UNCHANGED <<active, lock, want, tx>>

\* reconcileOne, for a protected administrator at a start.
Reconcile(p) ==
    /\ p \notin Administrators
    /\ active' = active \cup {p}
    /\ admins' = admins \cup {p}
    /\ UNCHANGED <<lock, want, tx>>

-----------------------------------------------------------------------------
(* Guarded changes: revoking ADMIN and deactivating a person.              *)

At(k, step) == tx[k].at = step
Advance(k, step) == tx' = [tx EXCEPT ![k].at = step]
Unlock(k) == [p \in Person |-> IF lock[p] = k THEN Nothing ELSE lock[p]]
Others(p) == Administrators \ {p}

\* Mutant: nothing is locked.
BeginUnlocked(k, op, p) ==
    /\ tx[k] = Idle
    /\ tx' = [tx EXCEPT ![k] = [at |-> "locking", op |-> op, person |-> p]]
    /\ UNCHANGED <<active, admins, lock, want>>

\* LockAdminGrants starts: it will lock the ADMIN rows of this moment.
Begin(k, op, p) ==
    /\ tx[k] = Idle
    /\ tx' = [tx EXCEPT ![k] = [at |-> "locking", op |-> op, person |-> p]]
    /\ want' = [want EXCEPT ![k] = admins]
    /\ UNCHANGED <<active, admins, lock>>

\* ... one after another, in the order of the heap.
LockGrant(k, q) ==
    /\ q \in want[k]
    /\ lock[q] = Nothing
    /\ lock' = [lock EXCEPT ![q] = k]
    /\ want' = [want EXCEPT ![k] = @ \ {q}]
    /\ UNCHANGED <<active, admins, tx>>

\* Mutant: whoever has the row counts, active or not.
CountGrants(k) ==
    /\ At(k, "locking") /\ want[k] = {}
    /\ Advance(k, IF admins \ {tx[k].person} = {} THEN "alone" ELSE "allowed")
    /\ UNCHANGED <<active, admins, lock, want>>

\* CountOtherActiveAdmins, once every row is locked.
Count(k) ==
    /\ At(k, "locking") /\ want[k] = {}
    /\ Advance(k, IF Others(tx[k].person) = {} THEN "alone" ELSE "allowed")
    /\ UNCHANGED <<active, admins, lock, want>>

\* PersonByID: the change is fatal only to somebody who administers. A refusal
\* rolls back.
ReadPerson(k) ==
    /\ At(k, "alone")
    /\ IF tx[k].person \in Administrators
       THEN lock' = Unlock(k) /\ tx' = [tx EXCEPT ![k] = Idle]
       ELSE Advance(k, "allowed") /\ UNCHANGED lock
    /\ UNCHANGED <<active, admins, want>>

Commit(k) ==
    /\ lock' = Unlock(k)
    /\ tx' = [tx EXCEPT ![k] = Idle]

\* Mutant: the row goes although somebody else has it locked.
RevokeNotWaiting(k) ==
    LET p == tx[k].person IN
    /\ At(k, "allowed") /\ tx[k].op = "revoke"
    /\ admins' = admins \ {p}
    /\ want' = [j \in Client |-> want[j] \ {p}]
    /\ Commit(k)
    /\ UNCHANGED active

\* RevokeRole of ADMIN: the DELETE waits for the row. Whoever waits to lock the
\* row passes over it.
Revoke(k) ==
    LET p == tx[k].person IN
    /\ At(k, "allowed") /\ tx[k].op = "revoke"
    /\ lock[p] \in {Nothing, k}
    /\ admins' = admins \ {p}
    /\ want' = [j \in Client |-> want[j] \ {p}]
    /\ Commit(k)
    /\ UNCHANGED active

\* SetPersonActive(false).
Deactivate(k) ==
    /\ At(k, "allowed") /\ tx[k].op = "deactivate"
    /\ active' = active \ {tx[k].person}
    /\ Commit(k)
    /\ UNCHANGED <<admins, want>>

\* The request is cancelled, the connection lost, or the transaction chosen as
\* a deadlock's victim: the database rolls back.
Crash(k) ==
    /\ tx[k] # Idle
    /\ Commit(k)
    /\ want' = [want EXCEPT ![k] = {}]
    /\ UNCHANGED <<active, admins>>

-----------------------------------------------------------------------------

Next ==
    \/ \E p \in Person : Activate(p) \/ GrantAdmin(p) \/ Reconcile(p)
    \/ \E k \in Client :
        \/ \E op \in Change, p \in Person : Begin(k, op, p)
        \/ \E q \in Person : LockGrant(k, q)
        \/ Count(k)
        \/ ReadPerson(k)
        \/ Revoke(k)
        \/ Deactivate(k)
        \/ Crash(k)

Spec == Init /\ [][Next]_vars

\* An environment in which no ADMIN is granted while a guarded change waits for
\* its locks.
Quiet == admins' \subseteq admins \/ \A k \in Client : ~At(k, "locking")
QuietSpec == Init /\ [][Next /\ Quiet]_vars

-----------------------------------------------------------------------------
(* Properties.                                                             *)

\* There is always somebody who can let the others in: what guardingAdmins is
\* for, over revocations and deactivations that run at once.
SomebodyAdministers == Administrators # {}

\* Guarded changes happen one after another: only one transaction at a time is
\* past LockAdminGrants ("the second one waits and then re-reads").
OneAtATime ==
    \A j, k \in Client :
        tx[j].at \in {"alone", "allowed"} /\ tx[k].at \in {"alone", "allowed"} => j = k
=============================================================================
