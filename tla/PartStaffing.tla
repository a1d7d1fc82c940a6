---------------------------- MODULE PartStaffing ----------------------------
(***************************************************************************)
(* The parts of a course instance and who holds them: filling, replacing   *)
(* and clearing an assignment, cutting a part into pieces, joining a piece *)
(* back, and handing a part to another faculty.                            *)
(*                                                                         *)
(* A step is one committed statement, or one statement of a transaction.   *)
(* A transaction begins with LockInstancePart (SELECT ... FOR UPDATE) and   *)
(* keeps its row locks until it commits or rolls back; what it writes is   *)
(* seen by nobody before the commit, so its writes are one step with it.   *)
(* Refused single statements change nothing and are not steps.             *)
(*                                                                         *)
(* Hours are whole numbers (the code's are cents of numeric(4,2)), a part  *)
(* has one kind, and the phase and the permission checks that precede a    *)
(* write are not modelled here.                                            *)
(***************************************************************************)
EXTENDS Integers, FiniteSets, Counting

CONSTANTS
    Part,        \* ids of parts, stored ones and those still to be created
    InitialPart, \* the parts an instance was declared with
    Who,         \* accounts and teachers who can be assigned
    Client,      \* transactions open at the same time
    Screen,      \* screens on which an assignment is decided
    MaxHours,    \* the most a part may credit (20 in the schema)
    MaxId,       \* bound: how many assignments are ever created
    Nothing,     \* NULL, or no row
    Absent, Open, Elsewhere \* of PartTeaching

ASSUME ConstantsAssumption ==
    /\ InitialPart \subseteq Part /\ IsFiniteSet(InitialPart)
    /\ MaxHours \in Nat \ {0}
    /\ MaxId \in Nat
    /\ Nothing \notin Part \cup Who \cup Client \cup Nat
    /\ Nothing \notin [id : Nat, who : Who]
    /\ Nothing \notin [part : Part, id : Nat, who : Who]

VARIABLES
    stored,     \* the parts with a row in instance_part
    hours,      \* instance_part.teaching_hours
    root,       \* instance_part.divided_from_id
    elsewhere,  \* the parts whose taught_by names another faculty
    assignment, \* the assignment of a part: its id and assignee
    nextId,     \* the id the next assignment gets
    seen,       \* the assignment a screen shows, and of which part
    lock,       \* who holds the FOR UPDATE lock of a part's row
    tx          \* a client's open transaction

rows == <<stored, hours, root, elsewhere>>
staffing == <<assignment, nextId, seen>>
vars == <<stored, hours, root, elsewhere, assignment, nextId, seen, lock, tx>>

Hours == 1..MaxHours
Operation == {"divide", "rejoin", "handAway", "takeBack"}
Step == {"locked", "checked", "rootLocked"}
Idle == [at |-> "idle", op |-> Nothing, part |-> Nothing]
Transaction == {Idle} \cup [at : Step, op : Operation, part : Part]
Assignment == [id : Nat, who : Who]

TypeOK ==
    /\ stored \subseteq Part
    /\ hours \in [Part -> Hours \cup {Nothing}]
    /\ root \in [Part -> Part \cup {Nothing}]
    /\ elsewhere \subseteq Part
    /\ assignment \in [Part -> Assignment \cup {Nothing}]
    /\ nextId \in Nat
    /\ seen \in [Screen -> [part : Part, id : Nat, who : Who] \cup {Nothing}]
    /\ lock \in [Part -> Client \cup {Nothing}]
    /\ tx \in [Client -> Transaction]

Init ==
    /\ stored = InitialPart
    /\ hours \in [Part -> Hours \cup {Nothing}]
    /\ \A p \in Part \ InitialPart : hours[p] = Nothing
    /\ root = [p \in Part |-> Nothing]
    /\ elsewhere = {}
    /\ assignment = [p \in Part |-> Nothing]
    /\ nextId = 1
    /\ seen = [s \in Screen |-> Nothing]
    /\ lock = [p \in Part |-> Nothing]
    /\ tx = [k \in Client |-> Idle]

-----------------------------------------------------------------------------
(* What several statements read.                                           *)

Assigned(p) == assignment[p] # Nothing
Unlocked(p) == lock[p] = Nothing
Pieces(p) == {q \in stored : root[q] = p}
\* Mutant: a piece of a piece names that piece.
PartItself(p) == p

UndividedPart(p) == IF root[p] = Nothing THEN p ELSE root[p]
Stated(h) == IF h = Nothing THEN 0 ELSE h
TotalHours == Total([p \in Part |-> IF p \in stored THEN Stated(hours[p]) ELSE 0])

-----------------------------------------------------------------------------
(* Assignments: each is one statement, committed by itself.                *)

\* Mutant: the fill does not take FOR SHARE.
FillUnlocked(p, w) ==
    /\ p \in stored /\ p \notin elsewhere
    /\ ~Assigned(p)
    /\ nextId <= MaxId
    /\ assignment' = [assignment EXCEPT ![p] = [id |-> nextId, who |-> w]]
    /\ nextId' = nextId + 1
    /\ UNCHANGED <<rows, seen, lock, tx>>

\* FillInstancePart waits for the row lock (FOR SHARE) and then inserts only if
\* the part is still taught here and nobody holds it.
Fill(p, w) ==
    /\ p \in stored /\ Unlocked(p)
    /\ p \notin elsewhere
    /\ ~Assigned(p)
    /\ nextId <= MaxId
    /\ assignment' = [assignment EXCEPT ![p] = [id |-> nextId, who |-> w]]
    /\ nextId' = nextId + 1
    /\ UNCHANGED <<rows, seen, lock, tx>>

\* Somebody opens the screen a replacement or a clearing is decided on.
Look(s, p) ==
    /\ Assigned(p)
    /\ seen' = [seen EXCEPT ![s] =
                [part |-> p, id |-> assignment[p].id, who |-> assignment[p].who]]
    /\ UNCHANGED <<rows, assignment, nextId, lock, tx>>

\* ReplaceAssignment: an UPDATE by assignment id and part. The row, and so its
\* id, stays; the answer re-reads it.
Replace(s, w) ==
    /\ seen[s] # Nothing
    /\ LET p == seen[s].part IN
        /\ Assigned(p) /\ assignment[p].id = seen[s].id
        /\ assignment' = [assignment EXCEPT ![p].who = w]
        /\ seen' = [seen EXCEPT ![s].who = w]
    /\ UNCHANGED <<rows, nextId, lock, tx>>

\* ClearAssignment: a DELETE by assignment id.
Clear(s) ==
    /\ seen[s] # Nothing
    /\ LET p == seen[s].part IN
        /\ Assigned(p) /\ assignment[p].id = seen[s].id
        /\ assignment' = [assignment EXCEPT ![p] = Nothing]
    /\ seen' = [seen EXCEPT ![s] = Nothing]
    /\ UNCHANGED <<rows, nextId, lock, tx>>

-----------------------------------------------------------------------------
(* Parts written by one statement.                                         *)

\* AddInstancePart on a cohort that holds its own teaching.
AddPart(p, h) ==
    /\ p \notin stored
    /\ stored' = stored \cup {p}
    /\ hours' = [hours EXCEPT ![p] = h]
    /\ root' = [root EXCEPT ![p] = Nothing]
    /\ UNCHANGED <<elsewhere, staffing, lock, tx>>

\* UpdateInstancePart writes the hours whatever they were. Its UPDATE waits for
\* the row lock.
CorrectHours(p, h) ==
    /\ p \in stored /\ Unlocked(p)
    /\ hours' = [hours EXCEPT ![p] = h]
    /\ UNCHANGED <<stored, root, elsewhere, staffing, lock, tx>>

\* Mutant: the assignment's foreign key does not restrict the delete.
RemovePartCascading(p) ==
    /\ p \in stored /\ Unlocked(p) /\ Pieces(p) = {}
    /\ stored' = stored \ {p}
    /\ hours' = [hours EXCEPT ![p] = Nothing]
    /\ root' = [root EXCEPT ![p] = Nothing]
    /\ elsewhere' = elsewhere \ {p}
    /\ UNCHANGED <<staffing, lock, tx>>

\* DeleteInstancePart: refused by the foreign keys of an assignment and of a
\* piece.
RemovePart(p) ==
    /\ p \in stored /\ Unlocked(p)
    /\ ~Assigned(p) /\ Pieces(p) = {}
    /\ stored' = stored \ {p}
    /\ hours' = [hours EXCEPT ![p] = Nothing]
    /\ root' = [root EXCEPT ![p] = Nothing]
    /\ elsewhere' = elsewhere \ {p}
    /\ UNCHANGED <<staffing, lock, tx>>

-----------------------------------------------------------------------------
(* Transactions over locked parts.                                         *)

Unlock(k) == [p \in Part |-> IF lock[p] = k THEN Nothing ELSE lock[p]]
In(k, op, at) == tx[k].op = op /\ tx[k].at = at
Advance(k, at) == tx' = [tx EXCEPT ![k].at = at]
Commit(k) ==
    /\ lock' = Unlock(k)
    /\ tx' = [tx EXCEPT ![k] = Idle]

\* Mutant: a rejoin locks the part the piece was cut from first.
LockRootFirst(k, op, p) ==
    LET first == IF op = "rejoin" THEN UndividedPart(p) ELSE p IN
    /\ tx[k] = Idle
    /\ p \in stored /\ Unlocked(first)
    /\ lock' = [lock EXCEPT ![first] = k]
    /\ tx' = [tx EXCEPT ![k] = [at |-> "locked", op |-> op, part |-> p]]
    /\ UNCHANGED <<rows, staffing>>

\* LockInstancePart: the first statement of all four operations.
LockPart(k, op, p) ==
    /\ tx[k] = Idle
    /\ p \in stored /\ Unlocked(p)
    /\ lock' = [lock EXCEPT ![p] = k]
    /\ tx' = [tx EXCEPT ![k] = [at |-> "locked", op |-> op, part |-> p]]
    /\ UNCHANGED <<rows, staffing>>

\* Mutant: all of the hours may be cut off.
DivisibleWhole(p, h) == p \notin elsewhere /\ hours[p] # Nothing /\ h <= hours[p]

Divisible(p, h) == p \notin elsewhere /\ hours[p] # Nothing /\ h < hours[p]

\* DivideInstancePart: q becomes a piece of the undivided part, taught here and
\* free. Its foreign key waits for the undivided part's row.
Divide(k, h, q) ==
    /\ In(k, "divide", "locked")
    /\ LET p == tx[k].part
           u == UndividedPart(p) IN
        /\ Divisible(p, h)
        /\ q \notin stored
        /\ lock[u] \in {Nothing, k}
        /\ stored' = stored \cup {q}
        /\ hours' = [hours EXCEPT ![p] = hours[p] - h, ![q] = h]
        /\ root' = [root EXCEPT ![q] = u]
    /\ Commit(k)
    /\ UNCHANGED <<elsewhere, staffing>>

\* RejoinInstancePart, read after the lock: a piece nobody holds.
RejoinCheck(k) ==
    /\ In(k, "rejoin", "locked")
    /\ root[tx[k].part] # Nothing
    /\ ~Assigned(tx[k].part)
    /\ Advance(k, "checked")
    /\ UNCHANGED <<rows, staffing, lock>>

\* Then the second lock, on the part the piece was cut from.
RejoinLockRoot(k) ==
    /\ In(k, "rejoin", "checked")
    /\ LET u == root[tx[k].part] IN
        /\ Unlocked(u)
        /\ lock' = [lock EXCEPT ![u] = k]
    /\ Advance(k, "rootLocked")
    /\ UNCHANGED <<rows, staffing>>

\* Mutant: the piece goes with its hours.
RejoinDroppingHours(k) ==
    /\ In(k, "rejoin", "rootLocked")
    /\ LET p == tx[k].part IN
        /\ ~Assigned(p)
        /\ hours' = [hours EXCEPT ![p] = Nothing]
        /\ stored' = stored \ {p}
        /\ root' = [root EXCEPT ![p] = Nothing]
        /\ elsewhere' = elsewhere \ {p}
    /\ Commit(k)
    /\ UNCHANGED staffing

\* The hours go back, the piece goes. The schema bounds the sum.
Rejoin(k) ==
    /\ In(k, "rejoin", "rootLocked")
    /\ LET p == tx[k].part
           u == root[p] IN
        /\ ~Assigned(p)
        /\ Stated(hours[u]) + Stated(hours[p]) <= MaxHours
        /\ hours' = [hours EXCEPT
                ![u] = IF hours[p] = Nothing THEN @ ELSE Stated(@) + hours[p],
                ![p] = Nothing]
        /\ stored' = stored \ {p}
        /\ root' = [root EXCEPT ![p] = Nothing]
        /\ elsewhere' = elsewhere \ {p}
    /\ Commit(k)
    /\ UNCHANGED staffing

\* Mutant: nobody asks whether the part is staffed.
HandAwayUnchecked(k) ==
    /\ In(k, "handAway", "locked")
    /\ Advance(k, "checked")
    /\ UNCHANGED <<rows, staffing, lock>>

\* SetInstancePartTaughtBy with a faculty: read after the lock whether somebody
\* of ours holds the part ...
HandAwayCheck(k) ==
    /\ In(k, "handAway", "locked")
    /\ ~Assigned(tx[k].part)
    /\ Advance(k, "checked")
    /\ UNCHANGED <<rows, staffing, lock>>

\* ... then write it.
HandAway(k) ==
    /\ In(k, "handAway", "checked")
    /\ elsewhere' = elsewhere \cup {tx[k].part}
    /\ Commit(k)
    /\ UNCHANGED <<stored, hours, root, staffing>>

\* SetInstancePartTaughtBy with "": nothing is checked.
TakeBack(k) ==
    /\ In(k, "takeBack", "locked")
    /\ elsewhere' = elsewhere \ {tx[k].part}
    /\ Commit(k)
    /\ UNCHANGED <<stored, hours, root, staffing>>

\* Mutant: the refusal of a staffed piece forgets to roll back.
RefusedForgettingRollback(k) ==
    LET p == tx[k].part IN
    \/ /\ In(k, "divide", "locked")
       /\ (\A h \in Hours : ~Divisible(p, h)) \/ stored = Part
    \/ /\ In(k, "rejoin", "locked")
       /\ root[p] = Nothing
    \/ /\ In(k, "handAway", "locked")
       /\ Assigned(p)

\* The early returns between the lock and the commit: the deferred Rollback.
Refused(k) ==
    LET p == tx[k].part IN
    \/ /\ In(k, "divide", "locked")
       /\ (\A h \in Hours : ~Divisible(p, h)) \/ stored = Part
    \/ /\ In(k, "rejoin", "locked")
       /\ root[p] = Nothing \/ Assigned(p)
    \/ /\ In(k, "rejoin", "rootLocked")
       /\ Assigned(p) \/ Stated(hours[root[p]]) + Stated(hours[p]) > MaxHours
    \/ /\ In(k, "handAway", "locked")
       /\ Assigned(p)

Refuse(k) == Refused(k) /\ Commit(k) /\ UNCHANGED <<rows, staffing>>

\* The request is cancelled or the connection lost: the database rolls back.
Crash(k) ==
    /\ tx[k] # Idle
    /\ Commit(k)
    /\ UNCHANGED <<rows, staffing>>

-----------------------------------------------------------------------------

Statement ==
    \/ \E p \in Part, w \in Who : Fill(p, w)
    \/ \E s \in Screen, p \in Part : Look(s, p)
    \/ \E s \in Screen, w \in Who : Replace(s, w)
    \/ \E s \in Screen : Clear(s)
    \/ \E p \in Part, h \in Hours \cup {Nothing} : AddPart(p, h)
    \/ \E p \in Part, h \in Hours \cup {Nothing} : CorrectHours(p, h)
    \/ \E p \in Part : RemovePart(p)

Begin == \E k \in Client, op \in Operation, p \in Part : LockPart(k, op, p)

Continue(k) ==
    \/ \E h \in Hours, q \in Part : Divide(k, h, q)
    \/ RejoinCheck(k)
    \/ RejoinLockRoot(k)
    \/ Rejoin(k)
    \/ HandAwayCheck(k)
    \/ HandAway(k)
    \/ TakeBack(k)
    \/ Refuse(k)

Next ==
    \/ Statement
    \/ Begin
    \/ \E k \in Client : Continue(k) \/ Crash(k)

Spec == Init /\ [][Next]_vars

\* A request that began goes on: the server runs every request to its end, and
\* the row lock it waits for is granted in the order of the queue (strong).
FairSpec == Spec /\ \A k \in Client : SF_vars(Continue(k))

-----------------------------------------------------------------------------
(* Properties.                                                             *)

\* A part another faculty teaches has no assignment, whatever the order in
\* which a fill and a handing away arrive (FillInstancePart's FOR SHARE against
\* LockInstancePart's FOR UPDATE).
NeverStaffedElsewhere == \A p \in elsewhere : ~Assigned(p)

\* An assignment is of a part that is still there: neither a rejoin nor a
\* removal takes teaching away from a person.
AssignedPartsAreStored == \A p \in Part : Assigned(p) => p \in stored

\* A piece names the undivided part, never another piece, and that part is
\* still there: pieces are one level deep however often a part is cut.
PiecesNameAnUndividedPart ==
    \A p \in stored : root[p] # Nothing => root[p] \in stored /\ root[root[p]] = Nothing

\* No transaction waits for one that itself waits, so no cycle of waiting can
\* form: what is waited for is always an undivided part, whose holder either
\* works on that part alone or has both its locks already.
Needs(k) ==
    IF In(k, "rejoin", "checked") THEN {tx[k].part, root[tx[k].part]}
    ELSE IF In(k, "divide", "locked") THEN {tx[k].part, UndividedPart(tx[k].part)}
    ELSE {}
WaitsFor(j, k) == j # k /\ \E p \in Needs(j) : lock[p] = k
NobodyWaitsForAWaiter ==
    \A j, k, l \in Client : ~(WaitsFor(j, k) /\ WaitsFor(k, l))

\* Dividing and rejoining move hours and lose none: the instance's figure is
\* the same afterwards.
DividesOrRejoins(k) == Rejoin(k) \/ \E h \in Hours, q \in Part : Divide(k, h, q)
HoursAreMoved == [][(\E k \in Client : DividesOrRejoins(k)) => TotalHours' = TotalHours]_vars

\* Who teaches each part, as PartTeaching promises it: teaching is given and
\* taken by decisions on the assignment alone, one part at a time, and a part
\* leaves this faculty or disappears only when nobody holds it.
TaughtBy == [p \in Part |->
    IF p \notin stored THEN Absent
    ELSE IF p \in elsewhere THEN Elsewhere
    ELSE IF Assigned(p) THEN assignment[p].who ELSE Open]
Teaching == INSTANCE PartTeaching WITH taughtBy <- TaughtBy
ImplementsTeaching == Teaching!Spec

\* A replacement replaces the decision its author was looking at: what
\* db/queries/assignment.sql says of ReplaceAssignment ("If somebody else has
\* since cleared or changed it, no rows come back and the caller is told rather
\* than overwriting a decision they never saw").
ReplacesWhatWasSeen ==
    [][\A s \in Screen, w \in Who :
        Replace(s, w) /\ assignment' # assignment
            => seen[s].who = assignment[seen[s].part].who]_vars

\* A transaction that began ends, though it may wait for a second part's row
\* that others lock again and again.
TransactionsEnd == \A k \in Client : tx[k] # Idle ~> tx[k] = Idle
=============================================================================
