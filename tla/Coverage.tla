------------------------------ MODULE Coverage ------------------------------
(***************************************************************************)
(* Coverage: one programme's demand for a module met by another one's      *)
(* event. The cohorts are those of one module in one semester; a cohort    *)
(* (course_instance) holds its own parts, or is the guest of a host.       *)
(*                                                                         *)
(* A step is a statement, or the rest of a transaction after its last read *)
(* of what others can change. Rows are locked FOR UPDATE; a part that is   *)
(* added waits for that lock through its foreign key. What is read before  *)
(* a lock is kept in the transaction, and may be stale when it is used.    *)
(* Every refusal rolls back and is an Abort, as is a lost connection.      *)
(*                                                                         *)
(* The module's split has one unit; no part is shared between the cohorts  *)
(* of one programme; wishes are elsewhere; all programmes are planned.     *)
(***************************************************************************)
EXTENDS Integers, FiniteSetsExt, Counting

CONSTANTS
    Cohort,      \* ids of cohorts, which are compared to order locks
    Programme,   \* the programmes
    programmeOf, \* the programme of a cohort
    Client,      \* transactions open at the same time
    Operation,   \* the operations clients use
    MaxParts,    \* bound: parts of one cohort
    MaxStaffed,  \* bound: assignments at any one time
    Nothing      \* NULL, or no transaction

Operations == {"declare", "request", "accept", "release", "withdraw", "addPart"}

ASSUME ConstantsAssumption ==
    /\ Cohort \subseteq Nat
    /\ programmeOf \in [Cohort -> Programme]
    /\ Operation \subseteq Operations
    /\ MaxParts \in Nat \ {0}
    /\ MaxStaffed \in Nat
    /\ Nothing \notin Cohort \cup Client
    /\ Nothing \notin Operations

VARIABLES
    declared, \* the cohorts with a row
    gone,     \* the cohorts withdrawn: an id is never used again
    host,     \* course_instance.covered_by_instance_id
    accepted, \* the cohorts whose covered_accepted_at is set
    parts,    \* how many parts a cohort holds
    staffed,  \* how many of them have an assignment
    lock,     \* who holds the FOR UPDATE lock of a cohort's row
    want,     \* the rows a transaction has yet to lock
    tx        \* a client's transaction

data == <<declared, gone, host, accepted, parts, staffed>>
vars == <<declared, gone, host, accepted, parts, staffed, lock, want, tx>>

\* host is what the transaction read of the cohort's coverage, or is to write.
Idle == [op |-> Nothing, at |-> "idle", cohort |-> Nothing, host |-> Nothing,
         wasAccepted |-> FALSE]
Transaction == {Idle} \cup
    [op : Operation, at : {"locking", "read", "chosen"}, cohort : Cohort,
     host : Cohort \cup {Nothing}, wasAccepted : BOOLEAN]

\* An agreement is about a coverage, and an assignment about a part.
TypeOK ==
    /\ declared \subseteq Cohort
    /\ gone \subseteq Cohort \ declared
    /\ host \in [Cohort -> Cohort \cup {Nothing}]
    /\ accepted \subseteq {c \in declared : host[c] # Nothing}
    /\ parts \in [Cohort -> 0..MaxParts]
    /\ staffed \in [Cohort -> Nat]
    /\ \A c \in Cohort : staffed[c] <= parts[c]
    /\ lock \in [Cohort -> Client \cup {Nothing}]
    /\ want \in [Client -> SUBSET Cohort]
    /\ tx \in [Client -> Transaction]

Init ==
    /\ declared = {}
    /\ gone = {}
    /\ host = [c \in Cohort |-> Nothing]
    /\ accepted = {}
    /\ parts = [c \in Cohort |-> 0]
    /\ staffed = [c \in Cohort |-> 0]
    /\ lock = [c \in Cohort |-> Nothing]
    /\ want = [k \in Client |-> {}]
    /\ tx = [k \in Client |-> Idle]

-----------------------------------------------------------------------------

Covered(c) == host[c] # Nothing
Guests(h) == {g \in declared : host[g] = h}
SameProgramme(c) == {d \in declared : programmeOf[d] = programmeOf[c]}

\* Mutant: the index on one covered cohort of a programme is missing.
NoIndex(c) == TRUE

\* course_instance_one_covered_cohort_per_programme lets c be covered.
IndexAllows(c) == \A d \in SameProgramme(c) \ {c} : ~Covered(d)

Running(k, op, at) == tx[k].op = op /\ tx[k].at = at
Begin(k, op, at, c, h) ==
    /\ tx[k] = Idle /\ op \in Operation
    /\ tx' = [tx EXCEPT ![k] = [Idle EXCEPT !.op = op, !.at = at, !.cohort = c, !.host = h]]
End(k) ==
    /\ lock' = [c \in Cohort |-> IF lock[c] = k THEN Nothing ELSE lock[c]]
    /\ want' = [want EXCEPT ![k] = {}]
    /\ tx' = [tx EXCEPT ![k] = Idle]

\* Mutant: the cohort that was named first is locked first.
LockNamedFirst(k) ==
    LET c == IF tx[k].cohort \in want[k] THEN tx[k].cohort ELSE Min(want[k]) IN
    /\ want[k] # {}
    /\ c \in declared => lock[c] = Nothing
    /\ c \notin declared => tx[k].op = "withdraw"
    /\ lock' = IF c \in declared THEN [lock EXCEPT ![c] = k] ELSE lock
    /\ want' = [want EXCEPT ![k] = @ \ {c}]
    /\ UNCHANGED <<data, tx>>

\* Rows are locked in id order (lockCoveragePair, LockCoverageGroup). A
\* withdrawal passes over a row that is gone, the others refuse.
LockNext(k) ==
    LET c == Min(want[k]) IN
    /\ want[k] # {}
    /\ c \in declared => lock[c] = Nothing
    /\ c \notin declared => tx[k].op = "withdraw"
    /\ lock' = IF c \in declared THEN [lock EXCEPT ![c] = k] ELSE lock
    /\ want' = [want EXCEPT ![k] = @ \ {c}]
    /\ UNCHANGED <<data, tx>>

Locked(k, op) == Running(k, op, "locking") /\ want[k] = {}

-----------------------------------------------------------------------------
(* Declaring (CreateCourseInstance, coupleIfHostExists).                   *)

\* Who would hold the teaching: a cohort of another programme that is not
\* covered, unless a cohort of this programme already is.
HostsFor(c) ==
    {h \in declared \ SameProgramme(c) : ~Covered(h) /\ IndexAllows(c)}

DeclareRead(k, c) ==
    /\ c \notin declared \cup gone
    /\ \E h \in IF HostsFor(c) = {} THEN {Nothing} ELSE HostsFor(c) :
        Begin(k, "declare", "read", c, h)
    /\ UNCHANGED <<data, lock, want>>

\* The host's row is taken FOR KEY SHARE; if by then it is gone or covered,
\* the cohort holds its own teaching.
Declare(k) ==
    LET c == tx[k].cohort
        h == tx[k].host
        coupled == h \in declared /\ ~Covered(h) IN
    /\ Running(k, "declare", "read") /\ c \notin declared \cup gone
    /\ h \in declared => lock[h] = Nothing
    /\ coupled => IndexAllows(c)
    /\ declared' = declared \cup {c}
    /\ host' = [host EXCEPT ![c] = IF coupled THEN h ELSE Nothing]
    /\ accepted' = IF coupled THEN accepted \cup {c} ELSE accepted
    /\ parts' = [parts EXCEPT ![c] = IF coupled THEN 0 ELSE 1]
    /\ End(k)
    /\ UNCHANGED <<gone, staffed>>

-----------------------------------------------------------------------------
(* The handshake.                                                          *)

RequestBegin(k, g, h) ==
    /\ g # h
    /\ Begin(k, "request", "locking", g, h)
    /\ want' = [want EXCEPT ![k] = {g, h}]
    /\ UNCHANGED <<data, lock>>

\* RequestInstanceCoverage, checked under both locks. The foreign key refuses
\* a guest that is itself a host.
Request(k) ==
    LET g == tx[k].cohort
        h == tx[k].host IN
    /\ Locked(k, "request")
    /\ ~Covered(g)
    /\ programmeOf[g] # programmeOf[h]
    /\ ~Covered(h)
    /\ Guests(g) = {} /\ IndexAllows(g)
    /\ host' = [host EXCEPT ![g] = h]
    /\ End(k)
    /\ UNCHANGED <<declared, gone, accepted, parts, staffed>>

\* AcceptInstanceCoverage reads the request, then locks.
AcceptRead(k, g) ==
    /\ g \in declared /\ Covered(g) /\ g \notin accepted
    /\ Begin(k, "accept", "locking", g, host[g])
    /\ want' = [want EXCEPT ![k] = {g, host[g]}]
    /\ UNCHANGED <<data, lock>>

\* Mutant: the guest keeps its parts.
AcceptKeeping(k) ==
    LET g == tx[k].cohort IN
    /\ Locked(k, "accept")
    /\ host[g] = tx[k].host /\ g \notin accepted
    /\ accepted' = accepted \cup {g}
    /\ End(k)
    /\ UNCHANGED <<declared, gone, host, parts, staffed>>

\* Mutant: the assignments go with the parts.
AcceptDroppingStaff(k) ==
    LET g == tx[k].cohort IN
    /\ Locked(k, "accept")
    /\ host[g] = tx[k].host /\ g \notin accepted
    /\ accepted' = accepted \cup {g}
    /\ parts' = [parts EXCEPT ![g] = 0]
    /\ staffed' = [staffed EXCEPT ![g] = 0]
    /\ End(k)
    /\ UNCHANGED <<declared, gone, host>>

\* Compare and set on the host, and the guest's own parts go; an assignment's
\* foreign key refuses that.
Accept(k) ==
    LET g == tx[k].cohort IN
    /\ Locked(k, "accept")
    /\ host[g] = tx[k].host /\ g \notin accepted
    /\ staffed[g] = 0
    /\ accepted' = accepted \cup {g}
    /\ parts' = [parts EXCEPT ![g] = 0]
    /\ End(k)
    /\ UNCHANGED <<declared, gone, host, staffed>>

\* ReleaseInstanceCoverage reads without a lock ...
ReleaseRead(k, g) ==
    /\ g \in declared /\ Covered(g)
    /\ tx[k] = Idle /\ "release" \in Operation
    /\ tx' = [tx EXCEPT ![k] = [Idle EXCEPT !.op = "release", !.at = "read",
                                            !.cohort = g, !.wasAccepted = g \in accepted]]
    /\ UNCHANGED <<data, lock, want>>

\* Mutant: nothing is built from the split.
ReleaseEmpty(k) ==
    LET g == tx[k].cohort IN
    /\ Running(k, "release", "read")
    /\ g \in declared /\ lock[g] = Nothing
    /\ host' = [host EXCEPT ![g] = Nothing]
    /\ accepted' = accepted \ {g}
    /\ End(k)
    /\ UNCHANGED <<declared, gone, parts, staffed>>

\* Mutant: the agreement is left standing.
ReleaseRequestOnly(k) ==
    LET g == tx[k].cohort IN
    /\ Running(k, "release", "read")
    /\ g \in declared /\ lock[g] = Nothing
    /\ tx[k].wasAccepted => parts[g] < MaxParts
    /\ host' = [host EXCEPT ![g] = Nothing]
    /\ parts' = [parts EXCEPT ![g] = IF tx[k].wasAccepted THEN @ + 1 ELSE @]
    /\ End(k)
    /\ UNCHANGED <<declared, gone, accepted, staffed>>

\* ... then clears what coverage there is, if any, and builds parts from the
\* split if there was an agreement when it read.
Release(k) ==
    LET g == tx[k].cohort IN
    /\ Running(k, "release", "read")
    /\ g \in declared /\ lock[g] = Nothing
    /\ tx[k].wasAccepted => parts[g] < MaxParts
    /\ host' = [host EXCEPT ![g] = Nothing]
    /\ accepted' = accepted \ {g}
    /\ parts' = [parts EXCEPT ![g] = IF tx[k].wasAccepted THEN @ + 1 ELSE @]
    /\ End(k)
    /\ UNCHANGED <<declared, gone, staffed>>

-----------------------------------------------------------------------------
(* Withdrawing (DeleteCourseInstance, promoteCoverageSuccessor).           *)

WithdrawBegin(k, h) ==
    /\ h \in declared
    /\ Begin(k, "withdraw", "locking", h, Nothing)
    /\ want' = [want EXCEPT ![k] = {h} \cup Guests(h)]
    /\ UNCHANGED <<data, lock>>

\* CoverageSuccessorFor: the longest agreement first, requests last.
Successors(h) ==
    LET agreed == Guests(h) \cap accepted IN IF agreed # {} THEN agreed ELSE Guests(h)

\* It is read after the locks, so a guest that came during the wait counts.
WithdrawChoose(k) ==
    LET h == tx[k].cohort IN
    /\ Locked(k, "withdraw") /\ h \in declared
    /\ \E s \in IF Guests(h) = {} THEN {Nothing} ELSE Successors(h) :
        tx' = [tx EXCEPT ![k].at = "chosen", ![k].host = s]
    /\ UNCHANGED <<data, lock, want>>

\* Nobody's demand hangs off it: its row goes, with its parts if none is
\* staffed.
Withdraw(k) ==
    LET h == tx[k].cohort IN
    /\ Running(k, "withdraw", "chosen") /\ tx[k].host = Nothing
    /\ staffed[h] = 0 /\ Guests(h) = {}
    /\ declared' = declared \ {h}
    /\ gone' = gone \cup {h}
    /\ host' = [host EXCEPT ![h] = Nothing]
    /\ accepted' = accepted \ {h}
    /\ parts' = [parts EXCEPT ![h] = 0]
    /\ End(k)
    /\ UNCHANGED staffed

\* The successor is released, gets the parts with whoever holds them, and the
\* other guests point at it. Each of these UPDATEs waits for its row.
Promote(k) ==
    LET h == tx[k].cohort
        s == tx[k].host IN
    /\ Running(k, "withdraw", "chosen") /\ s \in declared
    /\ \A g \in Guests(h) \cup {s} : lock[g] \in {Nothing, k}
    /\ parts[s] + parts[h] <= MaxParts
    /\ declared' = declared \ {h}
    /\ gone' = gone \cup {h}
    /\ host' = [g \in Cohort |->
                  IF g = s THEN Nothing ELSE IF host[g] = h THEN s ELSE host[g]]
    /\ accepted' = accepted \ {s}
    /\ parts' = [parts EXCEPT ![s] = @ + parts[h], ![h] = 0]
    /\ staffed' = [staffed EXCEPT ![s] = @ + staffed[h], ![h] = 0]
    /\ End(k)

-----------------------------------------------------------------------------
(* Parts and assignments.                                                  *)

\* AddInstancePart: refuseIfCovered reads ...
AddPartRead(k, c) ==
    /\ c \in declared /\ c \notin accepted
    /\ Begin(k, "addPart", "read", c, Nothing)
    /\ UNCHANGED <<data, lock, want>>

\* ... and the INSERT waits for the cohort's row.
AddPart(k) ==
    LET c == tx[k].cohort IN
    /\ Running(k, "addPart", "read")
    /\ c \in declared /\ lock[c] = Nothing
    /\ parts[c] < MaxParts
    /\ parts' = [parts EXCEPT ![c] = @ + 1]
    /\ End(k)
    /\ UNCHANGED <<declared, gone, host, accepted, staffed>>

Assignments == Total(staffed)

\* FillInstancePart and ClearAssignment, seen from here.
Fill(c) ==
    /\ staffed[c] < parts[c]
    /\ Assignments < MaxStaffed
    /\ staffed' = [staffed EXCEPT ![c] = @ + 1]
    /\ UNCHANGED <<declared, gone, host, accepted, parts, lock, want, tx>>

Clear(c) ==
    /\ staffed[c] > 0
    /\ staffed' = [staffed EXCEPT ![c] = @ - 1]
    /\ UNCHANGED <<declared, gone, host, accepted, parts, lock, want, tx>>

\* A refusal, a cancelled request or a deadlock's victim.
Abort(k) ==
    /\ tx[k] # Idle
    /\ End(k)
    /\ UNCHANGED data

-----------------------------------------------------------------------------

Next ==
    \/ \E k \in Client :
        \/ \E c \in Cohort :
            \/ DeclareRead(k, c)
            \/ AcceptRead(k, c)
            \/ ReleaseRead(k, c)
            \/ WithdrawBegin(k, c)
            \/ AddPartRead(k, c)
        \/ \E g, h \in declared : RequestBegin(k, g, h)
        \/ LockNext(k)
        \/ Declare(k)
        \/ Request(k)
        \/ Accept(k)
        \/ Release(k)
        \/ WithdrawChoose(k)
        \/ Withdraw(k)
        \/ Promote(k)
        \/ AddPart(k)
        \/ Abort(k)
    \/ \E c \in Cohort : Fill(c) \/ Clear(c)

Spec == Init /\ [][Next]_vars

-----------------------------------------------------------------------------
(* Properties.                                                             *)

\* A coverage is of one level, between two programmes, and nobody is stranded
\* by a withdrawal: the host is a declared cohort that holds its own teaching.
\* The repointing of a promotion relies on the index for its programmes.
OneLevelAcrossProgrammes ==
    \A g \in Cohort : Covered(g) =>
        /\ {g, host[g]} \subseteq declared
        /\ ~Covered(host[g])
        /\ programmeOf[host[g]] # programmeOf[g]

\* Coupling, agreeing, releasing and promoting never take teaching away from a
\* person: only clearing an assignment does.
TeachingStaysWithPeople ==
    [][Assignments' # Assignments => \E c \in Cohort : Fill(c) \/ Clear(c)]_vars

\* An accepted guest holds no parts of its own: the joint event is counted
\* once (migration 20260829100000: "enforced in internal/store").
AcceptedGuestsHoldNothing == \A c \in accepted : parts[c] = 0

\* ... and nothing but a part that is added can end on an accepted guest: not
\* an agreement, a release or a promotion, in whatever order they arrive.
OnlyAddingGivesGuestsParts ==
    [][\A c \in accepted' : parts'[c] # 0 =>
        c \in accepted /\ (parts[c] # 0 \/ \E k \in Client : AddPart(k))]_vars

\* A cohort that is not held elsewhere has something to teach: an agreement
\* that ends gives the teaching back (ReleaseInstanceCoverage).
HoldsItsTeaching == \A c \in declared \ accepted : parts[c] > 0

\* No two transactions wait for each other unless one withdraws a cohort, which
\* is what locking in id order is for.
Needed(k) ==
    IF want[k] # {} THEN {Min(want[k])}
    ELSE IF tx[k].op \in {"release", "addPart"} THEN {tx[k].cohort}
    ELSE IF tx[k].op = "declare" THEN {tx[k].host} \cap declared
    ELSE {}
WaitsFor(j, k) == j # k /\ tx[j].op # "withdraw" /\ \E c \in Needed(j) : lock[c] = k
NobodyWaitsInACircle == \A j, k \in Client : ~(WaitsFor(j, k) /\ WaitsFor(k, j))
=============================================================================
