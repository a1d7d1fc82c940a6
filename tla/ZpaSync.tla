------------------------------ MODULE ZpaSync ------------------------------
(***************************************************************************)
(* The nightly copy of the examination office's master data, and the       *)
(* projection of that copy into the module catalogue.                      *)
(*                                                                         *)
(* Two processes import: "night", which cron starts for one run and which  *)
(* ends with it, and "server", whose button starts a run that nobody waits *)
(* for.  Both go through the same steps under one advisory lock.  Every    *)
(* store call commits on its own; only the projection is one transaction.  *)
(* "hand" is the projection somebody asks the server for, without a run.   *)
(*                                                                         *)
(* Of the five endpoints two are modelled, the ones an offering is made    *)
(* of: modules, and associations whose payload names a module.  Time       *)
(* passes in half hours.  What the examination office answers is any       *)
(* answer at all.                                                          *)
(***************************************************************************)
EXTENDS Naturals

CONSTANTS
    Modules,        \* modules the examination office may publish
    Associations,   \* its associations of a module with regulations
    Payloads,       \* what it may publish of an object; an association names a module
    NoPayload,      \* not mentioned, not cached
    RunRows         \* how many rows of runs the model keeps (a bound)

AllObjects == Modules \cup Associations
AnyPayload == {NoPayload} \cup UNION {Payloads[o] : o \in AllObjects}

ASSUME ImportAssumption ==
    /\ Modules \cap Associations = {}
    /\ NoPayload \notin AllObjects
    /\ \A o \in AllObjects : NoPayload \notin Payloads[o]
    /\ RunRows \in Nat

VARIABLES
    cache,      \* zpa_object: what is cached per kind and object
    changes,    \* zpa_change: the lines of a run about the kind it is at
    rows,       \* zpa_sync_run: whether a row is RUNNING, and for how long;
                \* which status an ended one has is read by people only
    holder,     \* who holds the sync lock
    job,        \* the importing processes
    got,        \* what an importing process was answered, per kind
    known,      \* what it had found cached of the kind it is at
    draft,      \* what the open transaction of a projection by hand has written
    catalogue   \* module and module_offering, as committed

vars == <<cache, changes, rows, holder, job, got, known, draft, catalogue>>

-----------------------------------------------------------------------------
(* Kinds, answers and rows. *)

Runs == 1..RunRows
NoRun == 0
Importers == {"server", "night"}
Kinds == {"MODULE", "MSBA"}
AllZPAKinds == <<"MODULE", "MSBA">>
Objects(k) == IF k = "MODULE" THEN Modules ELSE Associations

\* Mutant: a limit beyond the hour.
TwoHours == 4
MaximumZPASyncDuration == 1     \* thirty minutes
abandonedRunAge == 2            \* an hour

Unknown == [payload |-> NoPayload, gone |-> FALSE]
IsPresent(object) == object.payload # NoPayload /\ ~object.gone

NoAnswer == [o \in AllObjects |-> NoPayload]
Mentioned(answer) == {o \in AllObjects : answer[o] # NoPayload}
\* what an endpoint may answer: the client refuses an answer without objects
Fetches(k) ==
    {[o \in AllObjects |-> IF o \in Objects(k) THEN a[o] ELSE NoPayload] :
        a \in {b \in [Objects(k) -> AnyPayload] :
                 /\ \E o \in Objects(k) : b[o] # NoPayload
                 /\ \A o \in Objects(k) : b[o] \in Payloads[o] \cup {NoPayload}}}

\* where a process is: the steps of one endpoint
InKind == {"fetch", "apply", "note", "gone"}
\* the steps of a run before its row is finished, and those under the lock
InRun == InKind \cup {"failed", "finish"}
Holding == InRun \cup {"locked", "project"}
NotYet == [k \in Kinds |-> "NONE"]
NoJob == [pc |-> "down", run |-> NoRun, at |-> 1, todo |-> {}, object |-> NoPayload,
          change |-> "", result |-> NotYet]
Resting(p) == [NoJob EXCEPT !.pc = IF p = "server" THEN "ready" ELSE "down"]
KindOf(p) == AllZPAKinds[job[p].at]

Nobody == "nobody"
EmptyCatalogue == [modules |-> {}, offerings |-> {}]
NoDraft == [open |-> FALSE, modules |-> {}, offerings |-> {}]

Init ==
    /\ cache = [k \in Kinds |-> [o \in AllObjects |-> Unknown]]
    /\ changes = [r \in Runs |-> {}]
    /\ rows = [r \in Runs |-> [status |-> "ENDED", age |-> 0]]
    /\ holder = Nobody
    /\ job = [p \in Importers |-> NoJob]
    /\ got = [p \in Importers |-> [k \in Kinds |-> NoAnswer]]
    /\ known = [p \in Importers |-> [o \in AllObjects |-> Unknown]]
    /\ draft = NoDraft
    /\ catalogue = EmptyCatalogue

-----------------------------------------------------------------------------
(* Processes start, take the lock, and die. *)

\* Mutant: a start does not look for abandoned rows.
NothingIsAbandoned == UNCHANGED rows
\* FailAbandonedRuns, the first thing every process does: a row that has been
\* RUNNING for an hour belongs to a process that is gone.
FailAbandonedRuns ==
    rows' = [r \in Runs |->
                IF rows[r].status = "RUNNING" /\ rows[r].age >= abandonedRunAge
                THEN [status |-> "ENDED", age |-> 0] ELSE rows[r]]

ProcessStarts(p) ==
    /\ job[p].pc = "down"
    /\ FailAbandonedRuns
    /\ job' = [job EXCEPT ![p].pc = "ready"]
    /\ UNCHANGED <<cache, changes, holder, got, known, draft, catalogue>>

\* An error of FailAbandonedRuns is a warning, and the process goes on.
ProcessStartsUncleared(p) ==
    /\ job[p].pc = "down"
    /\ job' = [job EXCEPT ![p].pc = "ready"]
    /\ UNCHANGED <<cache, changes, rows, holder, got, known, draft, catalogue>>

\* Mutant: whoever wants the lock has it.
AcquireHeldLock(p) ==
    /\ job[p].pc = "ready"
    /\ holder' = p
    /\ job' = [job EXCEPT ![p].pc = "locked"]
    /\ UNCHANGED <<cache, changes, rows, got, known, draft, catalogue>>

\* AcquireZPASyncLock tries and does not wait. MayStartManualSync may refuse the
\* button before; it is one more reason not to come here.
AcquireSyncLock(p) ==
    /\ job[p].pc = "ready"
    /\ holder = Nobody
    /\ holder' = p
    /\ job' = [job EXCEPT ![p].pc = "locked"]
    /\ UNCHANGED <<cache, changes, rows, got, known, draft, catalogue>>

\* The lock is taken, or the database does not answer: the nightly process exits.
NightGivesUp ==
    /\ job["night"].pc = "ready"
    /\ job' = [job EXCEPT !["night"].pc = "down"]
    /\ UNCHANGED <<cache, changes, rows, holder, got, known, draft, catalogue>>

\* The row is written before the first fetch. The model forgets rows that ended
\* and takes the first free one for a new run.
Free(r) == rows[r].status # "RUNNING" /\ \A p \in Importers : job[p].run # r
StartRun(p, r) ==
    /\ job[p].pc = "locked"
    /\ Free(r) /\ \A q \in 1..(r - 1) : ~Free(q)
    /\ rows' = [rows EXCEPT ![r] = [status |-> "RUNNING", age |-> 0]]
    /\ job' = [job EXCEPT ![p].pc = "fetch", ![p].run = r]
    /\ UNCHANGED <<cache, changes, holder, got, known, draft, catalogue>>

\* Process p is done with a kind.
Forgets(p) ==
    /\ known' = [known EXCEPT ![p] = [o \in AllObjects |-> Unknown]]
    /\ changes' = [r \in Runs |-> IF r = job[p].run THEN {} ELSE changes[r]]

\* The run is over for this process, however it ended: the lock is released.
Release(p) ==
    /\ holder' = Nobody
    /\ job' = [job EXCEPT ![p] = Resting(p)]
    /\ got' = [got EXCEPT ![p] = [k \in Kinds |-> NoAnswer]]
    /\ Forgets(p)

\* StartRun, RecordRunKind, FinishRun or a statement of the projection fails:
\* the run returns, and the row keeps the status it has.
RunReturns(p) ==
    /\ \/ job[p].pc \in {"locked", "failed", "finish", "project"}
       \/ job[p].pc = "gone" /\ job[p].todo = {}
    /\ Release(p)
    /\ UNCHANGED <<cache, rows, draft, catalogue>>

\* The thirty minutes of a detached run are over: every later store call fails,
\* RecordRunKind and FinishRun included.
RunTimesOut ==
    /\ job["server"].pc \in InRun
    /\ rows[job["server"].run].age >= MaximumZPASyncDuration
    /\ Release("server")
    /\ UNCHANGED <<cache, rows, draft, catalogue>>

\* A process dies, and its database sessions with it: lock and transaction.
Dies(p) ==
    /\ job[p].pc # "down"
    /\ job' = [job EXCEPT ![p] = NoJob]
    /\ holder' = IF holder = p THEN Nobody ELSE holder
    /\ draft' = IF p = "server" THEN NoDraft ELSE draft
    /\ got' = [got EXCEPT ![p] = [k \in Kinds |-> NoAnswer]]
    /\ Forgets(p)
    /\ UNCHANGED <<cache, rows, catalogue>>

\* Half an hour passes for the rows that are RUNNING. A detached run does not
\* outlive its limit.
HalfAnHour ==
    /\ \E r \in Runs : rows[r].status = "RUNNING" /\ rows[r].age < abandonedRunAge
    /\ job["server"].pc \in InRun => rows[job["server"].run].age < MaximumZPASyncDuration
    /\ rows' = [r \in Runs |->
                  IF rows[r].status = "RUNNING" /\ rows[r].age < abandonedRunAge
                  THEN [rows[r] EXCEPT !.age = @ + 1] ELSE rows[r]]
    /\ UNCHANGED <<cache, changes, holder, job, got, known, draft, catalogue>>

-----------------------------------------------------------------------------
(* One endpoint: syncKind. *)

\* The endpoint answers, and the state of its kind is read.
Fetch(p) ==
    /\ job[p].pc = "fetch"
    /\ \E answer \in Fetches(KindOf(p)) :
          /\ got' = [got EXCEPT ![p][KindOf(p)] = answer]
          /\ job' = [job EXCEPT ![p].pc = "apply", ![p].todo = Mentioned(answer)]
    /\ known' = [known EXCEPT ![p] = cache[KindOf(p)]]
    /\ UNCHANGED <<cache, changes, rows, holder, draft, catalogue>>

\* Against what was known when the endpoint answered, and against the payload
\* that is cached now.
classify(previous, before, after) ==
    CASE previous.payload = NoPayload -> "APPEARED"
      [] previous.gone -> "REAPPEARED"
      [] ~previous.gone /\ previous.payload # NoPayload /\ before # after -> "CHANGED"
      [] OTHER -> ""

\* Mutant: a change that is none is recorded as well.
UpsertAndRecord(p, o) ==
    LET k == KindOf(p) IN
    /\ job[p].pc = "apply"
    /\ o \in job[p].todo
    /\ cache' = [cache EXCEPT ![k][o] = [payload |-> got[p][k][o], gone |-> FALSE]]
    /\ job' = [job EXCEPT ![p].todo = @ \ {o}, ![p].object = o, ![p].pc = "note",
                          ![p].change = classify(known[p][o], cache[k][o].payload, got[p][k][o])]
    /\ UNCHANGED <<changes, rows, holder, got, known, draft, catalogue>>

\* PayloadOf and Upsert of one object: it is present again, with what arrived.
Upsert(p, o) ==
    LET k == KindOf(p)
        change == classify(known[p][o], cache[k][o].payload, got[p][k][o]) IN
    /\ job[p].pc = "apply"
    /\ o \in job[p].todo
    /\ cache' = [cache EXCEPT ![k][o] = [payload |-> got[p][k][o], gone |-> FALSE]]
    /\ job' = [job EXCEPT ![p].todo = @ \ {o},
                          ![p].object = IF change = "" THEN NoPayload ELSE o,
                          ![p].change = change,
                          ![p].pc = IF change = "" THEN "apply" ELSE "note"]
    /\ UNCHANGED <<changes, rows, holder, got, known, draft, catalogue>>

Log(p, o, change) ==
    changes' = [changes EXCEPT ![job[p].run] = @ \cup {[object |-> o, change |-> change]}]

RecordChange(p) ==
    /\ job[p].pc = "note"
    /\ Log(p, job[p].object, job[p].change)
    /\ job' = [job EXCEPT ![p].pc = "apply", ![p].object = NoPayload, ![p].change = ""]
    /\ UNCHANGED <<cache, rows, holder, got, known, draft, catalogue>>

\* RetireMissing: one statement marks what the answer did not mention.
RetireMissing(p) ==
    LET k == KindOf(p)
        retired == {o \in AllObjects : IsPresent(cache[k][o]) /\ o \notin Mentioned(got[p][k])} IN
    /\ job[p].pc = "apply"
    /\ job[p].todo = {}
    /\ cache' = [cache EXCEPT ![k] =
                    [o \in AllObjects |-> IF o \in retired
                                          THEN [cache[k][o] EXCEPT !.gone = TRUE]
                                          ELSE cache[k][o]]]
    /\ job' = [job EXCEPT ![p].pc = "gone", ![p].todo = retired]
    /\ UNCHANGED <<changes, rows, holder, got, known, draft, catalogue>>

RecordDisappeared(p, o) ==
    /\ job[p].pc = "gone"
    /\ o \in job[p].todo
    /\ Log(p, o, "DISAPPEARED")
    /\ job' = [job EXCEPT ![p].todo = @ \ {o}]
    /\ UNCHANGED <<cache, rows, holder, got, known, draft, catalogue>>

\* The endpoint or any store call of it fails: the kind fails, what it has
\* written stays, and nothing (more) of it is retired or logged.
KindFails(p) ==
    /\ job[p].pc \in InKind
    /\ job' = [job EXCEPT ![p].pc = "failed",
                          ![p].todo = {}, ![p].object = NoPayload, ![p].change = ""]
    /\ UNCHANGED <<cache, changes, rows, holder, got, known, draft, catalogue>>

\* The result of the kind is stored, and the next endpoint is asked. The model
\* keeps the lines of the log that belong to the kind a process is at.
RecordRunKind(p, result) ==
    /\ \/ job[p].pc = "gone" /\ job[p].todo = {} /\ result = "SUCCEEDED"
       \/ job[p].pc = "failed" /\ result = "FAILED"
    /\ job' = [job EXCEPT ![p].pc = IF job[p].at = 1 THEN "fetch" ELSE "finish",
                          ![p].at = 2,
                          ![p].result[KindOf(p)] = result]
    /\ Forgets(p)
    /\ UNCHANGED <<cache, rows, holder, got, draft, catalogue>>

-----------------------------------------------------------------------------
(* The end of a run, and the projection. *)

\* Mutant: a run that got one endpoint has succeeded.
SucceededOnce(result) ==
    IF \E k \in Kinds : result[k] = "SUCCEEDED" THEN "SUCCEEDED" ELSE "FAILED"
StatusOf(result) ==
    CASE \A k \in Kinds : result[k] = "SUCCEEDED" -> "SUCCEEDED"
      [] \A k \in Kinds : result[k] # "SUCCEEDED" -> "FAILED"
      [] OTHER -> "PARTIAL"

\* FinishRun writes over whatever the row says. Only a run that fully succeeded
\* goes on to the catalogue.
FinishRun(p) ==
    /\ job[p].pc = "finish"
    /\ rows' = [rows EXCEPT ![job[p].run] = [status |-> "ENDED", age |-> 0]]
    /\ IF StatusOf(job[p].result) = "SUCCEEDED"
       THEN /\ job' = [job EXCEPT ![p].pc = "project"]
            /\ UNCHANGED <<holder, got, known, changes>>
       ELSE Release(p)
    /\ UNCHANGED <<cache, draft, catalogue>>

\* ProjectModules: a module keeps the row it has, whatever becomes of its object.
Projected == catalogue.modules \cup {x \in Modules : cache["MODULE"][x].payload # NoPayload}

\* The modules a present association names and the catalogue has a row of.
Supported(modules) ==
    {x \in modules : \E o \in Associations :
                        IsPresent(cache["MSBA"][o]) /\ cache["MSBA"][o].payload = x}

\* The projection of a run: insert the offerings the cache supports, delete the
\* others. It waits for one by hand, whose first statements hold the programmes.
\* While the lock is held no other run writes the cache.
RunProjects(p) ==
    /\ job[p].pc = "project"
    /\ ~draft.open
    /\ catalogue' = [modules |-> Projected,
                     offerings |-> (catalogue.offerings \cup Supported(Projected))
                                     \cap Supported(Projected)]
    /\ Release(p)
    /\ UNCHANGED <<cache, rows, draft>>

\* A projection by hand, without the lock, and however the last run ended: the
\* statements up to ProjectModuleOfferings.
ProjectCatalogue ==
    /\ job["server"].pc # "down"
    /\ ~draft.open
    /\ draft' = [open |-> TRUE, modules |-> Projected,
                 offerings |-> catalogue.offerings \cup Supported(Projected)]
    /\ UNCHANGED <<cache, changes, rows, holder, job, got, known, catalogue>>

\* Its DeleteStaleModuleOfferings, and the commit. The transaction is READ
\* COMMITTED: the cache may have been written since its last statement.
DeleteStaleModuleOfferings ==
    /\ draft.open
    /\ catalogue' = [modules |-> draft.modules,
                     offerings |-> draft.offerings \cap Supported(draft.modules)]
    /\ draft' = NoDraft
    /\ UNCHANGED <<cache, changes, rows, holder, job, got, known>>

\* It fails and is rolled back.
HandProjectionFails ==
    /\ draft.open
    /\ draft' = NoDraft
    /\ UNCHANGED <<cache, changes, rows, holder, job, got, known, catalogue>>

-----------------------------------------------------------------------------
(* The specification. *)

\* what a process does on its own once it runs
Works(p) ==
    \/ KindFails(p) \/ RunReturns(p)
    \/ \E r \in Runs : StartRun(p, r)
    \/ Fetch(p)
    \/ \E o \in AllObjects : Upsert(p, o) \/ RecordDisappeared(p, o)
    \/ RecordChange(p) \/ RetireMissing(p)
    \/ RecordRunKind(p, "SUCCEEDED") \/ RecordRunKind(p, "FAILED")
    \/ FinishRun(p) \/ RunProjects(p)
    \/ p = "night" /\ NightGivesUp

Next ==
    \/ \E p \in Importers :
          ProcessStarts(p) \/ ProcessStartsUncleared(p) \/ AcquireSyncLock(p) \/ Works(p) \/ Dies(p)
    \/ RunTimesOut \/ HalfAnHour
    \/ ProjectCatalogue \/ DeleteStaleModuleOfferings \/ HandProjectionFails

\* Processes that run go on, time passes, and cron starts the nightly process
\* again and again; some of those starts reach the database.
Fairness ==
    /\ \A p \in Importers : WF_vars(Works(p))
    /\ WF_vars(HalfAnHour)
    /\ SF_vars(ProcessStarts("night"))

Spec == Init /\ [][Next]_vars /\ Fairness

-----------------------------------------------------------------------------
(* What makes the import correct. *)

CachedObjects == [payload : AnyPayload, gone : BOOLEAN]
Catalogues == [modules : SUBSET Modules, offerings : SUBSET Modules]
Drafts == [open : BOOLEAN, modules : SUBSET Modules, offerings : SUBSET Modules]
RunRow == [status : {"RUNNING", "ENDED"}, age : 0..abandonedRunAge]
ChangeTypes == {"APPEARED", "REAPPEARED", "CHANGED", "DISAPPEARED"}

Jobs == [pc : {"down", "ready"} \cup Holding, run : Runs \cup {NoRun}, at : {1, 2},
         todo : SUBSET AllObjects, object : AllObjects \cup {NoPayload},
         change : ChangeTypes \cup {""}, result : [Kinds -> {"NONE", "SUCCEEDED", "FAILED"}]]

\* The types of the import's tables and processes.
TypeOK ==
    /\ cache \in [Kinds -> [AllObjects -> CachedObjects]]
    /\ changes \in [Runs -> SUBSET [object : AllObjects, change : ChangeTypes]]
    /\ rows \in [Runs -> RunRow]
    /\ holder \in Importers \cup {Nobody}
    /\ job \in [Importers -> Jobs]
    /\ got \in [Importers -> [Kinds -> [AllObjects -> AnyPayload]]]
    /\ known \in [Importers -> [AllObjects -> CachedObjects]]
    /\ draft \in Drafts
    /\ catalogue \in Catalogues

\* What changed between two states of one object, and of a kind's objects.
ChangeOf(before, after) ==
    CASE ~IsPresent(before) /\ IsPresent(after) ->
            IF before.gone THEN "REAPPEARED" ELSE "APPEARED"
      [] IsPresent(before) /\ ~IsPresent(after) -> "DISAPPEARED"
      [] IsPresent(before) /\ IsPresent(after) /\ before.payload # after.payload -> "CHANGED"
      [] OTHER -> ""
Difference(before, after) ==
    {d \in [object : AllObjects, change : ChangeTypes] :
        d.change = ChangeOf(before[d.object], after[d.object])}

\* A kind that is reported SUCCEEDED left the cache as the endpoint answered, and
\* its lines in the log are the difference between the cache it found and the one
\* it leaves: the report of complete and the writes of syncKind, one commit each,
\* with another process that may import at the same time.
ReportIsTrue ==
    [][\A p \in Importers : RecordRunKind(p, "SUCCEEDED") =>
          LET k == KindOf(p) IN
          /\ \A o \in AllObjects :
                IF got[p][k][o] = NoPayload THEN ~IsPresent(cache[k][o])
                ELSE IsPresent(cache[k][o]) /\ cache[k][o].payload = got[p][k][o]
          /\ changes[job[p].run] = Difference(known[p], cache[k])]_vars

\* The catalogue a run commits is what that run was answered: every endpoint
\* completely, so that no offering goes because one did not answer, or because
\* somebody else wrote the cache in between (projectCatalogue).
IsTheFetch(p, committed) ==
    /\ committed.offerings =
           {x \in committed.modules : \E o \in Associations : got[p]["MSBA"][o] = x}
    /\ Mentioned(got[p]["MODULE"]) \subseteq committed.modules
CatalogueIsTheFetch ==
    [][\A p \in Importers : RunProjects(p) => IsTheFetch(p, catalogue')]_vars

\* A run started with the button is never declared dead while it is alive: its
\* limit stays below the age at which a start of any process takes a row for
\* abandoned (MaximumZPASyncDuration, abandonedRunAge). A nightly run has no
\* limit of its own, and the same is not said of it.
LiveRunIsNotDeclaredDead ==
    job["server"].pc \in InRun => rows[job["server"].run].status = "RUNNING"

\* No row stays RUNNING for ever: a run ends, or some later start finds it
\* abandoned, whatever dies in between.
EveryRunEnds ==
    \A r \in Runs : rows[r].status = "RUNNING" ~> rows[r].status # "RUNNING"
=============================================================================
