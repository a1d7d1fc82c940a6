--------------------------- MODULE ZpaSyncProofs ---------------------------
(***************************************************************************)
(* The import, for any modules, associations, payloads and rows.  The      *)
(* argument: only the holder of the lock writes the cache, the log of its  *)
(* run and its row, so that at every step of an endpoint the cache is what *)
(* was known of it with the answers that are already applied, and the log  *)
(* is the difference, but for the line that is still to be written.        *)
(***************************************************************************)
EXTENDS ZpaSync, TLAPS

\* Who is past the lock holds it.
HolderWorks(p) == job[p].pc \in Holding => holder = p

\* A process has a row exactly from StartRun to the end of the run, and where it
\* is in the endpoints fits what they are reported as.
Engaged(p) ==
    /\ job[p].pc \in Holding \ {"locked"} <=> job[p].run \in Runs
    /\ job[p].pc \in {"down", "ready", "locked"} => job[p].at = 1
    /\ job[p].at = 1 => job[p].result = NotYet
    /\ job[p].pc \in {"finish", "project"} => job[p].at = 2
    /\ job[p].pc \in InKind \cup {"failed"} => job[p].result["MSBA"] = "NONE"
    /\ job[p].pc = "project" => \A k \in Kinds : job[p].result[k] = "SUCCEEDED"

\* What has no payload is not gone, and an answer is about its own kind.
WellFormed(objects) == \A o \in AllObjects : objects[o].payload = NoPayload => ~objects[o].gone
AnswersFit(p) ==
    /\ WellFormed(known[p])
    /\ \A k \in Kinds : Mentioned(got[p][k]) \subseteq Objects(k)

\* The cache of a kind is what the endpoint answered.
AsAnswered(p, k) ==
    \A o \in AllObjects :
        IF got[p][k][o] = NoPayload THEN ~IsPresent(cache[k][o])
        ELSE cache[k][o] = [payload |-> got[p][k][o], gone |-> FALSE]

\* The objects that are applied are as answered, the others as they were known.
Applied(p) ==
    \A o \in AllObjects :
        cache[KindOf(p)][o] =
            IF o \in Mentioned(got[p][KindOf(p)]) \ job[p].todo
            THEN [payload |-> got[p][KindOf(p)][o], gone |-> FALSE]
            ELSE known[p][o]

\* The lines a process still has to write.
Owed(p) ==
    CASE job[p].pc = "note" -> {[object |-> job[p].object, change |-> job[p].change]}
      [] job[p].pc = "gone" -> {[object |-> o, change |-> "DISAPPEARED"] : o \in job[p].todo}
      [] OTHER -> {}

Endpoint(p) ==
    /\ job[p].pc = "fetch" => changes[job[p].run] = {}
    /\ job[p].pc \in {"apply", "note"} =>
           job[p].todo \subseteq Mentioned(got[p][KindOf(p)]) /\ Applied(p)
    /\ job[p].pc = "note" => job[p].object \in AllObjects /\ job[p].change \in ChangeTypes
    /\ job[p].pc = "gone" => AsAnswered(p, KindOf(p))
    /\ job[p].pc \in {"apply", "note", "gone"} =>
           changes[job[p].run] \cup Owed(p) = Difference(known[p], cache[KindOf(p)])

\* A kind that is reported SUCCEEDED is as answered until the run is over.
Reported(p) == \A k \in Kinds : job[p].result[k] = "SUCCEEDED" => AsAnswered(p, k)

InOrder(p) == HolderWorks(p) /\ Engaged(p) /\ AnswersFit(p) /\ Endpoint(p) /\ Reported(p)

\* The lines of the log belong to a row somebody works on.
LogHasOwner == \A r \in Runs : (\A p \in Importers : job[p].run # r) => changes[r] = {}

\* A run of the server that is not finished is RUNNING and within its limit.
WithinItsLimit ==
    job["server"].pc \in InRun =>
        /\ rows[job["server"].run].status = "RUNNING"
        /\ rows[job["server"].run].age <= MaximumZPASyncDuration

IInv ==
    /\ TypeOK
    /\ \A p \in Importers : InOrder(p)
    /\ LogHasOwner
    /\ \A k \in Kinds : WellFormed(cache[k])
    /\ WithinItsLimit

-----------------------------------------------------------------------------

\* What is mentioned of an answer, and what an endpoint may answer, has its type.
LEMMA FetchesAreAnswers ==
    ASSUME NEW k \in Kinds, NEW a \in Fetches(k)
    PROVE  /\ a \in [AllObjects -> AnyPayload]
           /\ Mentioned(a) \subseteq Objects(k)
           /\ Mentioned(a) \subseteq AllObjects
  BY DEF Fetches, Mentioned, Objects, AnyPayload, AllObjects

LEMMA RestingIsAJob ==
    /\ NoJob \in Jobs
    /\ \A p \in Importers : Resting(p) \in Jobs
  BY DEF NoJob, Resting, Jobs, NotYet, Holding, InRun, InKind, NoRun, Kinds

LEMMA KindIsAKind ==
    ASSUME TypeOK, NEW p \in Importers
    PROVE  /\ job[p] \in Jobs
           /\ KindOf(p) = IF job[p].at = 1 THEN "MODULE" ELSE "MSBA"
           /\ KindOf(p) \in Kinds
<1>1. job[p] \in Jobs
  BY DEF TypeOK
<1>2. job[p].at = 1 \/ job[p].at = 2
  BY <1>1 DEF Jobs
<1> QED
  BY <1>1, <1>2 DEF KindOf, AllZPAKinds, Kinds

\* The end of a run, and the change of one row, keep the types.
LEMMA ReleaseType ==
    ASSUME TypeOK, NEW p \in Importers, Release(p)
    PROVE  /\ holder' \in Importers \cup {Nobody}
           /\ job' \in [Importers -> Jobs]
           /\ got' \in [Importers -> [Kinds -> [AllObjects -> AnyPayload]]]
           /\ known' \in [Importers -> [AllObjects -> CachedObjects]]
           /\ changes' \in [Runs -> SUBSET [object : AllObjects, change : ChangeTypes]]
<1>1. NoAnswer \in [AllObjects -> AnyPayload]
  BY DEF NoAnswer, AnyPayload
<1>2. Unknown \in CachedObjects
  BY DEF Unknown, CachedObjects, AnyPayload
<1> QED
  BY <1>1, <1>2, RestingIsAJob DEF Release, Forgets, TypeOK

\* The difference of one object is one of the change types, or none.
LEMMA ChangeTypesOfObjects ==
    /\ \A b, a : ChangeOf(b, a) \in ChangeTypes \cup {""}
    /\ \A b, x, a : classify(b, x, a) \in ChangeTypes \cup {""}
<1>1. \A b, a : ChangeOf(b, a) \in ChangeTypes \cup {""}
  BY DEF ChangeOf, ChangeTypes
<1>2. \A b, x, a : classify(b, x, a) \in ChangeTypes \cup {""}
  BY DEF classify, ChangeTypes
<1> QED
  BY <1>1, <1>2

\* A process that is done with a kind is one.
KindDone(j, pc, results) == [j EXCEPT !.pc = pc, !.at = 2, !.result = results]
LEMMA KindDoneIsAJob ==
    ASSUME NEW j \in Jobs, NEW pc \in Holding,
           NEW results \in [Kinds -> {"NONE", "SUCCEEDED", "FAILED"}]
    PROVE  KindDone(j, pc, results) \in Jobs
  BY DEF KindDone, Jobs

\* A line more keeps the type of the log.
LEMMA LogType ==
    ASSUME TypeOK, NEW p, NEW o \in AllObjects, NEW c \in ChangeTypes, Log(p, o, c)
    PROVE  changes' \in [Runs -> SUBSET [object : AllObjects, change : ChangeTypes]]
<1>1. [object |-> o, change |-> c] \in [object : AllObjects, change : ChangeTypes]
  OBVIOUS
<1> DEFINE line == [object |-> o, change |-> c]
           Lines == [object : AllObjects, change : ChangeTypes]
<1>2. line \in Lines /\ changes \in [Runs -> SUBSET Lines]
  BY <1>1 DEF TypeOK
<1>3. changes' = [changes EXCEPT ![job[p].run] = changes[job[p].run] \cup {line}]
  BY DEF Log
<1> HIDE DEF line, Lines
<1>4. changes' \in [Runs -> SUBSET Lines]
  BY <1>2, <1>3
<1> QED
  BY <1>4 DEF Lines

\* Every table and every process keeps its type.
LEMMA TypeInvariant == IInv /\ [Next]_vars => TypeOK'
<1> SUFFICES ASSUME TypeOK, \A p \in Importers : Endpoint(p), [Next]_vars PROVE TypeOK'
  BY DEF IInv, InOrder
<1>1. ASSUME NEW p \in Importers, ProcessStarts(p) PROVE TypeOK'
  <2>0. job[p] \in Jobs /\ KindOf(p) \in Kinds
    BY KindIsAKind
  <2>1. [job[p] EXCEPT !.pc = "ready"] \in Jobs
    BY <2>0 DEF Jobs
  <2>2. [status |-> "ENDED", age |-> 0] \in RunRow
    BY DEF RunRow, abandonedRunAge
  <2>3. rows' \in [Runs -> RunRow]
    BY <1>1, <2>2 DEF ProcessStarts, FailAbandonedRuns, TypeOK
  <2> QED
    BY <1>1, <2>1, <2>3 DEF ProcessStarts, TypeOK
<1>2. ASSUME NEW p \in Importers, ProcessStartsUncleared(p) PROVE TypeOK'
  <2>0. job[p] \in Jobs /\ KindOf(p) \in Kinds
    BY KindIsAKind
  <2>1. [job[p] EXCEPT !.pc = "ready"] \in Jobs
    BY <2>0 DEF Jobs
  <2> QED
    BY <1>2, <2>1 DEF ProcessStartsUncleared, TypeOK
<1>3. ASSUME NEW p \in Importers, AcquireSyncLock(p) PROVE TypeOK'
  <2>0. job[p] \in Jobs /\ KindOf(p) \in Kinds
    BY KindIsAKind
  <2>1. [job[p] EXCEPT !.pc = "locked"] \in Jobs
    BY <2>0 DEF Jobs, Holding
  <2> QED
    BY <1>3, <2>1 DEF AcquireSyncLock, TypeOK
<1>4. ASSUME NightGivesUp PROVE TypeOK'
  <2>0. job["night"] \in Jobs
    BY KindIsAKind DEF Importers
  <2>1. [job["night"] EXCEPT !.pc = "down"] \in Jobs
    BY <2>0 DEF Jobs
  <2> QED
    BY <1>4, <2>1 DEF NightGivesUp, TypeOK
<1>5. ASSUME NEW p \in Importers, NEW r \in Runs, StartRun(p, r) PROVE TypeOK'
  <2>0. job[p] \in Jobs /\ KindOf(p) \in Kinds
    BY KindIsAKind
  <2>1. [job[p] EXCEPT !.pc = "fetch", !.run = r] \in Jobs
    BY <2>0 DEF Jobs, Holding, InRun, InKind
  <2>2. [status |-> "RUNNING", age |-> 0] \in RunRow
    BY DEF RunRow, abandonedRunAge
  <2>3. /\ job' = [job EXCEPT ![p] = [job[p] EXCEPT !.pc = "fetch", !.run = r]]
        /\ rows' = [rows EXCEPT ![r] = [status |-> "RUNNING", age |-> 0]]
    BY <1>5 DEF StartRun, TypeOK
  <2> QED
    BY <1>5, <2>1, <2>2, <2>3 DEF StartRun, TypeOK
<1>6. ASSUME NEW p \in Importers, RunReturns(p) PROVE TypeOK'
  BY <1>6, ReleaseType DEF RunReturns, TypeOK
<1>7. ASSUME RunTimesOut PROVE TypeOK'
  BY <1>7, ReleaseType DEF RunTimesOut, TypeOK, Importers
<1>8. ASSUME NEW p \in Importers, Dies(p) PROVE TypeOK'
  <2>1. /\ NoAnswer \in [AllObjects -> AnyPayload]
        /\ Unknown \in CachedObjects
        /\ NoDraft \in Drafts
    BY DEF NoAnswer, AnyPayload, Unknown, CachedObjects, NoDraft, Drafts
  <2>2. holder' \in Importers \cup {Nobody} /\ draft' \in Drafts
    BY <1>8, <2>1 DEF Dies, TypeOK
  <2>3. job' \in [Importers -> Jobs]
    BY <1>8, RestingIsAJob DEF Dies, TypeOK
  <2>4. /\ got' \in [Importers -> [Kinds -> [AllObjects -> AnyPayload]]]
        /\ known' \in [Importers -> [AllObjects -> CachedObjects]]
        /\ changes' \in [Runs -> SUBSET [object : AllObjects, change : ChangeTypes]]
    BY <1>8, <2>1 DEF Dies, Forgets, TypeOK
  <2> QED
    BY <1>8, <2>2, <2>3, <2>4 DEF Dies, TypeOK
<1>9. ASSUME HalfAnHour PROVE TypeOK'
  <2>1. ASSUME NEW r \in Runs PROVE rows'[r] \in RunRow
    BY <1>9, <2>1 DEF HalfAnHour, TypeOK, RunRow, abandonedRunAge
  <2>2. rows' \in [Runs -> RunRow]
    BY <1>9, <2>1 DEF HalfAnHour
  <2> QED
    BY <1>9, <2>2 DEF HalfAnHour, TypeOK
<1>10. ASSUME NEW p \in Importers, Fetch(p) PROVE TypeOK'
  <2>0. job[p] \in Jobs /\ KindOf(p) \in Kinds
    BY KindIsAKind
  <2>1. PICK answer \in Fetches(KindOf(p)) :
           /\ got' = [got EXCEPT ![p][KindOf(p)] = answer]
           /\ job' = [job EXCEPT ![p].pc = "apply", ![p].todo = Mentioned(answer)]
    BY <1>10 DEF Fetch
  <2>2. answer \in [AllObjects -> AnyPayload] /\ Mentioned(answer) \subseteq AllObjects
    BY <2>0, FetchesAreAnswers
  <2>3. [job[p] EXCEPT !.pc = "apply", !.todo = Mentioned(answer)] \in Jobs
    BY <2>0, <2>2 DEF Jobs, Holding, InRun, InKind
  <2>4. job' = [job EXCEPT ![p] = [job[p] EXCEPT !.pc = "apply", !.todo = Mentioned(answer)]]
    BY <2>1 DEF TypeOK
  <2>5. got' \in [Importers -> [Kinds -> [AllObjects -> AnyPayload]]]
    BY <2>1, <2>2, <2>0 DEF TypeOK
  <2>6. known' \in [Importers -> [AllObjects -> CachedObjects]]
    BY <1>10, <2>0 DEF Fetch, TypeOK
  <2> QED
    BY <1>10, <2>3, <2>4, <2>5, <2>6 DEF Fetch, TypeOK
<1>11. ASSUME NEW p \in Importers, NEW o \in AllObjects, Upsert(p, o) PROVE TypeOK'
  <2>0. job[p] \in Jobs /\ KindOf(p) \in Kinds
    BY KindIsAKind
  <2> DEFINE k == KindOf(p)
             c == classify(known[p][o], cache[k][o].payload, got[p][k][o])
             new == [job[p] EXCEPT !.todo = @ \ {o}, !.object = IF c = "" THEN NoPayload ELSE o,
                                   !.change = c, !.pc = IF c = "" THEN "apply" ELSE "note"]
  <2>1. c \in ChangeTypes \cup {""}
    BY ChangeTypesOfObjects
  <2> HIDE DEF c
  <2> DEFINE object == IF c = "" THEN NoPayload ELSE o
             pc == IF c = "" THEN "apply" ELSE "note"
  <2>8. object \in AllObjects \cup {NoPayload} /\ pc \in {"down", "ready"} \cup Holding
    BY DEF Holding, InRun, InKind
  <2> HIDE DEF object, pc
  <2>9. [job[p] EXCEPT !.todo = @ \ {o}, !.object = object, !.change = c, !.pc = pc] \in Jobs
    BY <2>0, <2>1, <2>8 DEF Jobs
  <2>2. new \in Jobs
    BY <2>9 DEF object, pc
  <2>3. job' = [job EXCEPT ![p] = new]
    BY <1>11 DEF Upsert, TypeOK, c
  <2>4. [payload |-> got[p][k][o], gone |-> FALSE] \in CachedObjects
    BY <2>0 DEF TypeOK, CachedObjects
  <2>5. cache' = [cache EXCEPT ![k] = [cache[k] EXCEPT ![o] = [payload |-> got[p][k][o], gone |-> FALSE]]]
    BY <1>11, <2>0 DEF Upsert, TypeOK
  <2>6. cache' \in [Kinds -> [AllObjects -> CachedObjects]]
    BY <2>0, <2>4, <2>5 DEF TypeOK
  <2>7. job' \in [Importers -> Jobs]
    BY <2>2, <2>3 DEF TypeOK
  <2> QED
    BY <1>11, <2>7, <2>6 DEF Upsert, TypeOK
<1>12. ASSUME NEW p \in Importers, RecordChange(p) PROVE TypeOK'
  <2>0. job[p] \in Jobs /\ KindOf(p) \in Kinds
    BY KindIsAKind
  <2>1. [job[p] EXCEPT !.pc = "apply", !.object = NoPayload, !.change = ""] \in Jobs
    BY <2>0 DEF Jobs, Holding, InRun, InKind
  <2>2. job' = [job EXCEPT ![p] = [job[p] EXCEPT !.pc = "apply", !.object = NoPayload, !.change = ""]]
    BY <1>12 DEF RecordChange, TypeOK
  <2>3. job[p].object \in AllObjects /\ job[p].change \in ChangeTypes
    BY <1>12 DEF RecordChange, Endpoint
  <2>4. changes' \in [Runs -> SUBSET [object : AllObjects, change : ChangeTypes]]
    BY <1>12, <2>3, LogType DEF RecordChange
  <2>5. job' \in [Importers -> Jobs]
    BY <2>1, <2>2 DEF TypeOK
  <2> QED
    BY <1>12, <2>4, <2>5 DEF RecordChange, TypeOK
<1>13. ASSUME NEW p \in Importers, RetireMissing(p) PROVE TypeOK'
  <2>0. job[p] \in Jobs /\ KindOf(p) \in Kinds
    BY KindIsAKind
  <2> DEFINE k == KindOf(p)
             retired == {o \in AllObjects : IsPresent(cache[k][o]) /\ o \notin Mentioned(got[p][k])}
  <2>1. [job[p] EXCEPT !.pc = "gone", !.todo = retired] \in Jobs
    BY <2>0 DEF Jobs, Holding, InRun, InKind
  <2>2. job' = [job EXCEPT ![p] = [job[p] EXCEPT !.pc = "gone", !.todo = retired]]
    BY <1>13 DEF RetireMissing, TypeOK
  <2>3. ASSUME NEW o \in AllObjects PROVE [cache[k][o] EXCEPT !.gone = TRUE] \in CachedObjects
    <3>1. cache[k][o] \in CachedObjects
      BY <2>0 DEF TypeOK
    <3> QED
      BY <3>1 DEF CachedObjects
  <2>4. cache' \in [Kinds -> [AllObjects -> CachedObjects]]
    BY <1>13, <2>0, <2>3 DEF RetireMissing, TypeOK
  <2>5. job' \in [Importers -> Jobs]
    BY <2>1, <2>2 DEF TypeOK
  <2> QED
    BY <1>13, <2>4, <2>5 DEF RetireMissing, TypeOK
<1>14. ASSUME NEW p \in Importers, NEW o \in AllObjects, RecordDisappeared(p, o) PROVE TypeOK'
  <2>0. job[p] \in Jobs /\ KindOf(p) \in Kinds
    BY KindIsAKind
  <2>1. [job[p] EXCEPT !.todo = @ \ {o}] \in Jobs
    BY <2>0 DEF Jobs
  <2>2. changes' \in [Runs -> SUBSET [object : AllObjects, change : ChangeTypes]]
    BY <1>14, LogType DEF RecordDisappeared, ChangeTypes
  <2> QED
    BY <1>14, <2>1, <2>2 DEF RecordDisappeared, TypeOK
<1>15. ASSUME NEW p \in Importers, KindFails(p) PROVE TypeOK'
  <2>0. job[p] \in Jobs /\ KindOf(p) \in Kinds
    BY KindIsAKind
  <2> DEFINE new == [job[p] EXCEPT !.pc = "failed", !.todo = {}, !.object = NoPayload, !.change = ""]
  <2>1. new \in Jobs
    BY <2>0 DEF Jobs, Holding, InRun
  <2>2. job' = [job EXCEPT ![p] = new]
    BY <1>15 DEF KindFails, TypeOK
  <2>7. job' \in [Importers -> Jobs]
    BY <2>1, <2>2 DEF TypeOK
  <2> QED
    BY <1>15, <2>7 DEF KindFails, TypeOK
<1>16. ASSUME NEW p \in Importers, NEW result \in {"SUCCEEDED", "FAILED"}, RecordRunKind(p, result)
       PROVE TypeOK'
  <2>0. job[p] \in Jobs /\ KindOf(p) \in Kinds
    BY KindIsAKind
  <2> DEFINE results == [job[p].result EXCEPT ![KindOf(p)] = result]
             pc == IF job[p].at = 1 THEN "fetch" ELSE "finish"
  <2>5. results \in [Kinds -> {"NONE", "SUCCEEDED", "FAILED"}] /\ pc \in Holding
    BY <2>0 DEF Jobs, Holding, InRun, InKind
  <2> HIDE DEF results, pc
  <2>6. KindDone(job[p], pc, results) \in Jobs
    BY <2>0, <2>5, KindDoneIsAJob
  <2>2. job' = [job EXCEPT ![p] = KindDone(job[p], pc, results)]
    BY <1>16 DEF RecordRunKind, KindDone, results, pc
  <2>3. Unknown \in CachedObjects
    BY DEF Unknown, CachedObjects, AnyPayload
  <2>4. /\ known' \in [Importers -> [AllObjects -> CachedObjects]]
        /\ changes' \in [Runs -> SUBSET [object : AllObjects, change : ChangeTypes]]
    BY <1>16, <2>3 DEF RecordRunKind, Forgets, TypeOK
  <2>7. job' \in [Importers -> Jobs]
    BY <2>2, <2>6 DEF TypeOK
  <2> QED
    BY <1>16, <2>7, <2>4 DEF RecordRunKind, TypeOK
<1>17. ASSUME NEW p \in Importers, FinishRun(p) PROVE TypeOK'
  <2>0. job[p] \in Jobs /\ KindOf(p) \in Kinds
    BY KindIsAKind
  <2>1. [job[p] EXCEPT !.pc = "project"] \in Jobs
    BY <2>0 DEF Jobs, Holding
  <2>2. [status |-> "ENDED", age |-> 0] \in RunRow
    BY DEF RunRow, abandonedRunAge
  <2>3. rows' \in [Runs -> RunRow]
    BY <1>17, <2>2 DEF FinishRun, TypeOK
  <2>4. CASE Release(p)
    BY <1>17, <2>3, <2>4, ReleaseType DEF FinishRun, TypeOK
  <2>5. CASE ~Release(p)
    BY <1>17, <2>1, <2>3, <2>5 DEF FinishRun, TypeOK
  <2> QED
    BY <2>4, <2>5
<1>18. ASSUME NEW p \in Importers, RunProjects(p) PROVE TypeOK'
  <2>1. catalogue' \in Catalogues
    BY <1>18 DEF RunProjects, Projected, Supported, Catalogues, TypeOK
  <2> QED
    BY <1>18, <2>1, ReleaseType DEF RunProjects, TypeOK
<1>19. ASSUME ProjectCatalogue PROVE TypeOK'
  <2>1. draft' \in Drafts
    BY <1>19 DEF ProjectCatalogue, Projected, Supported, Catalogues, Drafts, TypeOK
  <2> QED
    BY <1>19, <2>1 DEF ProjectCatalogue, TypeOK
<1>20. ASSUME DeleteStaleModuleOfferings PROVE TypeOK'
  <2>1. catalogue' \in Catalogues
    BY <1>20 DEF DeleteStaleModuleOfferings, Catalogues, Drafts, TypeOK
  <2>2. draft' \in Drafts
    BY <1>20 DEF DeleteStaleModuleOfferings, NoDraft, Drafts
  <2> QED
    BY <1>20, <2>1, <2>2 DEF DeleteStaleModuleOfferings, TypeOK
<1>21. ASSUME HandProjectionFails PROVE TypeOK'
  <2>1. draft' \in Drafts
    BY <1>21 DEF HandProjectionFails, NoDraft, Drafts
  <2> QED
    BY <1>21, <2>1 DEF HandProjectionFails, TypeOK
<1>22. CASE UNCHANGED vars
  BY <1>22 DEF vars, TypeOK
<1> QED
  BY <1>1, <1>2, <1>3, <1>4, <1>5, <1>6, <1>7, <1>8, <1>9, <1>10, <1>11, <1>12, <1>13, <1>14,
     <1>15, <1>16, <1>17, <1>18, <1>19, <1>20, <1>21, <1>22 DEF Next, Works

-----------------------------------------------------------------------------
(* What a step does to the processes. *)

\* One process moves, the other does not.
LEMMA OneMoves ==
    ASSUME TypeOK, NEW p \in Importers, NEW new, job' = [job EXCEPT ![p] = new]
    PROVE  job'[p] = new /\ \A q \in Importers : q # p => job'[q] = job[q]
  BY DEF TypeOK

\* What RetireMissing retires.
RetiredBy(p) ==
    {o \in AllObjects : IsPresent(cache[KindOf(p)][o]) /\ o \notin Mentioned(got[p][KindOf(p)])}

LEMMA AcquireSyncLockMoves ==
    ASSUME TypeOK, NEW p \in Importers, AcquireSyncLock(p)
    PROVE  /\ job'[p].pc = "locked"
           /\ job'[p].run = job[p].run
           /\ job'[p].at = job[p].at
           /\ job'[p].result = job[p].result
           /\ \A q \in Importers : q # p => job'[q] = job[q]
<1> DEFINE new == [job[p] EXCEPT !.pc = "locked"]
<1>1. job' = [job EXCEPT ![p] = new]
  BY DEF AcquireSyncLock
<1>2. job[p] \in Jobs
  BY KindIsAKind
<1>3. /\ new.pc = "locked"
      /\ new.run = job[p].run
      /\ new.at = job[p].at
      /\ new.result = job[p].result
  BY <1>2 DEF Jobs
<1> HIDE DEF new
<1> QED
  BY <1>1, <1>3, OneMoves

LEMMA StartRunMoves ==
    ASSUME TypeOK, NEW p \in Importers, NEW r \in Runs, StartRun(p, r)
    PROVE  /\ job'[p].pc = "fetch"
           /\ job'[p].run = r
           /\ job'[p].at = job[p].at
           /\ job'[p].result = job[p].result
           /\ \A q \in Importers : q # p => job'[q] = job[q]
<1> DEFINE new == [job[p] EXCEPT !.pc = "fetch", !.run = r]
<1>1. job' = [job EXCEPT ![p] = new]
  BY DEF StartRun
<1>2. job[p] \in Jobs
  BY KindIsAKind
<1>3. /\ new.pc = "fetch"
      /\ new.run = r
      /\ new.at = job[p].at
      /\ new.result = job[p].result
  BY <1>2 DEF Jobs
<1> HIDE DEF new
<1> QED
  BY <1>1, <1>3, OneMoves

LEMMA RecordChangeMoves ==
    ASSUME TypeOK, NEW p \in Importers, RecordChange(p)
    PROVE  /\ job'[p].pc = "apply"
           /\ job'[p].run = job[p].run
           /\ job'[p].at = job[p].at
           /\ job'[p].result = job[p].result
           /\ job'[p].todo = job[p].todo
           /\ \A q \in Importers : q # p => job'[q] = job[q]
<1> DEFINE new == [job[p] EXCEPT !.pc = "apply", !.object = NoPayload, !.change = ""]
<1>1. job' = [job EXCEPT ![p] = new]
  BY DEF RecordChange
<1>2. job[p] \in Jobs
  BY KindIsAKind
<1>3. /\ new.pc = "apply"
      /\ new.run = job[p].run
      /\ new.at = job[p].at
      /\ new.result = job[p].result
      /\ new.todo = job[p].todo
  BY <1>2 DEF Jobs
<1> HIDE DEF new
<1> QED
  BY <1>1, <1>3, OneMoves

LEMMA RecordDisappearedMoves ==
    ASSUME TypeOK, NEW p \in Importers, NEW o \in AllObjects, RecordDisappeared(p, o)
    PROVE  /\ job'[p].pc = job[p].pc
           /\ job'[p].run = job[p].run
           /\ job'[p].at = job[p].at
           /\ job'[p].result = job[p].result
           /\ job'[p].todo = job[p].todo \ {o}
           /\ \A q \in Importers : q # p => job'[q] = job[q]
<1> DEFINE new == [job[p] EXCEPT !.todo = @ \ {o}]
<1>1. job' = [job EXCEPT ![p] = new]
  BY DEF RecordDisappeared
<1>2. job[p] \in Jobs
  BY KindIsAKind
<1>3. /\ new.pc = job[p].pc
      /\ new.run = job[p].run
      /\ new.at = job[p].at
      /\ new.result = job[p].result
      /\ new.todo = job[p].todo \ {o}
  BY <1>2 DEF Jobs
<1> HIDE DEF new
<1> QED
  BY <1>1, <1>3, OneMoves

LEMMA KindFailsMoves ==
    ASSUME TypeOK, NEW p \in Importers, KindFails(p)
    PROVE  /\ job'[p].pc = "failed"
           /\ job'[p].run = job[p].run
           /\ job'[p].at = job[p].at
           /\ job'[p].result = job[p].result
           /\ \A q \in Importers : q # p => job'[q] = job[q]
<1> DEFINE new == [job[p] EXCEPT !.pc = "failed", !.todo = {}, !.object = NoPayload, !.change = ""]
<1>1. job' = [job EXCEPT ![p] = new]
  BY DEF KindFails
<1>2. job[p] \in Jobs
  BY KindIsAKind
<1>3. /\ new.pc = "failed"
      /\ new.run = job[p].run
      /\ new.at = job[p].at
      /\ new.result = job[p].result
  BY <1>2 DEF Jobs
<1> HIDE DEF new
<1> QED
  BY <1>1, <1>3, OneMoves

LEMMA RetireMissingMoves ==
    ASSUME TypeOK, NEW p \in Importers, RetireMissing(p)
    PROVE  /\ job'[p].pc = "gone"
           /\ job'[p].run = job[p].run
           /\ job'[p].at = job[p].at
           /\ job'[p].result = job[p].result
           /\ job'[p].todo = RetiredBy(p)
           /\ \A q \in Importers : q # p => job'[q] = job[q]
<1> DEFINE new == [job[p] EXCEPT !.pc = "gone", !.todo = RetiredBy(p)]
<1>1. job' = [job EXCEPT ![p] = new]
  BY DEF RetireMissing, RetiredBy
<1>2. job[p] \in Jobs
  BY KindIsAKind
<1>3. /\ new.pc = "gone"
      /\ new.run = job[p].run
      /\ new.at = job[p].at
      /\ new.result = job[p].result
      /\ new.todo = RetiredBy(p)
  BY <1>2 DEF Jobs
<1> HIDE DEF new
<1> QED
  BY <1>1, <1>3, OneMoves

-----------------------------------------------------------------------------
(* What the others do not lose by a step. *)

\* Two processes are never both past the lock.
LEMMA OneHolder ==
    ASSUME IInv, NEW p \in Importers, NEW q \in Importers, p # q, job[p].pc \in Holding
    PROVE  /\ holder = p
           /\ job[q].pc \notin Holding
           /\ job[q].run \notin Runs
  BY DEF IInv, InOrder, HolderWorks, Engaged

\* A process that is not past the lock stays in order as long as it is left alone.
LEMMA Bystander ==
    ASSUME IInv, NEW q \in Importers, job[q].pc \notin Holding,
           job'[q] = job[q], known'[q] = known[q], got'[q] = got[q]
    PROVE  InOrder(q)'
<1>1. HolderWorks(q)' /\ Engaged(q)' /\ AnswersFit(q)'
  BY DEF IInv, InOrder, HolderWorks, Engaged, AnswersFit, WellFormed
<1>2. Endpoint(q)'
  BY DEF Endpoint, Holding, InRun, InKind
<1>3. job[q] \in Jobs
  BY KindIsAKind DEF IInv
<1>4. job[q].pc \in {"down", "ready"}
  BY <1>3 DEF Jobs
<1>5. \A k \in Kinds : job[q].result[k] = "NONE"
  BY <1>4 DEF IInv, InOrder, Engaged, NotYet
<1>6. Reported(q)'
  BY <1>5 DEF Reported
<1> QED
  BY <1>1, <1>2, <1>6 DEF InOrder

\* A process stays in order as long as nobody writes what it reads.
LEMMA Undisturbed ==
    ASSUME IInv, NEW q \in Importers,
           job'[q] = job[q], known'[q] = known[q], got'[q] = got[q],
           cache' = cache, changes' = changes,
           holder' = holder \/ job[q].pc \notin Holding
    PROVE  InOrder(q)'
<1>1. InOrder(q)
  BY DEF IInv
<1>2. HolderWorks(q)' /\ Engaged(q)'
  BY <1>1 DEF InOrder, HolderWorks, Engaged
<1>3. AnswersFit(q)'
  BY <1>1 DEF InOrder, AnswersFit, WellFormed
<1>4. Endpoint(q)'
  BY <1>1 DEF InOrder, Endpoint, Applied, AsAnswered, Owed, KindOf
<1>5. Reported(q)'
  BY <1>1 DEF InOrder, Reported, AsAnswered
<1> QED
  BY <1>2, <1>3, <1>4, <1>5 DEF InOrder

\* A process without a run is in order.
LEMMA WithoutRun ==
    ASSUME NEW p \in Importers,
           job'[p].pc \in {"down", "ready"}, job'[p].run = NoRun, job'[p].at = 1,
           job'[p].result = NotYet, WellFormed(known[p])',
           \A k \in Kinds : Mentioned(got'[p][k]) \subseteq Objects(k)
    PROVE  InOrder(p)'
<1>1. job'[p].pc \notin Holding
  BY DEF Holding, InRun, InKind
<1>2. HolderWorks(p)' /\ Engaged(p)' /\ AnswersFit(p)'
  BY <1>1 DEF HolderWorks, Engaged, AnswersFit, Holding, InRun, InKind, Runs, NoRun
<1>3. Endpoint(p)' /\ Reported(p)'
  BY <1>1 DEF Endpoint, Reported, Holding, InRun, InKind, NotYet
<1> QED
  BY <1>2, <1>3 DEF InOrder

\* Where a process begins.
LEMMA NoJobFields ==
    NoJob.pc = "down" /\ NoJob.run = NoRun /\ NoJob.at = 1 /\ NoJob.result = NotYet
  BY DEF NoJob

\* What is nowhere mentioned is about any kind, and nothing known is well formed.
LEMMA NothingFits ==
    /\ WellFormed([o \in AllObjects |-> Unknown])
    /\ \A k \in Kinds : Mentioned(NoAnswer) \subseteq Objects(k)
  BY DEF WellFormed, Unknown, Mentioned, NoAnswer

\* A run that is over leaves its process, and the other, in order.
LEMMA ReleaseInOrder ==
    ASSUME IInv, NEW p \in Importers, job[p].pc \in Holding, Release(p), cache' = cache
    PROVE  /\ \A q \in Importers : InOrder(q)'
           /\ LogHasOwner'
           /\ job'[p].pc \notin InRun
<1>1. /\ job'[p] = Resting(p)
      /\ known'[p] = [o \in AllObjects |-> Unknown]
      /\ got'[p] = [k \in Kinds |-> NoAnswer]
      /\ changes' = [r \in Runs |-> IF r = job[p].run THEN {} ELSE changes[r]]
      /\ \A q \in Importers : q # p =>
            job'[q] = job[q] /\ known'[q] = known[q] /\ got'[q] = got[q]
  BY DEF Release, Forgets, IInv, TypeOK
<1>2. /\ job'[p].pc \in {"down", "ready"} /\ job'[p].run = NoRun
      /\ job'[p].at = 1 /\ job'[p].result = NotYet
  BY <1>1 DEF Resting, NoJob
<1>3. InOrder(p)'
  BY <1>1, <1>2, NothingFits, WithoutRun DEF WellFormed
<1>4. ASSUME NEW q \in Importers, q # p PROVE InOrder(q)'
  BY <1>1, <1>4, OneHolder, Bystander
<1>5. LogHasOwner'
  <2> SUFFICES ASSUME NEW r \in Runs, \A q \in Importers : job'[q].run # r
               PROVE  changes'[r] = {}
    BY DEF LogHasOwner
  <2>1. CASE r = job[p].run
    BY <1>1, <2>1
  <2>2. CASE r # job[p].run
    <3>1. \A q \in Importers : job[q].run # r
      BY <1>1, <2>2
    <3> QED
      BY <1>1, <2>2, <3>1 DEF IInv, LogHasOwner
  <2> QED
    BY <2>1, <2>2
<1> QED
  BY <1>2, <1>3, <1>4, <1>5 DEF InRun, InKind

\* The log keeps its owners as long as no process drops its row, and only rows
\* somebody has are written.
LEMMA OwnersStay ==
    ASSUME IInv,
           \A q \in Importers : job'[q].run = job[q].run \/ job[q].run = NoRun,
           \A r \in Runs : changes'[r] = changes[r] \/ changes'[r] = {}
                              \/ \E q \in Importers : job'[q].run = r
    PROVE  LogHasOwner'
<1> SUFFICES ASSUME NEW r \in Runs, \A q \in Importers : job'[q].run # r
             PROVE  changes'[r] = {}
  BY DEF LogHasOwner
<1>1. \A q \in Importers : job[q].run # r
  BY DEF Runs, NoRun
<1> QED
  BY <1>1 DEF IInv, LogHasOwner

-----------------------------------------------------------------------------
(* Differences. *)

\* Between equal objects there is no change, and no difference.
LEMMA NoChange == \A b : ChangeOf(b, b) = ""
  BY DEF ChangeOf

LEMMA NoDifference ==
    ASSUME NEW objects
    PROVE  Difference(objects, objects) = {}
  BY NoChange DEF Difference, ChangeTypes

\* What syncKind says of an upsert is what it changed, if the cache has not moved
\* since the state of the kind was read.
LEMMA ClassifyIsTheChange ==
    ASSUME NEW b \in CachedObjects, b.payload = NoPayload => ~b.gone,
           NEW answer, answer # NoPayload
    PROVE  classify(b, b.payload, answer) = ChangeOf(b, [payload |-> answer, gone |-> FALSE])
<1>1. IsPresent([payload |-> answer, gone |-> FALSE])
  BY DEF IsPresent
<1>2. b.gone \in BOOLEAN
  BY DEF CachedObjects
<1>3. CASE b.payload = NoPayload
  BY <1>1, <1>3 DEF classify, ChangeOf, IsPresent
<1>4. CASE b.payload # NoPayload /\ b.gone
  BY <1>1, <1>4 DEF classify, ChangeOf, IsPresent
<1>5. CASE b.payload # NoPayload /\ ~b.gone
  BY <1>1, <1>5 DEF classify, ChangeOf, IsPresent
<1> QED
  BY <1>2, <1>3, <1>4, <1>5

\* The line of one object, if there is one, and objects that differ nowhere else.
LineOf(o, c) == IF c = "" THEN {} ELSE {[object |-> o, change |-> c]}
SameBut(after, later, o) == \A x \in AllObjects : x # o => later[x] = after[x]

\* One object more is different: its line is one more line.
LEMMA OneObjectDiffers ==
    ASSUME NEW before, NEW after, NEW later, NEW o \in AllObjects,
           SameBut(after, later, o),
           after[o] = before[o]
    PROVE  Difference(before, later) =
               Difference(before, after) \cup LineOf(o, ChangeOf(before[o], later[o]))
<1> DEFINE Lines == [object : AllObjects, change : ChangeTypes]
           c == ChangeOf(before[o], later[o])
           line == [object |-> o, change |-> c]
<1>1. ChangeOf(before[o], after[o]) = ""
  BY NoChange
<1>2. c \in ChangeTypes \cup {""}
  BY ChangeTypesOfObjects
<1>3. "" \notin ChangeTypes
  BY DEF ChangeTypes
<1> HIDE DEF c
<1>4. ASSUME NEW d \in Lines
      PROVE  d \in Difference(before, later) <=>
                 d \in Difference(before, after) \/ d = line
  <2>1. CASE d.object = o
    <3>1. d \notin Difference(before, after)
      BY <2>1, <1>1, <1>3 DEF Difference
    <3>2. d = line <=> d.change = c
      BY <2>1
    <3> QED
      BY <2>1, <3>1, <3>2 DEF Difference, c
  <2>2. CASE d.object # o
    BY <2>2 DEF Difference, SameBut
  <2> QED
    BY <2>1, <2>2
<1>5. Difference(before, later) \subseteq Lines /\ Difference(before, after) \subseteq Lines
  BY DEF Difference
<1>6. IF c = "" THEN line \notin Lines ELSE line \in Lines
  BY <1>2, <1>3
<1>7. LineOf(o, c) = IF c = "" THEN {} ELSE {line}
  BY DEF LineOf
<1> HIDE DEF Lines, line
<1>8. Difference(before, later) = Difference(before, after) \cup LineOf(o, c)
  BY <1>4, <1>5, <1>6, <1>7
<1> QED
  BY <1>8 DEF c

-----------------------------------------------------------------------------
(* One lemma per step: every process stays in order, and the log has owners. *)

LEMMA ProcessStartsInOrder ==
    ASSUME IInv, NEW p \in Importers, job[p].pc \in {"down", "ready"},
           NEW pc \in {"down", "ready"}, job' = [job EXCEPT ![p].pc = pc],
           UNCHANGED <<cache, changes, holder, got, known>>
    PROVE  (\A q \in Importers : InOrder(q)') /\ LogHasOwner'
<1>0. job \in [Importers -> Jobs] /\ InOrder(p)
  BY DEF IInv, TypeOK
<1>1. /\ job'[p].pc = pc /\ job'[p].run = job[p].run /\ job'[p].at = job[p].at
      /\ job'[p].result = job[p].result
      /\ \A q \in Importers : q # p => job'[q] = job[q]
  BY <1>0 DEF Jobs
<1>2. job[p].pc \notin Holding /\ job[p].at = 1 /\ job[p].result = NotYet /\ job[p].run \notin Runs
  BY <1>0 DEF InOrder, Engaged, Holding, InRun, InKind
<1>3. job[p].run = NoRun
  BY <1>0, <1>2 DEF Jobs
<1>4. InOrder(p)'
  <2>1. WellFormed(known[p])' /\ \A k \in Kinds : Mentioned(got'[p][k]) \subseteq Objects(k)
    BY <1>0 DEF InOrder, AnswersFit, WellFormed
  <2> QED
    BY <2>1, <1>1, <1>2, <1>3, WithoutRun
<1>5. ASSUME NEW q \in Importers, q # p PROVE InOrder(q)'
  BY <1>1, <1>5, Undisturbed
<1>6. LogHasOwner'
  BY <1>1, OwnersStay
<1> QED
  BY <1>4, <1>5, <1>6

LEMMA AcquireSyncLockInOrder ==
    ASSUME IInv, NEW p \in Importers, AcquireSyncLock(p)
    PROVE  (\A q \in Importers : InOrder(q)') /\ LogHasOwner'
<1>0. job \in [Importers -> Jobs] /\ InOrder(p)
  BY DEF IInv, TypeOK
<1>1. /\ job'[p].pc = "locked" /\ job'[p].run = job[p].run /\ job'[p].at = job[p].at
      /\ job'[p].result = job[p].result
      /\ \A q \in Importers : q # p => job'[q] = job[q]
  BY AcquireSyncLockMoves DEF IInv
<1>2. /\ job[p].at = 1 /\ job[p].result = NotYet /\ job[p].run \notin Runs
      /\ holder' = p /\ UNCHANGED <<cache, changes, got, known>>
  BY <1>0 DEF AcquireSyncLock, InOrder, Engaged, Holding, InRun, InKind
<1>3. \A q \in Importers : job[q].pc \notin Holding
  BY DEF AcquireSyncLock, IInv, InOrder, HolderWorks, Importers, Nobody
<1>4. HolderWorks(p)' /\ Engaged(p)'
  BY <1>1, <1>2 DEF HolderWorks, Engaged, Holding, InRun, InKind
<1>5. AnswersFit(p)'
  BY <1>0, <1>2 DEF InOrder, AnswersFit, WellFormed
<1>6. Endpoint(p)' /\ Reported(p)'
  BY <1>1, <1>2 DEF Endpoint, Reported, NotYet
<1>7. ASSUME NEW q \in Importers, q # p PROVE InOrder(q)'
  BY <1>1, <1>2, <1>3, <1>7, Bystander
<1>8. LogHasOwner'
  BY <1>1, <1>2, OwnersStay
<1> QED
  BY <1>4, <1>5, <1>6, <1>7, <1>8 DEF InOrder

LEMMA StartRunInOrder ==
    ASSUME IInv, NEW p \in Importers, NEW r \in Runs, StartRun(p, r)
    PROVE  (\A q \in Importers : InOrder(q)') /\ LogHasOwner'
<1>0. job \in [Importers -> Jobs] /\ InOrder(p) /\ job[p].pc = "locked"
  BY DEF IInv, TypeOK, StartRun
<1>1. /\ job'[p].pc = "fetch" /\ job'[p].run = r /\ job'[p].at = job[p].at
      /\ job'[p].result = job[p].result
      /\ \A q \in Importers : q # p => job'[q] = job[q]
  BY StartRunMoves DEF IInv
<1>2. /\ job[p].pc \in Holding
      /\ job[p].at = 1 /\ job[p].result = NotYet /\ job[p].run \notin Runs
      /\ UNCHANGED <<cache, changes, holder, got, known>>
  BY <1>0 DEF StartRun, InOrder, Engaged, Holding, InRun, InKind
<1>3. changes[r] = {}
  BY DEF StartRun, Free, IInv, LogHasOwner
<1>4. HolderWorks(p)' /\ Engaged(p)'
  BY <1>0, <1>1, <1>2 DEF InOrder, HolderWorks, Engaged, Holding, InRun, InKind, NotYet, Kinds
<1>5. AnswersFit(p)'
  BY <1>0, <1>2 DEF InOrder, AnswersFit, WellFormed
<1>6. Endpoint(p)' /\ Reported(p)'
  BY <1>1, <1>2, <1>3 DEF Endpoint, Reported, NotYet
<1>7. ASSUME NEW q \in Importers, q # p PROVE InOrder(q)'
  BY <1>1, <1>2, <1>7, OneHolder, Bystander
<1>8. LogHasOwner'
  <2>1. job[p].run = NoRun
    BY <1>0, <1>2 DEF Jobs
  <2> QED
    BY <1>1, <1>2, <2>1, OwnersStay
<1> QED
  BY <1>4, <1>5, <1>6, <1>7, <1>8 DEF InOrder

LEMMA DiesInOrder ==
    ASSUME IInv, NEW p \in Importers, Dies(p)
    PROVE  (\A q \in Importers : InOrder(q)') /\ LogHasOwner'
<1>1. /\ job'[p] = NoJob
      /\ known'[p] = [o \in AllObjects |-> Unknown]
      /\ got'[p] = [k \in Kinds |-> NoAnswer]
      /\ changes' = [r \in Runs |-> IF r = job[p].run THEN {} ELSE changes[r]]
      /\ \A q \in Importers : q # p =>
            job'[q] = job[q] /\ known'[q] = known[q] /\ got'[q] = got[q]
      /\ cache' = cache
      /\ holder' = IF holder = p THEN Nobody ELSE holder
  BY DEF Dies, Forgets, IInv, TypeOK
<1>2. InOrder(p)'
  <2>0. job'[p] = NoJob
    BY <1>1
  <2> QED
    BY <1>1, <2>0, NoJobFields, NothingFits, WithoutRun DEF WellFormed
<1>3. ASSUME NEW q \in Importers, q # p PROVE InOrder(q)'
  <2>1. CASE job[q].pc \notin Holding
    BY <1>1, <1>3, <2>1, Bystander
  <2>2. CASE job[q].pc \in Holding
    <3>1. job[p].run \notin Runs /\ holder = q
      BY <1>3, <2>2, OneHolder
    <3>2. changes' = changes
      BY <1>1, <3>1 DEF IInv, TypeOK
    <3> QED
      BY <1>1, <1>3, <3>1, <3>2, Undisturbed
  <2> QED
    BY <2>1, <2>2
<1>4. LogHasOwner'
  <2> SUFFICES ASSUME NEW r \in Runs, \A q \in Importers : job'[q].run # r
               PROVE  changes'[r] = {}
    BY DEF LogHasOwner
  <2>1. CASE r = job[p].run
    BY <1>1, <2>1
  <2>2. CASE r # job[p].run
    <3>1. \A q \in Importers : job[q].run # r
      BY <1>1, <2>2
    <3> QED
      BY <1>1, <2>2, <3>1 DEF IInv, LogHasOwner
  <2> QED
    BY <2>1, <2>2
<1> QED
  BY <1>2, <1>3, <1>4

LEMMA FetchInOrder ==
    ASSUME IInv, NEW p \in Importers, Fetch(p)
    PROVE  (\A q \in Importers : InOrder(q)') /\ LogHasOwner'
<1> DEFINE k == KindOf(p)
<1>0. /\ job \in [Importers -> Jobs] /\ InOrder(p) /\ job[p].pc = "fetch"
      /\ k \in Kinds /\ k = IF job[p].at = 1 THEN "MODULE" ELSE "MSBA"
      /\ job[p].at \in {1, 2}
  BY KindIsAKind DEF IInv, TypeOK, Fetch, Jobs
<1>1. PICK answer \in Fetches(k) :
         /\ got' = [got EXCEPT ![p][k] = answer]
         /\ job' = [job EXCEPT ![p].pc = "apply", ![p].todo = Mentioned(answer)]
  BY DEF Fetch
<1>2. /\ job'[p].pc = "apply" /\ job'[p].run = job[p].run /\ job'[p].at = job[p].at
      /\ job'[p].result = job[p].result /\ job'[p].todo = Mentioned(answer)
      /\ \A q \in Importers : q # p => job'[q] = job[q]
  BY <1>0, <1>1 DEF Jobs
<1>3. /\ got'[p][k] = answer
      /\ \A j \in Kinds : j # k => got'[p][j] = got[p][j]
      /\ known'[p] = cache[k]
      /\ \A q \in Importers : q # p => got'[q] = got[q] /\ known'[q] = known[q]
      /\ UNCHANGED <<cache, changes, holder>>
  BY <1>0, <1>1 DEF Fetch, IInv, TypeOK
<1>4. job[p].pc \in Holding /\ KindOf(p)' = k
  BY <1>0, <1>2 DEF Holding, InRun, InKind, KindOf
<1> HIDE DEF k
<1>5. HolderWorks(p)' /\ Engaged(p)'
  BY <1>0, <1>2, <1>3 DEF InOrder, HolderWorks, Engaged, Holding, InRun, InKind
<1>6. AnswersFit(p)'
  <2>1. WellFormed(cache[k])
    BY <1>0 DEF IInv
  <2>2. Mentioned(answer) \subseteq Objects(k)
    BY <1>0, FetchesAreAnswers
  <2> QED
    BY <1>0, <1>3, <2>1, <2>2 DEF InOrder, AnswersFit, WellFormed
<1>7. Endpoint(p)'
  <2>1. Applied(p)'
    BY <1>2, <1>3, <1>4 DEF Applied
  <2>2. changes[job[p].run] = {}
    BY <1>0 DEF InOrder, Endpoint
  <2>3. Difference(known'[p], cache'[k]) = {}
    BY <1>3, NoDifference
  <2>4. Owed(p)' = {}
    BY <1>2 DEF Owed
  <2> QED
    BY <1>2, <1>3, <1>4, <2>1, <2>2, <2>3, <2>4 DEF Endpoint
<1>8. Reported(p)'
  <2> SUFFICES ASSUME NEW j \in Kinds, job[p].result[j] = "SUCCEEDED" PROVE AsAnswered(p, j)'
    BY <1>2 DEF Reported
  <2>1. j # k
    BY <1>0 DEF InOrder, Engaged, InKind, NotYet
  <2>2. AsAnswered(p, j)
    BY <1>0 DEF InOrder, Reported
  <2> QED
    BY <1>3, <2>1, <2>2 DEF AsAnswered
<1>9. ASSUME NEW q \in Importers, q # p PROVE InOrder(q)'
  BY <1>2, <1>3, <1>4, <1>9, OneHolder, Bystander
<1>10. LogHasOwner'
  BY <1>2, <1>3, OwnersStay
<1> QED
  BY <1>5, <1>6, <1>7, <1>8, <1>9, <1>10 DEF InOrder

LEMMA UpsertInOrder ==
    ASSUME IInv, NEW p \in Importers, NEW o \in AllObjects, Upsert(p, o)
    PROVE  /\ \A q \in Importers : InOrder(q)'
           /\ LogHasOwner'
           /\ \A j \in Kinds : WellFormed(cache[j])'
<1> DEFINE k == KindOf(p)
           answered == [payload |-> got[p][k][o], gone |-> FALSE]
           change == classify(known[p][o], cache[k][o].payload, got[p][k][o])
<1>0. /\ job \in [Importers -> Jobs] /\ job[p].pc = "apply" /\ o \in job[p].todo
      /\ k \in Kinds /\ k = IF job[p].at = 1 THEN "MODULE" ELSE "MSBA"
      /\ InOrder(p) /\ Endpoint(p) /\ Applied(p) /\ job[p].todo \subseteq Mentioned(got[p][k])
  BY KindIsAKind DEF IInv, TypeOK, Upsert, InOrder, Endpoint
<1> DEFINE new == [job[p] EXCEPT !.todo = @ \ {o}, !.object = IF change = "" THEN NoPayload ELSE o,
                                 !.change = change, !.pc = IF change = "" THEN "apply" ELSE "note"]
<1> HIDE DEF change
<1>13. job' = [job EXCEPT ![p] = new]
  BY <1>0 DEF Upsert, change
<1>14. job[p] \in Jobs
  BY KindIsAKind DEF IInv
<1>1. /\ job'[p].pc = IF change = "" THEN "apply" ELSE "note"
      /\ job'[p].run = job[p].run /\ job'[p].at = job[p].at /\ job'[p].result = job[p].result
      /\ job'[p].todo = job[p].todo \ {o}
      /\ job'[p].object = IF change = "" THEN NoPayload ELSE o
      /\ job'[p].change = change
      /\ \A q \in Importers : q # p => job'[q] = job[q]
  BY <1>0, <1>13, <1>14 DEF Jobs
<1>2. /\ cache'[k][o] = answered
      /\ \A x \in AllObjects : x # o => cache'[k][x] = cache[k][x]
      /\ \A j \in Kinds : j # k => cache'[j] = cache[j]
      /\ UNCHANGED <<changes, holder, got, known>>
  BY <1>0 DEF Upsert, IInv, TypeOK
<1>3. job[p].pc \in Holding /\ KindOf(p)' = k
  BY <1>0, <1>1 DEF Holding, InRun, InKind, KindOf
<1>4. cache[k][o] = known[p][o] /\ got[p][k][o] # NoPayload
  BY <1>0 DEF Applied, Mentioned
<1>5. change = ChangeOf(known[p][o], answered)
  <2>1. known[p][o] \in CachedObjects
    BY DEF IInv, TypeOK
  <2>2. known[p][o].payload = NoPayload => ~known[p][o].gone
    BY <1>0 DEF InOrder, AnswersFit, WellFormed
  <2> QED
    BY <1>4, <2>1, <2>2, ClassifyIsTheChange DEF change
<1>6. change \in ChangeTypes \cup {""}
  BY ChangeTypesOfObjects DEF change
<1> HIDE DEF k, answered
<1>7. HolderWorks(p)' /\ Engaged(p)' /\ AnswersFit(p)'
  <2>1. HolderWorks(p)'
    BY <1>0, <1>1, <1>2, <1>3 DEF InOrder, HolderWorks
  <2>2. Engaged(p)'
    BY <1>0, <1>1 DEF InOrder, Engaged, Holding, InRun, InKind
  <2>3. AnswersFit(p)'
    BY <1>0, <1>2 DEF InOrder, AnswersFit, WellFormed
  <2> QED
    BY <2>1, <2>2, <2>3
<1>8. Endpoint(p)'
  <2>1. Applied(p)'
    <3> SUFFICES ASSUME NEW x \in AllObjects
                 PROVE  cache'[k][x] = IF x \in Mentioned(got[p][k]) \ job'[p].todo
                                       THEN [payload |-> got[p][k][x], gone |-> FALSE]
                                       ELSE known[p][x]
      BY <1>2, <1>3 DEF Applied
    <3>1. CASE x = o
      BY <1>0, <1>1, <1>2, <3>1 DEF answered
    <3>2. CASE x # o
      BY <1>0, <1>1, <1>2, <3>2 DEF Applied, k
    <3> QED
      BY <3>1, <3>2
  <2>2. job'[p].todo \subseteq Mentioned(got[p][k])
    BY <1>0, <1>1
  <2>3. changes[job[p].run] = Difference(known[p], cache[k])
    BY <1>0 DEF Endpoint, Owed, k
  <2>4. Owed(p)' = LineOf(o, change)
    BY <1>1 DEF Owed, LineOf
  <2> DEFINE before == known[p]
             after == cache[k]
             later == cache'[k]
  <2>5. /\ change = ChangeOf(before[o], later[o])
        /\ after[o] = before[o]
        /\ SameBut(after, later, o)
    BY <1>2, <1>4, <1>5 DEF SameBut
  <2> HIDE DEF before, after, later
  <2>6. Difference(before, later) = Difference(before, after) \cup LineOf(o, change)
    BY <2>5, OneObjectDiffers
  <2>8. changes'[job'[p].run] \cup Owed(p)' = Difference(known'[p], cache'[k])
    BY <1>1, <1>2, <2>3, <2>4, <2>6 DEF before, after, later
  <2>9. job'[p].pc = "note" => job'[p].object \in AllObjects /\ job'[p].change \in ChangeTypes
    BY <1>1, <1>6
  <2> QED
    BY <1>1, <1>2, <1>3, <2>1, <2>2, <2>8, <2>9 DEF Endpoint
<1>9. Reported(p)'
  <2> SUFFICES ASSUME NEW j \in Kinds, job[p].result[j] = "SUCCEEDED" PROVE AsAnswered(p, j)'
    BY <1>1 DEF Reported
  <2>1. j # k
    BY <1>0 DEF InOrder, Engaged, InKind, NotYet
  <2>2. AsAnswered(p, j)
    BY <1>0 DEF InOrder, Reported
  <2> QED
    BY <1>2, <2>1, <2>2 DEF AsAnswered
<1>10. ASSUME NEW q \in Importers, q # p PROVE InOrder(q)'
  BY <1>1, <1>2, <1>3, <1>10, OneHolder, Bystander
<1>11. LogHasOwner'
  BY <1>1, <1>2, OwnersStay
<1>12. ASSUME NEW j \in Kinds PROVE WellFormed(cache[j])'
  <2>1. WellFormed(cache[j])
    BY DEF IInv
  <2> QED
    BY <1>2, <2>1 DEF WellFormed, answered
<1> QED
  BY <1>7, <1>8, <1>9, <1>10, <1>11, <1>12 DEF InOrder

\* A step of p that leaves the cache, the answers and what is known alone, and its
\* row and its results too, only has the endpoint it is at to keep in order.
LEMMA StepInOrder ==
    ASSUME IInv, NEW p \in Importers, job[p].pc \in InRun,
           job'[p].pc \in InKind \cup {"failed"}, job[p].pc \in InKind,
           job'[p].run = job[p].run, job'[p].at = job[p].at, job'[p].result = job[p].result,
           \A q \in Importers : q # p => job'[q] = job[q],
           \A r \in Runs : r # job[p].run => changes'[r] = changes[r],
           UNCHANGED <<cache, holder, got, known>>,
           Endpoint(p)'
    PROVE  (\A q \in Importers : InOrder(q)') /\ LogHasOwner'
<1>0. InOrder(p) /\ job[p].pc \in Holding /\ job[p].run \in Runs
  BY DEF IInv, InOrder, Engaged, Holding, InRun, InKind
<1>1. HolderWorks(p)' /\ Engaged(p)'
  BY <1>0 DEF InOrder, HolderWorks, Engaged, Holding, InRun, InKind
<1>2. AnswersFit(p)' /\ Reported(p)'
  BY <1>0 DEF InOrder, AnswersFit, WellFormed, Reported, AsAnswered
<1>3. ASSUME NEW q \in Importers, q # p PROVE InOrder(q)'
  BY <1>0, <1>3, OneHolder, Bystander
<1>4. LogHasOwner'
  BY <1>0, OwnersStay
<1> QED
  BY <1>1, <1>2, <1>3, <1>4 DEF InOrder

\* What Log does to the log.
LEMMA LogAdds ==
    ASSUME IInv, NEW p \in Importers, job[p].run \in Runs, NEW o, NEW c, Log(p, o, c)
    PROVE  /\ changes'[job[p].run] = changes[job[p].run] \cup {[object |-> o, change |-> c]}
           /\ \A r \in Runs : r # job[p].run => changes'[r] = changes[r]
  BY DEF Log, IInv, TypeOK

LEMMA RecordChangeInOrder ==
    ASSUME IInv, NEW p \in Importers, RecordChange(p)
    PROVE  (\A q \in Importers : InOrder(q)') /\ LogHasOwner'
<1>0. job \in [Importers -> Jobs] /\ Endpoint(p) /\ job[p].pc = "note" /\ job[p].run \in Runs
  BY DEF IInv, TypeOK, InOrder, Engaged, RecordChange, Holding, InRun, InKind
<1>1. /\ job'[p].pc = "apply" /\ job'[p].run = job[p].run /\ job'[p].at = job[p].at
      /\ job'[p].result = job[p].result /\ job'[p].todo = job[p].todo
      /\ \A q \in Importers : q # p => job'[q] = job[q]
      /\ UNCHANGED <<cache, holder, got, known>>
  BY RecordChangeMoves DEF IInv, RecordChange
<1>2. /\ changes'[job[p].run] = changes[job[p].run] \cup Owed(p)
      /\ \A r \in Runs : r # job[p].run => changes'[r] = changes[r]
  <2>1. Owed(p) = {[object |-> job[p].object, change |-> job[p].change]}
    BY <1>0 DEF Owed
  <2>2. Log(p, job[p].object, job[p].change)
    BY DEF RecordChange
  <2> QED
    BY <1>0, <2>1, <2>2, LogAdds
<1>3. KindOf(p)' = KindOf(p)
  BY <1>1 DEF KindOf
<1>4. Applied(p)'
  BY <1>0, <1>1, <1>3 DEF Endpoint, Applied
<1>5. Owed(p)' = {}
  BY <1>1 DEF Owed
<1>6. changes'[job'[p].run] \cup Owed(p)' = Difference(known'[p], cache'[KindOf(p)'])
  BY <1>0, <1>1, <1>2, <1>3, <1>5 DEF Endpoint
<1>7. Endpoint(p)'
  BY <1>0, <1>1, <1>3, <1>4, <1>6 DEF Endpoint
<1> QED
  BY <1>0, <1>1, <1>2, <1>7, StepInOrder DEF InRun, InKind

LEMMA RecordDisappearedInOrder ==
    ASSUME IInv, NEW p \in Importers, NEW o \in AllObjects, RecordDisappeared(p, o)
    PROVE  (\A q \in Importers : InOrder(q)') /\ LogHasOwner'
<1>0. /\ job \in [Importers -> Jobs] /\ Endpoint(p) /\ job[p].pc = "gone" /\ job[p].run \in Runs
      /\ o \in job[p].todo
  BY DEF IInv, TypeOK, InOrder, Engaged, RecordDisappeared, Holding, InRun, InKind
<1>1. /\ job'[p].pc = "gone" /\ job'[p].run = job[p].run /\ job'[p].at = job[p].at
      /\ job'[p].result = job[p].result /\ job'[p].todo = job[p].todo \ {o}
      /\ \A q \in Importers : q # p => job'[q] = job[q]
      /\ UNCHANGED <<cache, holder, got, known>>
  BY RecordDisappearedMoves DEF IInv, RecordDisappeared
<1>2. /\ changes'[job[p].run] =
             changes[job[p].run] \cup {[object |-> o, change |-> "DISAPPEARED"]}
      /\ \A r \in Runs : r # job[p].run => changes'[r] = changes[r]
  BY <1>0, LogAdds DEF RecordDisappeared
<1>3. KindOf(p)' = KindOf(p)
  BY <1>1 DEF KindOf
<1>4. AsAnswered(p, KindOf(p))'
  BY <1>0, <1>1, <1>3 DEF Endpoint, AsAnswered
<1>5. {[object |-> o, change |-> "DISAPPEARED"]} \cup Owed(p)' = Owed(p)
  BY <1>0, <1>1 DEF Owed
<1>6. changes'[job'[p].run] \cup Owed(p)' = Difference(known'[p], cache'[KindOf(p)'])
  BY <1>0, <1>1, <1>2, <1>3, <1>5 DEF Endpoint
<1>7. Endpoint(p)'
  BY <1>1, <1>3, <1>4, <1>6 DEF Endpoint
<1> QED
  BY <1>0, <1>1, <1>2, <1>7, StepInOrder DEF InRun, InKind

LEMMA KindFailsInOrder ==
    ASSUME IInv, NEW p \in Importers, KindFails(p)
    PROVE  (\A q \in Importers : InOrder(q)') /\ LogHasOwner'
<1>0. job \in [Importers -> Jobs] /\ job[p].pc \in InKind
  BY DEF IInv, TypeOK, KindFails
<1>1. /\ job'[p].pc = "failed" /\ job'[p].run = job[p].run /\ job'[p].at = job[p].at
      /\ job'[p].result = job[p].result
      /\ \A q \in Importers : q # p => job'[q] = job[q]
      /\ UNCHANGED <<cache, changes, holder, got, known>>
  BY KindFailsMoves DEF IInv, KindFails
<1>2. Endpoint(p)'
  BY <1>1 DEF Endpoint
<1> QED
  BY <1>0, <1>1, <1>2, StepInOrder DEF InRun

LEMMA RetireMissingInOrder ==
    ASSUME IInv, NEW p \in Importers, RetireMissing(p)
    PROVE  /\ \A q \in Importers : InOrder(q)'
           /\ LogHasOwner'
           /\ \A j \in Kinds : WellFormed(cache[j])'
<1> DEFINE k == KindOf(p)
           retired == RetiredBy(p)
<1>0. /\ job \in [Importers -> Jobs] /\ job[p].pc = "apply" /\ job[p].todo = {}
      /\ k \in Kinds /\ k = IF job[p].at = 1 THEN "MODULE" ELSE "MSBA"
      /\ InOrder(p) /\ Endpoint(p) /\ Applied(p)
  BY KindIsAKind DEF IInv, TypeOK, RetireMissing, InOrder, Endpoint
<1>1. /\ job'[p].pc = "gone" /\ job'[p].run = job[p].run /\ job'[p].at = job[p].at
      /\ job'[p].result = job[p].result /\ job'[p].todo = retired
      /\ \A q \in Importers : q # p => job'[q] = job[q]
  BY RetireMissingMoves DEF IInv, RetireMissing
<1>2. /\ \A o \in AllObjects : cache'[k][o] = IF o \in retired
                                              THEN [cache[k][o] EXCEPT !.gone = TRUE]
                                              ELSE cache[k][o]
      /\ \A j \in Kinds : j # k => cache'[j] = cache[j]
      /\ UNCHANGED <<changes, holder, got, known>>
  BY <1>0 DEF RetireMissing, IInv, TypeOK, RetiredBy
<1>3. job[p].pc \in Holding /\ KindOf(p)' = k
  BY <1>0, <1>1 DEF Holding, InRun, InKind, KindOf
<1>4. ASSUME NEW o \in retired
      PROVE  /\ cache[k][o] = known[p][o] /\ o \in AllObjects /\ IsPresent(cache[k][o])
             /\ got[p][k][o] = NoPayload
             /\ cache'[k][o].payload = cache[k][o].payload /\ cache'[k][o].gone
  <2>1. cache[k][o] \in CachedObjects
    BY <1>0 DEF IInv, TypeOK, RetiredBy
  <2>2. o \in AllObjects /\ IsPresent(cache[k][o]) /\ o \notin Mentioned(got[p][k])
    BY DEF RetiredBy
  <2>3. got[p][k][o] = NoPayload
    BY <2>2 DEF Mentioned
  <2>4. cache[k][o] = known[p][o]
    BY <1>0, <2>2 DEF Applied
  <2>5. cache'[k][o] = [cache[k][o] EXCEPT !.gone = TRUE]
    BY <1>2, <2>2
  <2>6. cache'[k][o].payload = cache[k][o].payload /\ cache'[k][o].gone
    BY <2>1, <2>5 DEF CachedObjects
  <2> QED
    BY <2>2, <2>3, <2>4, <2>6
<1>5. ASSUME NEW o \in AllObjects, o \notin retired
      PROVE  cache'[k][o] = cache[k][o]
  BY <1>2, <1>5
<1>6. \A o \in AllObjects \ retired :
         IF got[p][k][o] = NoPayload THEN ~IsPresent(cache[k][o])
         ELSE cache[k][o] = [payload |-> got[p][k][o], gone |-> FALSE]
  BY <1>0 DEF Applied, Mentioned, RetiredBy
<1>7. retired \subseteq AllObjects
  BY DEF RetiredBy
<1> HIDE DEF k, retired
<1>8. HolderWorks(p)' /\ Engaged(p)' /\ AnswersFit(p)'
  <2>1. HolderWorks(p)'
    BY <1>0, <1>1, <1>2, <1>3 DEF InOrder, HolderWorks
  <2>2. Engaged(p)'
    BY <1>0, <1>1 DEF InOrder, Engaged, Holding, InRun, InKind
  <2>3. AnswersFit(p)'
    BY <1>0, <1>2 DEF InOrder, AnswersFit, WellFormed
  <2> QED
    BY <2>1, <2>2, <2>3
<1>9. Endpoint(p)'
  <2>1. AsAnswered(p, KindOf(p))'
    <3> SUFFICES ASSUME NEW o \in AllObjects
                 PROVE  IF got[p][k][o] = NoPayload THEN ~IsPresent(cache'[k][o])
                        ELSE cache'[k][o] = [payload |-> got[p][k][o], gone |-> FALSE]
      BY <1>2, <1>3 DEF AsAnswered
    <3>1. CASE o \in retired
      BY <1>4, <3>1 DEF IsPresent
    <3>2. CASE o \notin retired
      BY <1>5, <1>6, <3>2
    <3> QED
      BY <3>1, <3>2
  <2>2. changes[job[p].run] = Difference(known[p], cache[k])
    BY <1>0 DEF Endpoint, Owed, k
  <2>3. Owed(p)' = {[object |-> o, change |-> "DISAPPEARED"] : o \in retired}
    BY <1>1 DEF Owed
  <2>4. Difference(known[p], cache'[k]) =
            Difference(known[p], cache[k])
                \cup {[object |-> o, change |-> "DISAPPEARED"] : o \in retired}
    <3> DEFINE Lines == [object : AllObjects, change : ChangeTypes]
    <3>1. ASSUME NEW o \in retired
          PROVE  /\ ChangeOf(known[p][o], cache'[k][o]) = "DISAPPEARED"
                 /\ ChangeOf(known[p][o], cache[k][o]) = ""
      <4>1. IsPresent(known[p][o]) /\ ~IsPresent(cache'[k][o]) /\ cache[k][o] = known[p][o]
        BY <1>4 DEF IsPresent
      <4> QED
        BY <4>1, NoChange DEF ChangeOf
    <3>2. ASSUME NEW d \in Lines
          PROVE  d \in Difference(known[p], cache'[k]) <=>
                     \/ d \in Difference(known[p], cache[k])
                     \/ d.object \in retired /\ d.change = "DISAPPEARED"
      <4>1. CASE d.object \in retired
        BY <3>1, <4>1 DEF Difference, ChangeTypes
      <4>2. CASE d.object \notin retired
        BY <1>5, <4>2 DEF Difference
      <4> QED
        BY <4>1, <4>2
    <3>3. {[object |-> o, change |-> "DISAPPEARED"] : o \in retired} =
             {d \in Lines : d.object \in retired /\ d.change = "DISAPPEARED"}
      BY <1>7 DEF ChangeTypes
    <3>4. Difference(known[p], cache'[k]) \subseteq Lines /\ Difference(known[p], cache[k]) \subseteq Lines
      BY DEF Difference
    <3> HIDE DEF Lines
    <3> QED
      BY <3>2, <3>3, <3>4
  <2>5. changes'[job'[p].run] \cup Owed(p)' = Difference(known'[p], cache'[k])
    BY <1>1, <1>2, <2>2, <2>3, <2>4
  <2> QED
    BY <1>1, <1>2, <1>3, <2>1, <2>5 DEF Endpoint
<1>10. Reported(p)'
  <2> SUFFICES ASSUME NEW j \in Kinds, job[p].result[j] = "SUCCEEDED" PROVE AsAnswered(p, j)'
    BY <1>1 DEF Reported
  <2>1. j # k
    BY <1>0 DEF InOrder, Engaged, InKind, NotYet
  <2>2. AsAnswered(p, j)
    BY <1>0 DEF InOrder, Reported
  <2> QED
    BY <1>2, <2>1, <2>2 DEF AsAnswered
<1>11. ASSUME NEW q \in Importers, q # p PROVE InOrder(q)'
  BY <1>1, <1>2, <1>3, <1>11, OneHolder, Bystander
<1>12. LogHasOwner'
  BY <1>1, <1>2, OwnersStay
<1>13. ASSUME NEW j \in Kinds PROVE WellFormed(cache[j])'
  <2>1. WellFormed(cache[j])
    BY DEF IInv
  <2>2. CASE j # k
    BY <1>2, <2>1, <2>2 DEF WellFormed
  <2>3. CASE j = k
    BY <1>4, <1>5, <2>1, <2>3 DEF WellFormed, IsPresent
  <2> QED
    BY <2>2, <2>3
<1> QED
  BY <1>8, <1>9, <1>10, <1>11, <1>12, <1>13 DEF InOrder

LEMMA RecordRunKindInOrder ==
    ASSUME IInv, NEW p \in Importers, NEW result \in {"SUCCEEDED", "FAILED"},
           RecordRunKind(p, result)
    PROVE  (\A q \in Importers : InOrder(q)') /\ LogHasOwner'
<1> DEFINE k == KindOf(p)
           new == [job[p] EXCEPT !.pc = IF job[p].at = 1 THEN "fetch" ELSE "finish",
                                 !.at = 2, !.result[k] = result]
<1>0. /\ job \in [Importers -> Jobs] /\ InOrder(p) /\ Endpoint(p) /\ job[p] \in Jobs
      /\ job[p].pc \in {"gone", "failed"} /\ job[p].run \in Runs
      /\ k \in Kinds /\ k = IF job[p].at = 1 THEN "MODULE" ELSE "MSBA"
      /\ result = "SUCCEEDED" => job[p].pc = "gone"
  BY KindIsAKind DEF IInv, TypeOK, RecordRunKind, InOrder, Engaged, Holding, InRun, InKind
<1>1. /\ job' = [job EXCEPT ![p] = new]
      /\ known' = [known EXCEPT ![p] = [o \in AllObjects |-> Unknown]]
      /\ changes' = [r \in Runs |-> IF r = job[p].run THEN {} ELSE changes[r]]
      /\ UNCHANGED <<cache, holder, got>>
  BY <1>0 DEF RecordRunKind, Forgets
<1>2. /\ new.pc = IF job[p].at = 1 THEN "fetch" ELSE "finish"
      /\ new.run = job[p].run /\ new.at = 2
      /\ new.result = [job[p].result EXCEPT ![k] = result]
  BY <1>0 DEF Jobs
<1> HIDE DEF new, k
<1>3. /\ job'[p] = new
      /\ \A q \in Importers : q # p => job'[q] = job[q]
  BY <1>0, <1>1
<1>4. /\ known'[p] = [o \in AllObjects |-> Unknown]
      /\ \A q \in Importers : q # p => known'[q] = known[q]
  BY <1>1 DEF IInv, TypeOK
<1>5. job[p].pc \in Holding
  BY <1>0 DEF Holding, InRun, InKind
<1>6. /\ \A j \in Kinds : new.result[j] = IF j = k THEN result ELSE job[p].result[j]
  BY <1>0, <1>2 DEF Jobs
<1>7. HolderWorks(p)' /\ Engaged(p)'
  <2>1. HolderWorks(p)'
    BY <1>0, <1>1, <1>5 DEF InOrder, HolderWorks
  <2>2. job[p].result["MSBA"] = "NONE" /\ "MSBA" \in Kinds
    BY <1>0 DEF InOrder, Engaged, InKind, Kinds
  <2>3. new.pc \in InKind \cup {"failed"} => new.result["MSBA"] = "NONE"
    BY <1>0, <1>2, <1>6, <2>2 DEF InKind
  <2>4. new.pc \in {"fetch", "finish"} /\ new.at = 2 /\ new.run \in Runs
    BY <1>0, <1>2
  <2>5. Engaged(p)'
    BY <1>3, <2>3, <2>4 DEF Engaged, Holding, InRun, InKind
  <2> QED
    BY <2>1, <2>5
<1>8. AnswersFit(p)'
  BY <1>0, <1>1, <1>4, NothingFits DEF InOrder, AnswersFit, WellFormed
<1>9. Endpoint(p)'
  BY <1>0, <1>1, <1>2, <1>3 DEF Endpoint
<1>10. Reported(p)'
  <2> SUFFICES ASSUME NEW j \in Kinds, new.result[j] = "SUCCEEDED" PROVE AsAnswered(p, j)
    BY <1>1, <1>3 DEF Reported, AsAnswered
  <2>1. CASE j = k
    BY <1>0, <1>6, <2>1 DEF Endpoint, k
  <2>2. CASE j # k
    BY <1>0, <1>6, <2>2 DEF InOrder, Reported
  <2> QED
    BY <2>1, <2>2
<1>11. ASSUME NEW q \in Importers, q # p PROVE InOrder(q)'
  BY <1>1, <1>3, <1>4, <1>5, <1>11, OneHolder, Bystander
<1>12. LogHasOwner'
  BY <1>1, <1>2, <1>3, OwnersStay
<1> QED
  BY <1>7, <1>8, <1>9, <1>10, <1>11, <1>12 DEF InOrder

LEMMA FinishRunInOrder ==
    ASSUME IInv, NEW p \in Importers, FinishRun(p)
    PROVE  (\A q \in Importers : InOrder(q)') /\ LogHasOwner'
<1>0. /\ job \in [Importers -> Jobs] /\ InOrder(p) /\ job[p] \in Jobs
      /\ job[p].pc = "finish" /\ job[p].pc \in Holding
      /\ cache' = cache
  BY DEF IInv, TypeOK, FinishRun, Holding, InRun
<1>1. CASE Release(p)
  BY <1>0, <1>1, ReleaseInOrder
<1>2. CASE ~Release(p)
  <2>1. /\ job' = [job EXCEPT ![p].pc = "project"]
        /\ UNCHANGED <<holder, got, known, changes>>
        /\ StatusOf(job[p].result) = "SUCCEEDED"
    BY <1>2 DEF FinishRun
  <2>2. /\ job'[p].pc = "project" /\ job'[p].run = job[p].run /\ job'[p].at = job[p].at
        /\ job'[p].result = job[p].result
        /\ \A q \in Importers : q # p => job'[q] = job[q]
    BY <1>0, <2>1 DEF Jobs
  <2>3. \A k \in Kinds : job[p].result[k] = "SUCCEEDED"
    BY <2>1 DEF StatusOf
  <2>4. HolderWorks(p)' /\ Engaged(p)'
    BY <1>0, <2>1, <2>2, <2>3 DEF InOrder, HolderWorks, Engaged, Holding, InRun, InKind
  <2>5. AnswersFit(p)' /\ Reported(p)'
    BY <1>0, <2>1, <2>2 DEF InOrder, AnswersFit, WellFormed, Reported, AsAnswered
  <2>6. Endpoint(p)'
    BY <2>2 DEF Endpoint
  <2>7. ASSUME NEW q \in Importers, q # p PROVE InOrder(q)'
    BY <1>0, <2>1, <2>2, <2>7, OneHolder, Bystander
  <2>8. LogHasOwner'
    BY <2>1, <2>2, OwnersStay
  <2> QED
    BY <2>4, <2>5, <2>6, <2>7, <2>8 DEF InOrder
<1> QED
  BY <1>1, <1>2

\* What leaves the import alone leaves it in order.
LEMMA AloneInOrder ==
    ASSUME IInv, UNCHANGED <<cache, changes, holder, job, got, known>>
    PROVE  /\ \A q \in Importers : InOrder(q)'
           /\ LogHasOwner'
<1>1. \A q \in Importers : InOrder(q)'
  BY Undisturbed
<1>2. LogHasOwner'
  BY DEF IInv, LogHasOwner
<1> QED
  BY <1>1, <1>2

\* Every process stays in order, the log has owners, and the cache is well formed.
LEMMA StaysInOrder ==
    ASSUME IInv, [Next]_vars
    PROVE  /\ \A q \in Importers : InOrder(q)'
           /\ LogHasOwner'
           /\ \A j \in Kinds : WellFormed(cache[j])'
<1> DEFINE Ordered == (\A q \in Importers : InOrder(q)') /\ LogHasOwner'
           Formed == \A j \in Kinds : WellFormed(cache[j])'
           Goal == Ordered /\ Formed
<1>0. cache' = cache => Formed
  BY DEF IInv, WellFormed
<1>1. ASSUME NEW p \in Importers, ProcessStarts(p) \/ ProcessStartsUncleared(p) PROVE Goal
  BY <1>0, <1>1, ProcessStartsInOrder DEF ProcessStarts, ProcessStartsUncleared
<1>2. ASSUME NEW p \in Importers, AcquireSyncLock(p) PROVE Goal
  BY <1>0, <1>2, AcquireSyncLockInOrder DEF AcquireSyncLock
<1>3. ASSUME NightGivesUp PROVE Goal
  BY <1>0, <1>3, ProcessStartsInOrder DEF NightGivesUp, Importers
<1>4. ASSUME NEW p \in Importers, NEW r \in Runs, StartRun(p, r) PROVE Goal
  BY <1>0, <1>4, StartRunInOrder DEF StartRun
<1>5. ASSUME NEW p \in Importers, RunReturns(p) PROVE Goal
  BY <1>0, <1>5, ReleaseInOrder DEF RunReturns, Holding, InRun, InKind
<1>6. ASSUME RunTimesOut PROVE Goal
  BY <1>0, <1>6, ReleaseInOrder DEF RunTimesOut, Holding, Importers
<1>7. ASSUME NEW p \in Importers, Dies(p) PROVE Goal
  BY <1>0, <1>7, DiesInOrder DEF Dies
<1>8. ASSUME NEW p \in Importers, Fetch(p) PROVE Goal
  BY <1>0, <1>8, FetchInOrder DEF Fetch
<1>9. ASSUME NEW p \in Importers, NEW o \in AllObjects, Upsert(p, o) PROVE Goal
  BY <1>9, UpsertInOrder
<1>10. ASSUME NEW p \in Importers, RecordChange(p) PROVE Goal
  BY <1>0, <1>10, RecordChangeInOrder DEF RecordChange
<1>11. ASSUME NEW p \in Importers, RetireMissing(p) PROVE Goal
  BY <1>11, RetireMissingInOrder
<1>12. ASSUME NEW p \in Importers, NEW o \in AllObjects, RecordDisappeared(p, o) PROVE Goal
  BY <1>0, <1>12, RecordDisappearedInOrder DEF RecordDisappeared
<1>13. ASSUME NEW p \in Importers, KindFails(p) PROVE Goal
  BY <1>0, <1>13, KindFailsInOrder DEF KindFails
<1>14. ASSUME NEW p \in Importers, NEW result \in {"SUCCEEDED", "FAILED"}, RecordRunKind(p, result)
       PROVE Goal
  BY <1>0, <1>14, RecordRunKindInOrder DEF RecordRunKind
<1>15. ASSUME NEW p \in Importers, FinishRun(p) PROVE Goal
  BY <1>0, <1>15, FinishRunInOrder DEF FinishRun
<1>16. ASSUME NEW p \in Importers, RunProjects(p) PROVE Goal
  BY <1>0, <1>16, ReleaseInOrder DEF RunProjects, Holding
<1>17. ASSUME HalfAnHour \/ ProjectCatalogue \/ DeleteStaleModuleOfferings \/ HandProjectionFails
       PROVE Goal
  BY <1>0, <1>17, AloneInOrder
     DEF HalfAnHour, ProjectCatalogue, DeleteStaleModuleOfferings, HandProjectionFails
<1>18. ASSUME UNCHANGED vars PROVE Goal
  BY <1>0, <1>18, AloneInOrder DEF vars
<1> HIDE DEF Goal
<1>19. ASSUME NEW p \in Importers, Works(p) PROVE Goal
  BY <1>3, <1>4, <1>5, <1>8, <1>9, <1>10, <1>11, <1>12, <1>13, <1>14, <1>15, <1>16, <1>19 DEF Works
<1>20. Goal
  BY <1>1, <1>2, <1>6, <1>7, <1>17, <1>18, <1>19 DEF Next
<1> QED
  BY <1>20 DEF Goal

-----------------------------------------------------------------------------
(* Within the limit. *)

\* A row the server works on is not declared dead: no start finds it an hour old,
\* and only the holder of the lock, which is the server then, ends rows.
LEMMA StaysWithinItsLimit ==
    ASSUME IInv, [Next]_vars
    PROVE  WithinItsLimit'
<1> DEFINE s == "server"
<1>1. s \in Importers /\ job[s] \in Jobs /\ job \in [Importers -> Jobs] /\ rows \in [Runs -> RunRow]
  BY KindIsAKind DEF IInv, TypeOK, Importers
<1>2. job[s].pc \in InRun => job[s].run \in Runs
  BY <1>1 DEF IInv, InOrder, Engaged, Holding, InRun, InKind
<1>3. ASSUME rows' = rows \/ \A r \in Runs : job[s].run = r => rows'[r] = rows[r],
             job'[s].pc \in InRun => job[s].pc \in InRun /\ job'[s].run = job[s].run
      PROVE  WithinItsLimit'
  BY <1>2, <1>3 DEF IInv, WithinItsLimit
<1>4. ASSUME NEW p \in Importers, ProcessStarts(p) PROVE WithinItsLimit'
  <2>1. job'[s].pc \in InRun => job[s].pc \in InRun /\ job'[s].run = job[s].run
    BY <1>1, <1>4 DEF ProcessStarts, InRun, InKind, Jobs
  <2>2. ASSUME job[s].pc \in InRun PROVE rows'[job[s].run] = rows[job[s].run]
    BY <1>1, <1>2, <1>4, <2>2
       DEF ProcessStarts, FailAbandonedRuns, IInv, WithinItsLimit, MaximumZPASyncDuration,
           abandonedRunAge, RunRow
  <2> QED
    BY <1>2, <2>1, <2>2 DEF IInv, WithinItsLimit
<1>5. ASSUME NEW p \in Importers, p # s, job[p].pc \in Holding, job'[s] = job[s] PROVE WithinItsLimit'
  BY <1>1, <1>5, OneHolder DEF WithinItsLimit, Holding
<1>6. ASSUME NEW p \in Importers, job'[p].pc \notin InRun, rows' = rows,
             \A q \in Importers : q # p => job'[q] = job[q]
      PROVE  WithinItsLimit'
  BY <1>1, <1>3, <1>6
<1>7. ASSUME NEW p \in Importers, ProcessStartsUncleared(p) PROVE WithinItsLimit'
  <2>0. job[p] \in Jobs
    BY KindIsAKind DEF IInv
  <2>1. job'[p].pc = "ready" /\ \A q \in Importers : q # p => job'[q] = job[q]
    BY <1>1, <1>7, <2>0 DEF ProcessStartsUncleared, Jobs
  <2> QED
    BY <1>6, <1>7, <2>1 DEF ProcessStartsUncleared, InRun, InKind
<1>23. ASSUME NEW p \in Importers, AcquireSyncLock(p) PROVE WithinItsLimit'
  BY <1>6, <1>23, AcquireSyncLockMoves DEF IInv, AcquireSyncLock, InRun, InKind
<1>8. ASSUME NightGivesUp PROVE WithinItsLimit'
  BY <1>1, <1>6, <1>8 DEF NightGivesUp, InRun, InKind, Jobs, Importers
<1>9. ASSUME NEW p \in Importers, NEW r \in Runs, StartRun(p, r) PROVE WithinItsLimit'
  <2>1. CASE p = s
    <3>1. job'[s].run = r
      BY <1>9, <2>1, StartRunMoves DEF IInv
    <3>2. rows'[r] = [status |-> "RUNNING", age |-> 0]
      BY <1>1, <1>9 DEF StartRun
    <3> QED
      BY <3>1, <3>2 DEF WithinItsLimit, MaximumZPASyncDuration
  <2>2. CASE p # s
    BY <1>1, <1>5, <1>9, <2>2 DEF StartRun, Holding
  <2> QED
    BY <2>1, <2>2
<1>10. ASSUME NEW p \in Importers, Release(p), rows' = rows PROVE WithinItsLimit'
  BY <1>1, <1>6, <1>10 DEF Release, Resting, NoJob, InRun, InKind
<1>11. ASSUME NEW p \in Importers, Dies(p) PROVE WithinItsLimit'
  BY <1>1, <1>6, <1>11 DEF Dies, NoJob, InRun, InKind
<1>12. ASSUME HalfAnHour PROVE WithinItsLimit'
  <2>1. job' = job
    BY <1>12 DEF HalfAnHour
  <2>2. ASSUME job[s].pc \in InRun
        PROVE  /\ rows'[job[s].run].status = "RUNNING"
               /\ rows'[job[s].run].age <= MaximumZPASyncDuration
    <3>1. /\ rows[job[s].run].status = "RUNNING"
          /\ rows[job[s].run].age < MaximumZPASyncDuration
          /\ rows[job[s].run] \in RunRow
      BY <1>1, <1>2, <1>12, <2>2 DEF HalfAnHour, IInv, WithinItsLimit
    <3>2. rows'[job[s].run] = [rows[job[s].run] EXCEPT !.age = @ + 1]
      BY <1>2, <1>12, <2>2, <3>1
         DEF HalfAnHour, RunRow, MaximumZPASyncDuration, abandonedRunAge
    <3> QED
      BY <3>1, <3>2 DEF RunRow, MaximumZPASyncDuration, abandonedRunAge
  <2> QED
    BY <2>1, <2>2 DEF WithinItsLimit
<1>13. ASSUME NEW p \in Importers, job[p].pc \in InRun, rows' = rows, job'[p].run = job[p].run,
              \A q \in Importers : q # p => job'[q] = job[q]
       PROVE  WithinItsLimit'
  BY <1>1, <1>3, <1>13
<1>14. ASSUME NEW p \in Importers, Fetch(p) PROVE WithinItsLimit'
  <2>0. job[p] \in Jobs
    BY KindIsAKind DEF IInv
  <2>1. job'[p].run = job[p].run /\ \A q \in Importers : q # p => job'[q] = job[q]
    <3>1. PICK answer \in Fetches(KindOf(p)) :
             job' = [job EXCEPT ![p].pc = "apply", ![p].todo = Mentioned(answer)]
      BY <1>14 DEF Fetch
    <3> QED
      BY <1>1, <2>0, <3>1 DEF Jobs
  <2> QED
    BY <1>13, <1>14, <2>1 DEF Fetch, InRun, InKind
<1>15. ASSUME NEW p \in Importers, NEW o \in AllObjects, Upsert(p, o) PROVE WithinItsLimit'
  <2>1. job'[p].run = job[p].run /\ \A q \in Importers : q # p => job'[q] = job[q]
    BY <1>1, <1>15 DEF Upsert, Jobs
  <2> QED
    BY <1>13, <1>15, <2>1 DEF Upsert, InRun, InKind
<1>16. ASSUME NEW p \in Importers, RecordChange(p) PROVE WithinItsLimit'
  BY <1>13, <1>16, RecordChangeMoves DEF IInv, RecordChange, InRun, InKind
<1>24. ASSUME NEW p \in Importers, RetireMissing(p) PROVE WithinItsLimit'
  BY <1>13, <1>24, RetireMissingMoves DEF IInv, RetireMissing, InRun, InKind
<1>17. ASSUME NEW p \in Importers, NEW o \in AllObjects, RecordDisappeared(p, o)
       PROVE WithinItsLimit'
  BY <1>13, <1>17, RecordDisappearedMoves DEF IInv, RecordDisappeared, InRun, InKind
<1>18. ASSUME NEW p \in Importers, KindFails(p) PROVE WithinItsLimit'
  BY <1>13, <1>18, KindFailsMoves DEF IInv, KindFails, InRun
<1>19. ASSUME NEW p \in Importers, NEW result \in {"SUCCEEDED", "FAILED"}, RecordRunKind(p, result)
       PROVE WithinItsLimit'
  BY <1>1, <1>13, <1>19 DEF RecordRunKind, InRun, InKind, Jobs
<1>20. ASSUME NEW p \in Importers, FinishRun(p) PROVE WithinItsLimit'
  <2>1. CASE p = s
    <3>1. job'[s].pc \in {"project", "ready"}
      <4>1. CASE Release(p)
        BY <1>1, <2>1, <4>1 DEF Release, Resting, NoJob
      <4>2. CASE job' = [job EXCEPT ![p].pc = "project"]
        BY <1>1, <2>1, <4>2 DEF Jobs
      <4> QED
        BY <1>20, <4>1, <4>2 DEF FinishRun
    <3> QED
      BY <3>1 DEF WithinItsLimit, InRun, InKind
  <2>2. CASE p # s
    <3>1. job'[s] = job[s]
      BY <1>1, <1>20, <2>2 DEF FinishRun, Release
    <3> QED
      BY <1>5, <1>20, <2>2, <3>1 DEF FinishRun, Holding, InRun
  <2> QED
    BY <2>1, <2>2
<1>21. ASSUME UNCHANGED <<job, rows>> PROVE WithinItsLimit'
  BY <1>21 DEF IInv, WithinItsLimit
<1>22. ASSUME NEW p \in Importers, Works(p) PROVE WithinItsLimit'
  BY <1>8, <1>9, <1>10, <1>14, <1>15, <1>16, <1>17, <1>18, <1>19, <1>20, <1>22, <1>24
     DEF Works, RunReturns, RunProjects
<1> QED
  BY <1>1, <1>4, <1>7, <1>10, <1>11, <1>12, <1>21, <1>22, <1>23
     DEF Next, vars, RunTimesOut, ProjectCatalogue, DeleteStaleModuleOfferings, HandProjectionFails

-----------------------------------------------------------------------------
(* The theorems. *)

\* The empty tables are as the invariant has them.
LEMMA InitIsInOrder == Init => IInv
<1> SUFFICES ASSUME Init PROVE IInv
  OBVIOUS
<1>1. Unknown \in CachedObjects /\ NoAnswer \in [AllObjects -> AnyPayload]
  BY DEF Unknown, NoAnswer, CachedObjects, AnyPayload
<1>2. TypeOK
  BY <1>1, RestingIsAJob
     DEF Init, TypeOK, RunRow, abandonedRunAge, NoDraft, Drafts, EmptyCatalogue, Catalogues
<1>3. ASSUME NEW p \in Importers PROVE InOrder(p)
  <2>1. job[p] = NoJob /\ got[p] = [k \in Kinds |-> NoAnswer] /\ known[p] = [o \in AllObjects |-> Unknown]
    BY DEF Init
  <2>2. job[p].pc = "down" /\ job[p].run = NoRun /\ job[p].at = 1 /\ job[p].result = NotYet
    BY <2>1, NoJobFields
  <2>3. HolderWorks(p) /\ Engaged(p)
    BY <2>2 DEF HolderWorks, Engaged, Holding, InRun, InKind, Runs, NoRun
  <2>4. AnswersFit(p)
    BY <2>1, NothingFits DEF AnswersFit
  <2>5. Endpoint(p) /\ Reported(p)
    BY <2>2 DEF Endpoint, Reported, NotYet
  <2> QED
    BY <2>3, <2>4, <2>5 DEF InOrder
<1>4. LogHasOwner
  BY DEF Init, LogHasOwner
<1>5. \A k \in Kinds : WellFormed(cache[k])
  BY NothingFits DEF Init
<1>6. WithinItsLimit
  BY DEF Init, WithinItsLimit, NoJob, InRun, InKind, Importers
<1> QED
  BY <1>2, <1>3, <1>4, <1>5, <1>6 DEF IInv

\* The inductive invariant holds at every step of the import: who works holds the
\* lock, and what is applied and logged so far is what was answered.
THEOREM ImportInvariant == Spec => []IInv
<1>1. IInv /\ [Next]_vars => IInv'
  BY TypeInvariant, StaysInOrder, StaysWithinItsLimit DEF IInv
<1> QED
  BY InitIsInOrder, <1>1, PTL DEF Spec

\* The tables and processes keep their types.
THEOREM ImportTypes == Spec => []TypeOK
<1>1. IInv => TypeOK
  BY DEF IInv
<1> QED
  BY ImportInvariant, <1>1, PTL

\* A run started with the button is never declared dead while it is alive.
THEOREM LiveRunStaysRunning == Spec => []LiveRunIsNotDeclaredDead
<1>1. IInv => LiveRunIsNotDeclaredDead
  BY DEF IInv, WithinItsLimit, LiveRunIsNotDeclaredDead
<1> QED
  BY ImportInvariant, <1>1, PTL

\* An object is present exactly if it was answered, and then with what was answered.
LEMMA PresentAsAnswered ==
    ASSUME NEW p \in Importers, NEW k \in Kinds, AsAnswered(p, k), NEW o \in AllObjects
    PROVE  IF got[p][k][o] = NoPayload THEN ~IsPresent(cache[k][o])
           ELSE IsPresent(cache[k][o]) /\ cache[k][o].payload = got[p][k][o]
<1>1. CASE got[p][k][o] = NoPayload
  BY <1>1 DEF AsAnswered
<1>2. CASE got[p][k][o] # NoPayload
  <2>1. cache[k][o] = [payload |-> got[p][k][o], gone |-> FALSE]
    BY <1>2 DEF AsAnswered
  <2>2. cache[k][o].payload = got[p][k][o] /\ ~cache[k][o].gone
    BY <2>1
  <2> QED
    BY <1>2, <2>2 DEF IsPresent
<1> QED
  BY <1>1, <1>2

\* What is reported of an endpoint is true: the cache is the answer, and the log
\* is the difference, whatever the other process does meanwhile.
LEMMA ReportStep ==
    ASSUME IInv, NEW p \in Importers, RecordRunKind(p, "SUCCEEDED")
    PROVE  LET k == KindOf(p) IN
           /\ \A o \in AllObjects :
                 IF got[p][k][o] = NoPayload THEN ~IsPresent(cache[k][o])
                 ELSE IsPresent(cache[k][o]) /\ cache[k][o].payload = got[p][k][o]
           /\ changes[job[p].run] = Difference(known[p], cache[k])
<1>1. Endpoint(p) /\ job[p].pc = "gone" /\ job[p].todo = {}
  BY DEF RecordRunKind, IInv, InOrder
<1>2. AsAnswered(p, KindOf(p))
  BY <1>1 DEF Endpoint
<1>3. Owed(p) = {}
  BY <1>1 DEF Owed
<1>4. changes[job[p].run] = Difference(known[p], cache[KindOf(p)])
  BY <1>1, <1>3 DEF Endpoint
<1>5. ASSUME NEW o \in AllObjects
      PROVE  IF got[p][KindOf(p)][o] = NoPayload THEN ~IsPresent(cache[KindOf(p)][o])
             ELSE /\ IsPresent(cache[KindOf(p)][o])
                  /\ cache[KindOf(p)][o].payload = got[p][KindOf(p)][o]
  BY <1>2, PresentAsAnswered, KindIsAKind DEF IInv
<1> QED
  BY <1>4, <1>5

THEOREM ReportsAreTrue == Spec => ReportIsTrue
<1>1. IInv /\ [Next]_vars =>
         [\A p \in Importers : RecordRunKind(p, "SUCCEEDED") =>
             LET k == KindOf(p) IN
             /\ \A o \in AllObjects :
                   IF got[p][k][o] = NoPayload THEN ~IsPresent(cache[k][o])
                   ELSE IsPresent(cache[k][o]) /\ cache[k][o].payload = got[p][k][o]
             /\ changes[job[p].run] = Difference(known[p], cache[k])]_vars
  BY ReportStep
<1> QED
  BY ImportInvariant, <1>1, PTL DEF Spec, ReportIsTrue

\* The catalogue a run commits is what it was answered: no offering goes because
\* an endpoint did not answer, or because the cache was written in between.
LEMMA ProjectionStep ==
    ASSUME IInv, NEW p \in Importers, RunProjects(p)
    PROVE  IsTheFetch(p, catalogue')
<1>1. InOrder(p) /\ job[p].pc = "project"
  BY DEF RunProjects, IInv
<1>2. AsAnswered(p, "MODULE") /\ AsAnswered(p, "MSBA")
  BY <1>1 DEF InOrder, Engaged, Reported, Kinds
<1>3. /\ catalogue'.modules = Projected
      /\ catalogue'.offerings = Supported(Projected)
  BY DEF RunProjects
<1>4. Projected \subseteq Modules
  BY DEF Projected, IInv, TypeOK, Catalogues
<1>5. ASSUME NEW x \in Projected, NEW o \in Associations
      PROVE  IsPresent(cache["MSBA"][o]) /\ cache["MSBA"][o].payload = x <=> got[p]["MSBA"][o] = x
  <2>1. x # NoPayload /\ o \in AllObjects
    BY <1>4, ImportAssumption DEF AllObjects
  <2> QED
    BY <1>2, <2>1, PresentAsAnswered DEF Kinds
<1>6. Supported(Projected) = {x \in Projected : \E o \in Associations : got[p]["MSBA"][o] = x}
  BY <1>5 DEF Supported
<1>7. Mentioned(got[p]["MODULE"]) \subseteq Projected
  <2>1. Mentioned(got[p]["MODULE"]) \subseteq Modules
    BY <1>1 DEF InOrder, AnswersFit, Kinds, Objects
  <2>2. ASSUME NEW x \in Mentioned(got[p]["MODULE"]) PROVE cache["MODULE"][x].payload # NoPayload
    <3>1. x \in AllObjects /\ got[p]["MODULE"][x] # NoPayload
      BY DEF Mentioned
    <3> QED
      BY <1>2, <3>1, PresentAsAnswered DEF Kinds
  <2> QED
    BY <2>1, <2>2 DEF Projected
<1> QED
  BY <1>3, <1>6, <1>7 DEF IsTheFetch

THEOREM CatalogueIsWhatWasFetched == Spec => CatalogueIsTheFetch
<1>1. IInv /\ [Next]_vars =>
         [\A p \in Importers : RunProjects(p) => IsTheFetch(p, catalogue')]_vars
  BY ProjectionStep
<1> QED
  BY ImportInvariant, <1>1, PTL DEF Spec, CatalogueIsTheFetch
=============================================================================
