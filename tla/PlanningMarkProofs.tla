------------------------- MODULE PlanningMarkProofs -------------------------
(***************************************************************************)
(* The planning mark, for any number of semesters, calls and attempts. The *)
(* argument: the row a call has cleared is the one that is marked, and it  *)
(* stays so until that call commits; a call whose clearing missed a mark   *)
(* was overtaken by a call that decided otherwise; a clearing meets one    *)
(* row at most, so that it waits for its target only while it holds that.  *)
(***************************************************************************)
EXTENDS PlanningMark, TLAPS

\* One semester at most is marked: the unique index.
OneMark == \A s, t \in marked : s = t

\* A call holds the rows it has cleared, and its target once it is marking; what
\* it has cleared is marked for everybody else, and is not its target.
ClearedIsHeld ==
    \A k \in Client :
        /\ \A s \in Semester :
               lock[s] = k <=> \/ s \in call[k].cleared
                               \/ call[k].at = "marking" /\ s = call[k].target
        /\ call[k].cleared \subseteq marked
        /\ call[k].target \notin call[k].cleared \cup call[k].want

\* An attempt that has not cleared anything holds and wants nothing, and one
\* that is marking wants nothing more.
StartsEmpty ==
    \A k \in Client :
        /\ call[k].at \in {"idle", "start"} => call[k].cleared = {} /\ call[k].want = {}
        /\ call[k].at = "marking" => call[k].want = {}

\* A clearing meets one row at most: the one that was marked when it started.
ClearsOneRow ==
    \A k \in Client : \A s, t \in call[k].want \cup call[k].cleared : s = t

\* An attempt either knows every mark there is but its own, or was overtaken in it.
OvertakenPerAttempt ==
    \A k \in Client : call[k] # Idle =>
        /\ overtaken[k] >= call[k].attempt - 1
        /\ \/ overtaken[k] >= call[k].attempt
           \/ call[k].at = "start"
           \/ OtherMarks(k) \subseteq call[k].want

IInv ==
    /\ TypeOK
    /\ OneMark
    /\ ClearedIsHeld
    /\ StartsEmpty
    /\ ClearsOneRow
    /\ OvertakenPerAttempt

-----------------------------------------------------------------------------

\* What is left to show of a step once its type is known.
Rest == OneMark /\ ClearedIsHeld /\ StartsEmpty /\ ClearsOneRow /\ OvertakenPerAttempt

\* The states of a call that is under way.
Attempt == [at : {"start", "clearing", "marking"}, target : Semester, attempt : 1..Attempts,
            want : SUBSET Semester, cleared : SUBSET Semester]

\* Marks, locks and calls keep their types; no call tries more than Attempts
\* times.
LEMMA TypeInvariant == TypeOK /\ [Next]_vars => TypeOK'
<1> SUFFICES ASSUME TypeOK, [Next]_vars PROVE TypeOK'
  OBVIOUS
<1> USE ConstantsAssumption DEF TypeOK, Idle, Unlock
<1>1. ASSUME NEW k \in Client, NEW t \in Semester, Begin(k, t) PROVE TypeOK'
  <2>1. 1 \in 1..Attempts
    OBVIOUS
  <2>2. [Idle EXCEPT !.at = "start", !.target = t, !.attempt = 1] \in Attempt
    BY <2>1 DEF Attempt
  <2> QED
    BY <1>1, <2>2 DEF Begin, Attempt
<1>2. ASSUME NEW k \in Client, ClearStart(k) PROVE TypeOK'
  <2>1. call[k] \in Attempt
    BY <1>2 DEF ClearStart, Attempt
  <2>2. [call[k] EXCEPT !.at = "clearing", !.want = marked \ {call[k].target}] \in Attempt
    BY <2>1 DEF Attempt
  <2> QED
    BY <1>2, <2>2 DEF ClearStart, Attempt
<1>3. ASSUME NEW k \in Client, NEW s \in Semester, ClearRow(k, s) PROVE TypeOK'
  <2>1. call[k] \in Attempt
    BY <1>3 DEF ClearRow, Attempt
  <2>2. /\ [call[k] EXCEPT !.want = @ \ {s}] \in Attempt
        /\ [call[k] EXCEPT !.want = @ \ {s}, !.cleared = @ \cup {s}] \in Attempt
    BY <2>1 DEF Attempt
  <2>3. CASE s \in marked
    BY <1>3, <2>2, <2>3 DEF ClearRow, Attempt
  <2>4. CASE s \notin marked
    BY <1>3, <2>2, <2>4 DEF ClearRow, Attempt
  <2> QED
    BY <2>3, <2>4
<1>4. ASSUME NEW k \in Client, Mark(k) PROVE TypeOK'
  BY <1>4 DEF Mark, Overtake
<1>5. ASSUME NEW k \in Client, Retry(k) PROVE TypeOK'
  <2>1. call[k] \in Attempt
    BY <1>5 DEF Retry, Refused, Attempt
  <2>2. call[k].target \in Semester /\ call[k].attempt + 1 \in 1..Attempts
    BY <1>5, <2>1 DEF Retry, Attempt
  <2>3. [Idle EXCEPT !.at = "start", !.target = call[k].target,
                     !.attempt = call[k].attempt + 1] \in Attempt
    BY <2>2 DEF Attempt
  <2> QED
    BY <1>5, <2>3 DEF Retry, Attempt
<1>6. ASSUME NEW k \in Client, Tell(k) \/ Crash(k) PROVE TypeOK'
  BY <1>6 DEF Tell, Crash
<1>7. ASSUME NEW k \in Client, MarkRow(k) PROVE TypeOK'
  <2>1. call[k] \in Attempt
    BY <1>7 DEF MarkRow, Attempt
  <2>2. [call[k] EXCEPT !.at = "marking"] \in Attempt
    BY <2>1 DEF Attempt
  <2> QED
    BY <1>7, <2>2 DEF MarkRow, Attempt
<1>8. CASE UNCHANGED vars
  BY <1>8 DEF vars
<1> QED
  BY <1>1, <1>2, <1>3, <1>4, <1>5, <1>6, <1>7, <1>8 DEF Next, Continue

\* What the type says of one call.
LEMMA CallType ==
    ASSUME TypeOK, NEW k \in Client
    PROVE  /\ call[k].want \subseteq Semester /\ call[k].cleared \subseteq Semester
           /\ call[k].at \in {"idle", "start", "clearing", "marking"}
           /\ call[k].at # "idle" => call[k].target \in Semester
<1>1. CASE call[k] = Idle
  BY <1>1 DEF Idle
<1>2. CASE call[k] \in Attempt
  BY <1>2 DEF Attempt
<1> QED
  BY <1>1, <1>2 DEF TypeOK, Attempt

\* Nothing is called at the start.
LEMMA InvariantInit == Init => IInv
BY ConstantsAssumption DEF Init, IInv, TypeOK, OneMark, ClearedIsHeld, StartsEmpty,
   ClearsOneRow, OvertakenPerAttempt, Idle

\* What ends an attempt gives up its rows and leaves the marks alone.
LEMMA AttemptEnds ==
    ASSUME IInv, NEW k \in Client, NEW c, UNCHANGED <<marked, overtaken>>,
           lock' = Unlock(k), call' = [call EXCEPT ![k] = c],
           c.at \in {"idle", "start"}, c.cleared = {}, c.want = {},
           c # Idle => overtaken[k] >= c.attempt - 1 /\ c.at = "start"
    PROVE  Rest'
<1> USE ConstantsAssumption DEF IInv, TypeOK
<1>1. OneMark'
  BY DEF OneMark
<1>2. ClearedIsHeld'
  BY DEF ClearedIsHeld, Unlock
<1>3. StartsEmpty'
  BY DEF StartsEmpty
<1>4. ClearsOneRow'
  BY DEF ClearsOneRow
<1>5. OvertakenPerAttempt'
  BY DEF OvertakenPerAttempt, OtherMarks
<1> QED
  BY <1>1, <1>2, <1>3, <1>4, <1>5 DEF Rest

\* Nobody but the call that marks has cleared anything: what is cleared is marked
\* and locked, and what is marked the index has shown to be its own.
LEMMA MarkerIsAlone ==
    ASSUME IInv, NEW k \in Client, Mark(k), NEW j \in Client, j # k
    PROVE  call[j].cleared = {}
<1> SUFFICES ASSUME NEW s \in call[j].cleared PROVE FALSE
  OBVIOUS
<1>1. s \in Semester /\ s \in marked /\ lock[s] = j
  BY CallType DEF IInv, ClearedIsHeld
<1>2. s \in call[k].cleared \cup {call[k].target}
  BY <1>1 DEF Mark, OtherMarks
<1>3. lock[s] = k
  BY <1>1, <1>2 DEF IInv, ClearedIsHeld, Mark
<1> QED
  BY <1>1, <1>3

\* Every step keeps the invariant.
LEMMA InvariantStep == IInv /\ [Next]_vars => IInv'
<1> SUFFICES ASSUME IInv, [Next]_vars
             PROVE  Rest'
  BY TypeInvariant DEF IInv, Rest
<1> USE ConstantsAssumption
<1>1. ASSUME NEW k \in Client, NEW t \in Semester, Begin(k, t)
      PROVE  Rest'
  <2> USE <1>1 DEF IInv, TypeOK, Begin, Idle
  <2>1. OneMark'
    BY DEF OneMark
  <2>2. ClearedIsHeld'
    <3>1. call'[k].cleared = {} /\ call'[k].want = {} /\ call'[k].at = "start"
      OBVIOUS
    <3>2. \A s \in Semester : lock[s] # k
      BY DEF ClearedIsHeld
    <3> QED
      BY <3>1, <3>2 DEF ClearedIsHeld
  <2>3. StartsEmpty'
    BY DEF StartsEmpty
  <2>4. ClearsOneRow'
    BY DEF ClearsOneRow, OneMark, StartsEmpty
  <2>5. OvertakenPerAttempt'
    BY DEF OvertakenPerAttempt, OtherMarks
  <2> QED
    BY <2>1, <2>2, <2>3, <2>4, <2>5 DEF Rest
<1>2. ASSUME NEW k \in Client, ClearStart(k)
      PROVE  Rest'
  <2> USE <1>2 DEF IInv, TypeOK, ClearStart, Idle
  <2>1. OneMark'
    BY DEF OneMark
  <2>2. ClearedIsHeld'
    BY DEF ClearedIsHeld, StartsEmpty
  <2>3. StartsEmpty'
    BY DEF StartsEmpty
  <2>4. ClearsOneRow'
    BY DEF ClearsOneRow, OneMark, StartsEmpty
  <2>5. OvertakenPerAttempt'
    BY DEF OvertakenPerAttempt, OtherMarks
  <2> QED
    BY <2>1, <2>2, <2>3, <2>4, <2>5 DEF Rest
<1>3. ASSUME NEW k \in Client, NEW s \in Semester, ClearRow(k, s)
      PROVE  Rest'
  <2> USE <1>3 DEF IInv, TypeOK, ClearRow, Idle
  <2>1. OneMark'
    BY DEF OneMark
  <2>2. ClearedIsHeld'
    BY DEF ClearedIsHeld
  <2>3. StartsEmpty'
    BY DEF StartsEmpty
  <2>4. ClearsOneRow'
    BY DEF ClearsOneRow, OneMark, StartsEmpty
  <2>5. OvertakenPerAttempt'
    BY DEF OvertakenPerAttempt, OtherMarks
  <2> QED
    BY <2>1, <2>2, <2>3, <2>4, <2>5 DEF Rest
<1>4. ASSUME NEW k \in Client, Mark(k)
      PROVE  Rest'
  <2>1. marked' = {call[k].target}
    BY <1>4 DEF Mark, OtherMarks
  <2>8. \A j \in Client : j # k => call[j].cleared = {}
    BY <1>4, MarkerIsAlone
  <2>3. OneMark'
    BY <2>1 DEF OneMark
  <2>4. ClearedIsHeld'
    BY <1>4, <2>8 DEF IInv, TypeOK, ClearedIsHeld, Mark, Unlock, Idle
  <2>5. StartsEmpty'
    BY <1>4 DEF IInv, TypeOK, StartsEmpty, Mark, Idle
  <2>6. ClearsOneRow'
    BY <1>4 DEF IInv, TypeOK, ClearsOneRow, Mark, Idle
  <2>7. OvertakenPerAttempt'
    <3> SUFFICES ASSUME NEW j \in Client, call'[j] # Idle
                 PROVE  /\ overtaken'[j] >= call'[j].attempt - 1
                        /\ \/ overtaken'[j] >= call'[j].attempt
                           \/ call'[j].at = "start"
                           \/ OtherMarks(j)' \subseteq call'[j].want
      BY DEF OvertakenPerAttempt
    <3>1. j # k /\ call'[j] = call[j] /\ call[j] # Idle
      BY <1>4 DEF IInv, TypeOK, Mark
    <3>2. /\ overtaken[j] \in 0..Attempts /\ call[j].attempt \in 1..Attempts
          /\ overtaken[j] >= call[j].attempt - 1
      BY <3>1 DEF IInv, TypeOK, OvertakenPerAttempt
    <3>3. CASE call[j].target # call[k].target
      <4>1. overtaken'[j] = IF overtaken[j] < Attempts THEN overtaken[j] + 1 ELSE overtaken[j]
        BY <1>4, <3>1, <3>3 DEF Mark, Overtake
      <4>2. overtaken'[j] \in Int /\ overtaken'[j] >= call[j].attempt
        BY <3>2, <4>1
      <4> QED
        BY <3>1, <3>2, <4>2
    <3>4. CASE call[j].target = call[k].target
      <4>1. OtherMarks(j)' = {}
        BY <2>1, <3>1, <3>4 DEF OtherMarks
      <4>2. overtaken'[j] = overtaken[j]
        BY <1>4, <3>4 DEF Mark, Overtake
      <4> QED
        BY <3>1, <3>2, <4>1, <4>2
    <3> QED
      BY <3>3, <3>4
  <2> QED
    BY <2>3, <2>4, <2>5, <2>6, <2>7 DEF Rest
<1>5. ASSUME NEW k \in Client, Retry(k)
      PROVE  Rest'
  <2> DEFINE c == [Idle EXCEPT !.at = "start", !.target = call[k].target,
                               !.attempt = call[k].attempt + 1]
  <2>1. c.at = "start" /\ c.cleared = {} /\ c.want = {} /\ c.attempt = call[k].attempt + 1
    BY DEF Idle
  <2>2. call[k] # Idle /\ overtaken[k] >= call[k].attempt
    BY <1>5 DEF IInv, StartsEmpty, OvertakenPerAttempt, Retry, Refused, Idle
  <2>3. call[k].attempt \in Nat /\ overtaken[k] \in Nat
    BY <2>2 DEF IInv, TypeOK
  <2>4. overtaken[k] >= c.attempt - 1
    BY <2>1, <2>2, <2>3
  <2> HIDE DEF c
  <2> QED
    BY <1>5, <2>1, <2>4, AttemptEnds DEF Retry, c
<1>6. ASSUME NEW k \in Client, Tell(k) \/ Crash(k)
      PROVE  Rest'
  <2>1. Idle.at = "idle" /\ Idle.cleared = {} /\ Idle.want = {}
    BY DEF Idle
  <2> QED
    BY <1>6, <2>1, AttemptEnds DEF Tell, Crash
<1>7. ASSUME NEW k \in Client, MarkRow(k)
      PROVE  Rest'
  <2> USE <1>7 DEF IInv, TypeOK, MarkRow, Idle
  <2>1. OneMark'
    BY DEF OneMark
  <2>2. ClearedIsHeld'
    BY DEF ClearedIsHeld
  <2>3. StartsEmpty'
    BY DEF StartsEmpty
  <2>4. ClearsOneRow'
    BY DEF ClearsOneRow
  <2>5. OvertakenPerAttempt'
    BY DEF OvertakenPerAttempt, OtherMarks
  <2> QED
    BY <2>1, <2>2, <2>3, <2>4, <2>5 DEF Rest
<1>8. CASE UNCHANGED vars
  BY <1>8 DEF vars, IInv, Rest, OneMark, ClearedIsHeld, StartsEmpty, ClearsOneRow,
     OvertakenPerAttempt, OtherMarks
<1> QED
  BY <1>1, <1>2, <1>3, <1>4, <1>5, <1>6, <1>7, <1>8 DEF Next, Continue

-----------------------------------------------------------------------------

\* Every reachable state satisfies the invariant.
THEOREM Invariance == Spec => []IInv
BY InvariantInit, InvariantStep, PTL DEF Spec

\* Every reachable state has its type: a call never tries more than Attempts
\* times (SetPlanningSemester).
THEOREM TypeCorrect == Spec => []TypeOK
BY Invariance, PTL DEF IInv

\* From the moment a call has cleared the mark until it ends, no other commits,
\* whatever those others saw and decided (SetPlanningSemester).
THEOREM DecisionsTakeTurns == Spec => TakeTurns
<1>1. IInv => [\A j, k \in Client : Mark(j) /\ call[k].cleared # {} => j = k]_vars
  BY MarkerIsAlone
<1> QED
  BY <1>1, Invariance, PTL DEF TakeTurns

\* Moving the mark never commits a moment without one (the clearing and the
\* marking are one transaction).
THEOREM MarkIsNeverLost == Spec => MarkStays
<1>1. IInv /\ [Next]_vars => [marked # {} => marked' # {}]_vars
  <2> SUFFICES ASSUME IInv, Next, marked # {} PROVE marked' # {}
    BY DEF vars
  <2> QED
    BY DEF Next, Continue, Begin, ClearStart, ClearRow, MarkRow, Mark, Retry, Tell, Crash
<1> QED
  BY <1>1, Invariance, PTL DEF Spec, MarkStays

\* A caller is told to try again only if Attempts others committed a decision for
\* another semester while the call ran: with the code's two attempts, two people
\* at once never are.
THEOREM TellingNeedsAttemptsOthers == Spec => ToldOnlyWhenOvertaken
<1>1. ASSUME IInv, NEW k \in Client, Tell(k) PROVE overtaken[k] = Attempts
  <2>1. call[k] # Idle /\ overtaken[k] >= Attempts
    BY <1>1 DEF IInv, StartsEmpty, OvertakenPerAttempt, Tell, Refused, Idle
  <2> QED
    BY <2>1, <1>1, ConstantsAssumption DEF IInv, TypeOK
<1>2. IInv => [\A k \in Client : Tell(k) => overtaken[k] = Attempts]_vars
  BY <1>1
<1> QED
  BY <1>2, Invariance, PTL DEF ToldOnlyWhenOvertaken

\* A call that holds the marked row and waits, waits for its target, which a
\* call for the same semester holds.
LEMMA HolderWaitsForItsTarget ==
    ASSUME IInv, NEW k \in Client, NEW l \in Client, WaitsFor(k, l), call[k].cleared # {}
    PROVE  call[k].target = call[l].target
<1>1. PICK s \in Semester : s \in call[k].cleared /\ s \in marked /\ lock[s] = k
  BY CallType DEF IInv, ClearedIsHeld
<1>2. call[k].want = {} \/ call[k].want = {s}
  BY <1>1 DEF IInv, ClearsOneRow
<1>3. OtherMarks(k) = {}
  BY <1>1 DEF IInv, OneMark, OtherMarks
<1>4. call[k].at = "clearing" /\ lock[call[k].target] = l
  BY <1>1, <1>2, <1>3 DEF WaitsFor
<1>5. call[k].target \in Semester /\ call[k].target # s
  BY <1>1, <1>4 DEF IInv, TypeOK, ClearedIsHeld, Idle
<1>6. call[k].target \notin call[l].cleared
  BY <1>1, <1>5 DEF IInv, OneMark, ClearedIsHeld
<1> QED
  BY <1>4, <1>5, <1>6 DEF IInv, ClearedIsHeld

\* A call that holds a row without having cleared one is marking, and waits for
\* a call that has cleared the mark.
LEMMA MarkerWaitsForTheHolder ==
    ASSUME IInv, NEW j \in Client, NEW k \in Client, NEW l \in Client, NEW m \in Client,
           WaitsFor(j, k), WaitsFor(k, l), WaitsFor(l, m), call[k].cleared = {}
    PROVE  call[l].cleared # {}
<1>1. PICK r \in Semester : lock[r] = k
  BY DEF WaitsFor, OtherMarks, IInv, TypeOK, Idle
<1>2. call[k].at = "marking" /\ call[k].want = {}
  BY <1>1 DEF IInv, ClearedIsHeld, StartsEmpty
<1>3. PICK s \in Semester : s \in marked /\ lock[s] = l
  BY <1>2 DEF WaitsFor, OtherMarks, IInv, TypeOK
<1>4. ASSUME call[l].at = "marking", s = call[l].target PROVE FALSE
  <2>1. OtherMarks(l) = {} /\ call[l].want = {}
    BY <1>3, <1>4 DEF OtherMarks, IInv, OneMark, StartsEmpty
  <2> QED
    BY <2>1, <1>4 DEF WaitsFor
<1> QED
  BY <1>3, <1>4 DEF IInv, ClearedIsHeld

\* Rings of waiting calls name one semester: only one call at a time holds the
\* mark, it waits for nothing but its target, and everybody else in the ring
\* waits for that call.
THEOREM RingsNameOneSemester == Spec => []RingsShareATarget
<1>1. ASSUME IInv, NEW R \in SUBSET Client, Ring(R), NEW k \in R, NEW l \in R
      PROVE  call[k].target = call[l].target
  <2>1. \A a \in R : \E j \in R : WaitsFor(j, a)
    BY <1>1 DEF Ring
  <2>2. \A a \in R : \E b \in R : WaitsFor(a, b)
    BY <1>1 DEF Ring
  <2>3. \A a, b \in R : WaitsFor(a, b) /\ call[a].cleared = {} => call[b].cleared # {}
    <3> SUFFICES ASSUME NEW a \in R, NEW b \in R, WaitsFor(a, b), call[a].cleared = {}
                 PROVE  call[b].cleared # {}
      OBVIOUS
    <3>1. PICK j \in R : WaitsFor(j, a)
      BY <2>1
    <3>2. PICK m \in R : WaitsFor(b, m)
      BY <2>2
    <3> QED
      BY <1>1, <3>1, <3>2, MarkerWaitsForTheHolder
  <2>4. \A a, b \in R : call[a].cleared # {} /\ call[b].cleared # {} => a = b
    BY <1>1, CallType DEF IInv, ClearedIsHeld, OneMark
  <2>5. \A a, b \in R : call[a].cleared # {} /\ call[b].cleared = {}
                        => call[a].target = call[b].target
    <3> SUFFICES ASSUME NEW a \in R, NEW b \in R, call[a].cleared # {}, call[b].cleared = {}
                 PROVE  call[a].target = call[b].target
      OBVIOUS
    <3>1. PICK j \in R : WaitsFor(j, b)
      BY <2>1
    <3>2. j = a
      BY <3>1, <2>3, <2>4
    <3> QED
      BY <1>1, <3>1, <3>2, HolderWaitsForItsTarget
  <2>6. \E a \in R : call[a].cleared # {}
    BY <2>2, <2>3
  <2> QED
    BY <2>4, <2>5, <2>6
<1>2. IInv => RingsShareATarget
  BY <1>1 DEF RingsShareATarget
<1> QED
  BY <1>2, Invariance, PTL
=============================================================================
