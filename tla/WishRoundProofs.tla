-------------------------- MODULE WishRoundProofs --------------------------
(***************************************************************************)
(* The wish round, for any number of people, cohorts, requests, phases and *)
(* priorities. The argument: what a conversion is about to write stays as  *)
(* it was when it was decided, because the rows of the advance wishes, the *)
(* wishes and the cohorts are locked; a withdrawal that would take such a  *)
(* cohort away waits, and one that does not wait leaves no wish behind.    *)
(***************************************************************************)
EXTENDS WishRound, TLAPS

\* Only conversions have people whose advance wishes are due, only withdrawals
\* drop wishes, and only requests at their last step have either.
OnlyWhereTheyBelong ==
    \A k \in Client :
        /\ tx[k].due # {} => tx[k].op \in {"announce", "declare"} /\ tx[k].at = "ready"
        /\ tx[k].dropped # {} => tx[k].op = "withdraw" /\ tx[k].at = "ready"

\* A withdrawal has its cohort's row; a declaration has a cohort nobody else has.
OwnCohort ==
    \A k \in Client :
        /\ tx[k].op = "withdraw" => tx[k].cohort \in Cohort /\ lock[tx[k].cohort] = k
        /\ tx[k].op = "declare" =>
            /\ tx[k].cohort \in Cohort \ (declared \cup gone)
            /\ \A j \in Client \ {k} : tx[j].op = "declare" => tx[j].cohort # tx[k].cohort

\* What is due is noted down and not yet converted, and due once.
DueOnce ==
    \A k \in Client : \A p \in tx[k].due :
        /\ advance[p] # 0 /\ p \notin converted
        /\ \A j \in Client \ {k} : p \notin tx[j].due

\* The cohorts a conversion writes to stay, and so do the wishes it changes.
OntoStays ==
    \A k \in Client : \A p \in tx[k].due, c \in tx[k].onto :
        /\ c \in SeesCohorts(k)
        /\ wish[c][p] = 0 => lock[c] = Nothing
        /\ \A j \in Client : <<c, p>> \notin tx[j].dropped

IInv ==
    /\ TypeOK
    /\ OnlyWhereTheyBelong
    /\ OwnCohort
    /\ DueOnce
    /\ OntoStays
    /\ WishedIsDeclared

\* No wish is to be deleted by two merges. Each of them deletes one of a person
\* who keeps another that is at least as strong, and that nobody is to delete;
\* unless the person has changed a wish since.
DroppedOnce ==
    \A k \in Client : \A j \in Client \ {k} : tx[k].dropped \cap tx[j].dropped = {}
Stands(c, p) == Wishes(c, p) /\ \A j \in Client : <<c, p>> \notin tx[j].dropped
AnotherStands ==
    \A k \in Client, d \in Cohort, p \in Person :
        <<d, p>> \in tx[k].dropped /\ p \notin tx[k].late =>
            \E e \in Cohort : Stands(e, p) /\ wish[e][p] <= wish[d][p]
MergeInv == IInv /\ DroppedOnce /\ AnotherStands

-----------------------------------------------------------------------------

\* What is left to show of a step once its type is known.
Rest == OnlyWhereTheyBelong /\ OwnCohort /\ DueOnce /\ OntoStays /\ WishedIsDeclared

\* What the type says of one request.
LEMMA RequestType ==
    ASSUME TypeOK, NEW k \in Client
    PROVE  /\ tx[k].due \subseteq Person /\ tx[k].onto \subseteq Cohort
           /\ tx[k].dropped \subseteq Cohort \X Person
           /\ tx[k].person \in Person \cup {Nothing}
           /\ tx[k].cohort \in Cohort \cup {Nothing}
           /\ tx[k].target \in Cohort \cup {Nothing}
           /\ tx[k].phase \in Phase
           /\ tx[k].op # "none" => tx[k] \in Request
<1> USE ConstantsAssumption
<1>1. CASE tx[k] = Idle
  BY <1>1 DEF Idle, Phase
<1>2. CASE tx[k] \in Request
  BY <1>2 DEF Request
<1> QED
  BY <1>1, <1>2 DEF TypeOK

\* A request starts with its type.
LEMMA BegunType ==
    ASSUME NEW op \in Operation, NEW at \in {"read", "written", "ready"},
           NEW p \in Person \cup {Nothing}, NEW c \in Cohort \cup {Nothing}, phase \in Phase
    PROVE  [Idle EXCEPT !.op = op, !.at = at, !.person = p, !.cohort = c,
                        !.phase = phase] \in Request
BY DEF Idle, Request

\* Nobody has asked for anything at the start.
LEMMA InvariantInit == Init => IInv
<1> SUFFICES ASSUME Init PROVE IInv
  OBVIOUS
<1> USE ConstantsAssumption DEF Init
<1>1. 1 \in Phase /\ 0 \in Level
  BY DEF Phase, Level
<1>2. TypeOK
  BY <1>1 DEF TypeOK
<1>3. Rest
  BY DEF Rest, OnlyWhereTheyBelong, OwnCohort, DueOnce, OntoStays, WishedIsDeclared, Idle
<1> QED
  BY <1>2, <1>3 DEF IInv, Rest

\* A level that may be wished for.
LEMMA LevelType == \A level \in 1..Weakest : level \in Level /\ level # 0
BY ConstantsAssumption DEF Level

\* A request that changes a part of what it keeps keeps its type.
LEMMA ChangedType ==
    ASSUME NEW r \in Request, NEW at \in {"read", "written", "ready"},
           NEW due \in SUBSET Person, NEW onto \in SUBSET Cohort,
           NEW c \in Cohort \cup {Nothing}, NEW dropped \in SUBSET (Cohort \X Person),
           NEW late \in SUBSET Person
    PROVE  /\ [r EXCEPT !.at = at, !.due = due, !.onto = onto] \in Request
           /\ [r EXCEPT !.at = at] \in Request
           /\ [r EXCEPT !.at = at, !.target = c, !.dropped = dropped] \in Request
           /\ [r EXCEPT !.late = late] \in Request
           /\ [r EXCEPT !.cohort = c] \in Request
BY DEF Request

\* Noting a write of one's own keeps the types of the others' requests.
LEMMA UnseenType ==
    ASSUME TypeOK, NEW p \in Person
    PROVE  Unseen(p) \in [Client -> Request \cup {Idle}]
<1> SUFFICES ASSUME NEW j \in Client, NEW c \in Cohort, <<c, p>> \in tx[j].dropped
             PROVE  [tx[j] EXCEPT !.late = @ \cup {p}] \in Request
  BY DEF Unseen, TypeOK
<1>1. tx[j] \in Request
  BY DEF TypeOK, Idle
<1>2. tx[j].late \cup {p} \in SUBSET Person
  BY <1>1 DEF Request
<1> QED
  BY <1>1, <1>2 DEF Request

\* Everything keeps its type.
LEMMA TypeInvariant == IInv /\ [Next]_vars => TypeOK'
<1> SUFFICES ASSUME IInv, [Next]_vars PROVE TypeOK'
  OBVIOUS
<1> USE ConstantsAssumption
<1> TypeOK
  BY DEF IInv
<1>1. ASSUME WithdrawRelease PROVE TypeOK'
  BY <1>1 DEF WithdrawRelease, cohorts, wishes, TypeOK
<1>2. ASSUME NEW p \in Person, WithdrawAdvance(p) PROVE TypeOK'
  <2>1. advance' \in [Person -> Level]
    BY <1>2 DEF WithdrawAdvance, TypeOK, Level
  <2>2. converted' \subseteq {q \in Person : advance'[q] # 0}
    BY <1>2 DEF WithdrawAdvance, TypeOK
  <2> QED
    BY <1>2, <2>1, <2>2 DEF WithdrawAdvance, semester, cohorts, TypeOK
<1>3. ASSUME NEW k \in Client, PhaseRead(k) PROVE TypeOK'
  BY <1>3, BegunType DEF PhaseRead, Begin, semester, cohorts, wishes, TypeOK, Operation
<1>4. ASSUME NEW k \in Client, NEW to \in Phase, PhaseWrite(k, to) PROVE TypeOK'
  BY <1>4 DEF PhaseWrite, Answer, cohorts, wishes, TypeOK
<1>5. ASSUME NEW k \in Client, NEW p \in Person, AdvanceRead(k, p) PROVE TypeOK'
  BY <1>5, BegunType DEF AdvanceRead, Begin, semester, cohorts, wishes, TypeOK, Operation
<1>6. ASSUME NEW k \in Client, NEW level \in 1..Weakest, AdvanceWrite(k, level) PROVE TypeOK'
  <2>1. advance' \in [Person -> Level]
    BY <1>6, LevelType DEF AdvanceWrite, TypeOK
  <2>2. converted' \subseteq {q \in Person : advance'[q] # 0}
    BY <1>6, LevelType DEF AdvanceWrite, TypeOK
  <2> QED
    BY <1>6, <2>1, <2>2 DEF AdvanceWrite, Answer, semester, cohorts, TypeOK
<1>7. ASSUME NEW k \in Client, Announce(k) PROVE TypeOK'
  BY <1>7, BegunType DEF Announce, Begin, semester, cohorts, wishes, TypeOK, Operation
<1>8. ASSUME NEW k \in Client, NEW c \in Cohort, Declare(k, c) PROVE TypeOK'
  BY <1>8, BegunType DEF Declare, Begin, semester, cohorts, wishes, TypeOK, Operation
<1>9. ASSUME NEW k \in Client, NEW c \in Cohort, WithdrawBegin(k, c) PROVE TypeOK'
  BY <1>9, BegunType DEF WithdrawBegin, Begin, semester, cohorts, wishes, TypeOK, Operation
<1>10. ASSUME NEW k \in Client, Convert(k) PROVE TypeOK'
  <2>1. tx[k] \in Request
    BY <1>10, RequestType DEF Convert
  <2>2. Due(k) \in SUBSET Person /\ SeesCohorts(k) \in SUBSET Cohort
    BY <2>1, <1>10 DEF Due, SeesCohorts, IInv, OwnCohort, TypeOK
  <2>3. [tx[k] EXCEPT !.at = "ready", !.due = Due(k), !.onto = SeesCohorts(k)] \in Request
    BY <2>1, <2>2, ChangedType
  <2>4. tx' = [tx EXCEPT ![k] = [tx[k] EXCEPT !.at = "ready", !.due = Due(k),
                                              !.onto = SeesCohorts(k)]]
    BY <1>10 DEF Convert, TypeOK
  <2> QED
    BY <1>10, <2>3, <2>4 DEF Convert, semester, cohorts, wishes, TypeOK
<1>11. ASSUME NEW k \in Client, Release(k) PROVE TypeOK'
  <2>1. declared' \subseteq Cohort /\ gone' \subseteq Cohort \ declared'
    BY <1>11 DEF Release, SeesCohorts, IInv, OwnCohort, TypeOK
  <2>2. wish' \in [Cohort -> [Person -> Level]]
    <3>1. ASSUME NEW c \in Cohort, NEW p \in Person
          PROVE  Stronger(wish[c][p], advance[p]) \in Level /\ wish[c][p] \in Level
      BY DEF Stronger, TypeOK
    <3> QED
      BY <1>11, <3>1 DEF Release
  <2>3. converted' \subseteq {q \in Person : advance'[q] # 0}
    BY <1>11, RequestType DEF Release, IInv, DueOnce, TypeOK
  <2>4. \A c \in Cohort : lock'[c] # Nothing => c \in declared'
    BY <1>11 DEF Release, SeesCohorts, TypeOK
  <2> QED
    BY <1>11, <2>1, <2>2, <2>3, <2>4 DEF Release, Answer, TypeOK
<1>12. ASSUME NEW k \in Client, NEW p \in Person, NEW c \in Cohort,
              WishRead(k, p, c) \/ UnwishRead(k, p, c)
       PROVE  TypeOK'
  <2>1. CASE WishRead(k, p, c)
    BY <2>1, BegunType DEF WishRead, Begin, semester, cohorts, wishes, TypeOK, Operation
  <2>2. CASE UnwishRead(k, p, c)
    BY <2>2, BegunType DEF UnwishRead, Begin, semester, cohorts, wishes, TypeOK, Operation
  <2> QED
    BY <1>12, <2>1, <2>2
<1>13. ASSUME NEW k \in Client, NEW level \in 1..Weakest, WishWrite(k, level) PROVE TypeOK'
  <2>1. wish' \in [Cohort -> [Person -> Level]]
    BY <1>13, LevelType DEF WishWrite, TypeOK
  <2>2. Unseen(tx[k].person) \in [Client -> Request \cup {Idle}]
    <3>1. CASE tx[k].person \in Person
      BY <3>1, UnseenType
    <3>2. CASE tx[k].person = Nothing
      <4>1. \A j \in Client, c \in Cohort : <<c, Nothing>> \notin tx[j].dropped
        BY RequestType
      <4> QED
        BY <3>2, <4>1 DEF Unseen, TypeOK
    <3> QED
      BY <3>1, <3>2, RequestType
  <2> QED
    BY <1>13, <2>1, <2>2 DEF WishWrite, semester, cohorts, TypeOK
<1>14. ASSUME NEW k \in Client, Unwish(k) PROVE TypeOK'
  <2>1. wish' \in [Cohort -> [Person -> Level]]
    <3>1. 0 \in Level
      BY DEF Level
    <3> QED
      BY <1>14, <3>1 DEF Unwish, TypeOK
  <2>2. Unseen(tx[k].person) \in [Client -> Request \cup {Idle}]
    <3>1. CASE tx[k].person \in Person
      BY <3>1, UnseenType
    <3>2. CASE tx[k].person = Nothing
      <4>1. \A j \in Client, c \in Cohort : <<c, Nothing>> \notin tx[j].dropped
        BY RequestType
      <4> QED
        BY <3>2, <4>1 DEF Unseen, TypeOK
    <3> QED
      BY <3>1, <3>2, RequestType
  <2>3. tx' \in [Client -> Request \cup {Idle}]
    BY <1>14, <2>2 DEF Unwish
  <2> QED
    BY <1>14, <2>1, <2>3 DEF Unwish, semester, cohorts, TypeOK
<1>15. ASSUME NEW k \in Client, HandOver(k) PROVE TypeOK'
  <2>1. tx[k] \in Request
    BY <1>15, RequestType DEF HandOver, Running
  <2>2. CASE tx' = [tx EXCEPT ![k].at = "ready"]
    <3>1. [tx[k] EXCEPT !.at = "ready"] \in Request
      BY <2>1 DEF Request
    <3> QED
      BY <1>15, <2>2, <3>1 DEF HandOver, semester, cohorts, wishes, TypeOK
  <2>3. ASSUME NEW c \in Cohort, NEW t \in Cohort, NEW weaker \in [WishedForBoth(c, t) -> {c, t}],
               tx' = [tx EXCEPT ![k].at = "ready", ![k].target = t,
                                ![k].dropped = {<<weaker[p], p>> : p \in WishedForBoth(c, t)}]
        PROVE  TypeOK'
    <3> DEFINE dropped == {<<weaker[p], p>> : p \in WishedForBoth(c, t)}
    <3>1. dropped \in SUBSET (Cohort \X Person)
      BY DEF WishedForBoth
    <3>2. [tx[k] EXCEPT !.at = "ready", !.target = t, !.dropped = dropped] \in Request
      BY <2>1, <3>1, ChangedType
    <3> QED
      BY <1>15, <2>3, <3>2 DEF HandOver, semester, cohorts, wishes, TypeOK
  <2>4. tx[k].cohort \in Cohort
    BY <1>15 DEF HandOver, Running, IInv, OwnCohort
  <2> QED
    BY <1>15, <2>2, <2>3, <2>4 DEF HandOver, TypeOK
<1>16. ASSUME NEW k \in Client, Withdraw(k) PROVE TypeOK'
  <2>1. tx[k].cohort \in Cohort /\ lock[tx[k].cohort] = k
    BY <1>16 DEF Withdraw, Running, IInv, OwnCohort
  <2>2. wish' \in [Cohort -> [Person -> Level]]
    <3>1. \A c \in Cohort, p \in Person : wish[c][p] \in Level
      BY DEF TypeOK
    <3>2. 0 \in Level
      BY DEF Level
    <3> QED
      BY <1>16, <2>1, <3>1, <3>2 DEF Withdraw
  <2>3. lock' \in [Cohort -> Client \cup {Nothing}]
    BY <1>16 DEF Withdraw, Unlock, TypeOK
  <2>4. \A c \in Cohort : lock'[c] # Nothing => c \in declared'
    BY <1>16, <2>1 DEF Withdraw, Unlock, TypeOK
  <2>5. tx' \in [Client -> Request \cup {Idle}]
    <3>1. ASSUME NEW j \in Client, tx[j].op = "unwish"
          PROVE  [tx[j] EXCEPT !.cohort = tx[k].target] \in Request
      BY <3>1, RequestType, ChangedType
    <3> QED
      BY <1>16, <3>1 DEF Withdraw, TypeOK
  <2>6. declared' \subseteq Cohort /\ gone' \subseteq Cohort \ declared'
    BY <1>16, <2>1 DEF Withdraw, TypeOK
  <2> QED
    BY <1>16, <2>2, <2>3, <2>4, <2>5, <2>6 DEF Withdraw, semester, TypeOK
<1>17. ASSUME NEW k \in Client, Abort(k) PROVE TypeOK'
  BY <1>17 DEF Abort, Answer, Unlock, semester, cohorts, wishes, TypeOK
<1>18. CASE UNCHANGED vars
  BY <1>18 DEF vars, TypeOK
<1> QED
  BY <1>1, <1>2, <1>3, <1>4, <1>5, <1>6, <1>7, <1>8, <1>9, <1>10, <1>11, <1>12, <1>13,
     <1>14, <1>15, <1>16, <1>17, <1>18 DEF Next

-----------------------------------------------------------------------------

\* What a request holds on to: it is as it was in all that the invariant asks
\* for, or it has nothing.
Same(r, q) ==
    /\ r.op = q.op /\ r.at = q.at /\ r.cohort = q.cohort
    /\ r.due = q.due /\ r.onto = q.onto /\ r.dropped = q.dropped
Bare(r) == r.due = {} /\ r.dropped = {} /\ r.op \notin {"declare", "withdraw"}

\* A step that neither declares nor withdraws a cohort and takes no wish away
\* that somebody is converting into.
LEMMA QuietStep ==
    ASSUME IInv, UNCHANGED cohorts,
           \A j \in Client : Same(tx'[j], tx[j]) \/ Bare(tx'[j]),
           \A c \in Cohort : lock[c] = Nothing => lock'[c] = Nothing,
           \A j \in Client, c \in Cohort :
               lock[c] = j => lock'[c] = j \/ Bare(tx'[j]),
           \A j \in Client : \A p \in tx[j].due :
               ~Bare(tx'[j]) => advance'[p] # 0 /\ p \notin converted',
           \A j \in Client : \A p \in tx[j].due, c \in tx[j].onto :
               ~Bare(tx'[j]) /\ wish'[c][p] = 0 => wish[c][p] = 0,
           \A c \in Cohort, p \in Person : wish'[c][p] # 0 => wish[c][p] # 0 \/ c \in declared
    PROVE  Rest'
<1> USE ConstantsAssumption DEF IInv, cohorts
<1>1. OnlyWhereTheyBelong'
  BY DEF OnlyWhereTheyBelong, Same, Bare
<1>2. OwnCohort'
  BY DEF OwnCohort, Same, Bare
<1>3. DueOnce'
  BY DEF DueOnce, Same, Bare
<1>4. OntoStays'
  <2> SUFFICES ASSUME NEW k \in Client, NEW p \in tx'[k].due, NEW c \in tx'[k].onto
               PROVE  /\ c \in SeesCohorts(k)'
                      /\ wish'[c][p] = 0 => lock'[c] = Nothing
                      /\ \A j \in Client : <<c, p>> \notin tx'[j].dropped
    BY DEF OntoStays
  <2>1. Same(tx'[k], tx[k]) /\ ~Bare(tx'[k]) /\ p \in tx[k].due /\ c \in tx[k].onto
    BY DEF Same, Bare
  <2>2. c \in Cohort
    BY <2>1, RequestType
  <2>3. c \in SeesCohorts(k)'
    BY <2>1 DEF OntoStays, SeesCohorts, Same
  <2>4. wish'[c][p] = 0 => lock'[c] = Nothing
    <3> SUFFICES ASSUME wish'[c][p] = 0 PROVE lock'[c] = Nothing
      OBVIOUS
    <3>1. wish[c][p] = 0
      BY <2>1
    <3>2. lock[c] = Nothing
      BY ONLY OntoStays, <2>1, <3>1 DEF OntoStays
    <3> QED
      BY ONLY <2>2, <3>2, \A d \in Cohort : lock[d] = Nothing => lock'[d] = Nothing
  <2>5. \A j \in Client : <<c, p>> \notin tx'[j].dropped
    BY <2>1 DEF OntoStays, Same, Bare
  <2> QED
    BY <2>3, <2>4, <2>5
<1>5. WishedIsDeclared'
  BY DEF WishedIsDeclared
<1> QED
  BY <1>1, <1>2, <1>3, <1>4, <1>5 DEF Rest

\* A request that starts or ends with nothing, and writes nothing.
LEMMA BareRequest ==
    ASSUME IInv, NEW k \in Client, NEW r, Bare(r), tx' = [tx EXCEPT ![k] = r],
           UNCHANGED <<cohorts, wish, converted>>,
           \A c \in Cohort : lock'[c] = lock[c] \/ (lock[c] = k /\ lock'[c] = Nothing),
           \A p \in Person : advance[p] # 0 => advance'[p] # 0
    PROVE  Rest'
<1> USE ConstantsAssumption DEF IInv
<1>1. tx'[k] = r /\ \A j \in Client \ {k} : tx'[j] = tx[j]
  BY DEF TypeOK
<1>2. \A j \in Client : Same(tx'[j], tx[j]) \/ Bare(tx'[j])
  BY <1>1 DEF Same
<1>3. \A j \in Client : \A p \in tx[j].due :
          ~Bare(tx'[j]) => advance'[p] # 0 /\ p \notin converted'
  BY <1>1, RequestType DEF DueOnce
<1>4. \A j \in Client, c \in Cohort : lock[c] = j => lock'[c] = j \/ Bare(tx'[j])
  BY <1>1
<1> QED
  BY <1>1, <1>2, <1>3, <1>4, QuietStep DEF WishedIsDeclared

\* A new wish, or one of a person's own taken back.
LEMMA OwnWish ==
    ASSUME IInv, NEW k \in Client, NEW level \in Nat,
           Running(k, "wish", "read") \/ Running(k, "unwish", "read"),
           WishFree(k, tx[k].cohort, tx[k].person), tx[k].cohort \in declared \/ level = 0,
           wish' = [wish EXCEPT ![tx[k].cohort][tx[k].person] = level],
           UNCHANGED <<cohorts, advance, converted, lock>>, Bare(tx'[k]),
           \A j \in Client \ {k} : Same(tx'[j], tx[j]) \/ Bare(tx'[j])
    PROVE  Rest'
<1> USE ConstantsAssumption DEF IInv
<1>1. \A c \in Cohort, p \in Person :
          wish'[c][p] = IF c = tx[k].cohort /\ p = tx[k].person THEN level ELSE wish[c][p]
  BY DEF TypeOK
<1>2. tx[k].due = {}
  BY DEF Running, OnlyWhereTheyBelong
<1>3. \A j \in Client : Same(tx'[j], tx[j]) \/ Bare(tx'[j])
  OBVIOUS
<1>4. ASSUME NEW j \in Client, NEW p \in tx[j].due, NEW c \in tx[j].onto,
             ~Bare(tx'[j]), wish'[c][p] = 0
      PROVE  wish[c][p] = 0
  <2>1. c \in Cohort /\ p \in Person /\ j # k
    BY <1>2, RequestType
  <2>2. ConvertedBy(j, p)
    BY DEF ConvertedBy, OnlyWhereTheyBelong
  <2>3. ~(c = tx[k].cohort /\ p = tx[k].person)
    BY <2>1, <2>2 DEF WishFree
  <2> QED
    BY <1>1, <1>4, <2>1, <2>3
<1>5. \A j \in Client : \A p \in tx[j].due : advance'[p] # 0 /\ p \notin converted'
  BY DEF DueOnce
<1>6. \A c \in Cohort, p \in Person : wish'[c][p] # 0 => wish[c][p] # 0 \/ c \in declared
  BY <1>1
<1> QED
  BY <1>3, <1>4, <1>5, <1>6, QuietStep

-----------------------------------------------------------------------------

\* A declaration has its cohort for itself.
LEMMA DeclareRest ==
    ASSUME IInv, NEW k \in Client, NEW c \in Cohort, Declare(k, c)
    PROVE  Rest'
<1> USE ConstantsAssumption DEF IInv, Declare, cohorts, wishes, semester
<1>1. /\ tx'[k].op = "declare" /\ tx'[k].cohort = c /\ tx'[k].due = {} /\ tx'[k].dropped = {}
      /\ \A j \in Client \ {k} : tx'[j] = tx[j]
  BY DEF Begin, TypeOK, Idle
<1>2. OnlyWhereTheyBelong'
  BY <1>1 DEF OnlyWhereTheyBelong
<1>3. OwnCohort'
  BY <1>1 DEF OwnCohort
<1>4. DueOnce'
  BY <1>1 DEF DueOnce
<1>5. OntoStays'
  BY <1>1 DEF OntoStays, SeesCohorts
<1> QED
  BY <1>2, <1>3, <1>4, <1>5 DEF Rest, WishedIsDeclared

\* Whom a conversion takes, nobody else is converting, and where it adds a wish
\* the cohort is free.
LEMMA ConvertRest ==
    ASSUME IInv, NEW k \in Client, Convert(k)
    PROVE  Rest'
<1> USE ConstantsAssumption DEF IInv, cohorts, wishes, semester
<1>1. /\ tx'[k].op = tx[k].op /\ tx'[k].at = "ready" /\ tx'[k].cohort = tx[k].cohort
      /\ tx'[k].due = Due(k) /\ tx'[k].onto = SeesCohorts(k) /\ tx'[k].dropped = tx[k].dropped
      /\ \A j \in Client \ {k} : tx'[j] = tx[j]
  <2>1. tx[k] \in Request
    BY RequestType DEF Convert
  <2> QED
    BY <2>1 DEF Convert, TypeOK, Request
<1>2. tx[k].op \in {"announce", "declare"} /\ tx[k].at = "written" /\ tx[k].dropped = {}
  BY DEF Convert, OnlyWhereTheyBelong
<1>3. UNCHANGED <<semester, cohorts, wishes, lock>>
  BY DEF Convert
<1>4. OnlyWhereTheyBelong'
  BY <1>1, <1>2 DEF OnlyWhereTheyBelong
<1>5. OwnCohort'
  BY <1>1, <1>2, <1>3 DEF OwnCohort
<1>6. DueOnce'
  <2>1. ASSUME NEW p \in Due(k), NEW j \in Client \ {k} PROVE p \notin tx[j].due
    <3>1. AdvanceFree(k, p)
      BY DEF Convert
    <3> QED
      BY <3>1 DEF AdvanceFree, ConvertedBy, OnlyWhereTheyBelong
  <2>2. \A p \in Due(k) : advance[p] # 0 /\ p \notin converted
    BY DEF Due
  <2> QED
    BY <1>1, <1>3, <2>1, <2>2 DEF DueOnce
<1>7. OntoStays'
  <2>1. SeesCohorts(k)' = SeesCohorts(k)
    BY <1>1, <1>3 DEF SeesCohorts
  <2>2. \A p \in Due(k), c \in SeesCohorts(k) : wish[c][p] = 0 => lock[c] = Nothing
    BY DEF Convert
  <2>3. \A p \in Due(k), c \in SeesCohorts(k), j \in Client : <<c, p>> \notin tx[j].dropped
    BY <1>2 DEF Convert, WishFree
  <2>4. \A j \in Client \ {k} : SeesCohorts(j)' = SeesCohorts(j)
    BY <1>1, <1>3 DEF SeesCohorts
  <2> SUFFICES ASSUME NEW j \in Client, NEW p \in tx'[j].due, NEW c \in tx'[j].onto
               PROVE  /\ c \in SeesCohorts(j)'
                      /\ wish'[c][p] = 0 => lock'[c] = Nothing
                      /\ \A i \in Client : <<c, p>> \notin tx'[i].dropped
    BY DEF OntoStays
  <2>5. CASE j = k
    BY <1>1, <1>3, <2>1, <2>2, <2>3, <2>5
  <2>6. CASE j # k
    BY <1>1, <1>3, <2>4, <2>6 DEF OntoStays
  <2> QED
    BY <2>5, <2>6
<1>8. WishedIsDeclared'
  BY <1>3 DEF WishedIsDeclared
<1> QED
  BY <1>4, <1>5, <1>6, <1>7, <1>8 DEF Rest

\* The commit of a conversion adds wishes for cohorts that are there, and others
\* have nothing to do with the people it converts.
LEMMA ReleaseRest ==
    ASSUME IInv, NEW k \in Client, Release(k)
    PROVE  Rest'
<1> USE ConstantsAssumption DEF IInv
<1>1. /\ tx'[k] = Idle /\ \A j \in Client \ {k} : tx'[j] = tx[j]
      /\ declared' = SeesCohorts(k) /\ declared \subseteq declared'
      /\ gone' = gone /\ lock' = lock /\ advance' = advance
      /\ converted' = converted \cup tx[k].due
  BY DEF Release, Answer, SeesCohorts, TypeOK
<1>2. \A c \in Cohort, p \in Person :
          wish'[c][p] = IF c \in tx[k].onto /\ p \in tx[k].due
                        THEN Stronger(wish[c][p], advance[p]) ELSE wish[c][p]
  BY DEF Release
<1>3. OnlyWhereTheyBelong'
  BY <1>1 DEF OnlyWhereTheyBelong, Idle
<1>4. OwnCohort'
  <2>1. \A j \in Client \ {k} : tx[j].op = "declare" => tx[j].cohort \notin declared'
    BY <1>1 DEF OwnCohort, SeesCohorts
  <2> QED
    BY <1>1, <2>1 DEF OwnCohort, Idle
<1>5. DueOnce'
  BY <1>1 DEF DueOnce, Idle
<1>6. OntoStays'
  <2> SUFFICES ASSUME NEW j \in Client, NEW p \in tx'[j].due, NEW c \in tx'[j].onto
               PROVE  /\ c \in SeesCohorts(j)'
                      /\ wish'[c][p] = 0 => lock'[c] = Nothing
                      /\ \A i \in Client : <<c, p>> \notin tx'[i].dropped
    BY DEF OntoStays
  <2>1. j # k /\ p \in tx[j].due /\ c \in tx[j].onto
    BY <1>1 DEF Idle
  <2>2. c \in Cohort /\ p \in Person /\ p \notin tx[k].due
    BY <2>1, RequestType DEF DueOnce
  <2>3. c \in SeesCohorts(j)'
    BY <1>1, <2>1 DEF OntoStays, SeesCohorts
  <2>4. wish'[c][p] = wish[c][p]
    BY <1>2, <2>2
  <2>5. \A i \in Client : <<c, p>> \notin tx'[i].dropped
    BY <1>1, <2>1 DEF OntoStays, Idle
  <2> QED
    BY <1>1, <2>1, <2>3, <2>4, <2>5 DEF OntoStays
<1>7. WishedIsDeclared'
  BY <1>1, <1>2 DEF WishedIsDeclared, OntoStays
<1> QED
  BY <1>3, <1>4, <1>5, <1>6, <1>7 DEF Rest

\* A withdrawal waits for a wish that is being added to its cohort.
LEMMA WithdrawBeginRest ==
    ASSUME IInv, NEW k \in Client, NEW c \in Cohort, WithdrawBegin(k, c)
    PROVE  Rest'
<1> USE ConstantsAssumption DEF IInv, WithdrawBegin, cohorts, wishes, semester
<1>1. /\ tx'[k].op = "withdraw" /\ tx'[k].cohort = c /\ tx'[k].due = {} /\ tx'[k].dropped = {}
      /\ \A j \in Client \ {k} : tx'[j] = tx[j]
  BY DEF Begin, TypeOK, Idle
<1>2. lock'[c] = k /\ \A d \in Cohort \ {c} : lock'[d] = lock[d]
  BY DEF TypeOK
<1>3. OnlyWhereTheyBelong'
  BY <1>1 DEF OnlyWhereTheyBelong
<1>4. OwnCohort'
  BY <1>1, <1>2 DEF OwnCohort
<1>5. DueOnce'
  BY <1>1 DEF DueOnce
<1>6. OntoStays'
  <2> SUFFICES ASSUME NEW j \in Client, NEW p \in tx'[j].due, NEW d \in tx'[j].onto
               PROVE  /\ d \in SeesCohorts(j)'
                      /\ wish'[d][p] = 0 => lock'[d] = Nothing
                      /\ \A i \in Client : <<d, p>> \notin tx'[i].dropped
    BY DEF OntoStays
  <2>1. j # k /\ p \in tx[j].due /\ d \in tx[j].onto /\ d \in Cohort
    BY <1>1, RequestType
  <2>2. ConvertedBy(j, p)
    BY <2>1 DEF ConvertedBy, OnlyWhereTheyBelong
  <2>3. d = c => wish[d][p] # 0
    BY <2>1, <2>2 DEF Inserted
  <2>4. d \in SeesCohorts(j)'
    BY <1>1, <2>1 DEF OntoStays, SeesCohorts
  <2>5. \A i \in Client : <<d, p>> \notin tx'[i].dropped
    BY <1>1, <2>1 DEF OntoStays
  <2> QED
    BY <1>2, <2>1, <2>3, <2>4, <2>5 DEF OntoStays
<1> QED
  BY <1>3, <1>4, <1>5, <1>6 DEF Rest, WishedIsDeclared

\* What a merge decides to drop, nobody is converting into.
LEMMA HandOverRest ==
    ASSUME IInv, NEW k \in Client, HandOver(k)
    PROVE  Rest'
<1> USE ConstantsAssumption DEF IInv
<1> DEFINE c == tx[k].cohort
<1>1. /\ tx[k].op = "withdraw" /\ tx'[k].op = "withdraw" /\ tx'[k].at = "ready"
      /\ tx'[k].cohort = c /\ tx'[k].due = {}
      /\ \A j \in Client \ {k} : tx'[j] = tx[j]
  <2>1. tx[k] \in Request /\ tx[k].op = "withdraw" /\ tx[k].due = {}
    BY RequestType DEF HandOver, Running, OnlyWhereTheyBelong
  <2>2. CASE tx' = [tx EXCEPT ![k].at = "ready"]
    BY <2>1, <2>2 DEF TypeOK, Request
  <2>3. ASSUME NEW t, NEW dropped,
               tx' = [tx EXCEPT ![k].at = "ready", ![k].target = t, ![k].dropped = dropped]
        PROVE  /\ tx'[k].op = "withdraw" /\ tx'[k].at = "ready" /\ tx'[k].cohort = c
               /\ tx'[k].due = {}
               /\ \A j \in Client \ {k} : tx'[j] = tx[j]
    BY <2>1, <2>3 DEF TypeOK, Request
  <2> QED
    BY <2>1, <2>2, <2>3 DEF HandOver
<1>2. UNCHANGED <<semester, cohorts, wishes, lock>>
  BY DEF HandOver
<1>3. \A d, p : <<d, p>> \in tx'[k].dropped =>
          p \in Person /\ d \in Cohort /\ WishFree(k, d, p)
  <2>1. tx[k] \in Request /\ tx[k].dropped = {} /\ c \in Cohort
    BY RequestType DEF HandOver, Running, OnlyWhereTheyBelong, OwnCohort
  <2>2. CASE tx' = [tx EXCEPT ![k].at = "ready"]
    BY <2>1, <2>2 DEF TypeOK
  <2>3. ASSUME NEW t \in declared \ {c}, NEW weaker \in [WishedForBoth(c, t) -> {c, t}],
               \A p \in WishedForBoth(c, t) : WishFree(k, c, p) /\ WishFree(k, t, p),
               tx' = [tx EXCEPT ![k].at = "ready", ![k].target = t,
                                ![k].dropped = {<<weaker[p], p>> : p \in WishedForBoth(c, t)}]
        PROVE  \A d, p : <<d, p>> \in tx'[k].dropped =>
                   p \in Person /\ d \in Cohort /\ WishFree(k, d, p)
    <3>1. tx'[k].dropped = {<<weaker[p], p>> : p \in WishedForBoth(c, t)}
      BY <2>1, <2>3 DEF TypeOK, Request
    <3> QED
      BY <2>1, <2>3, <3>1 DEF WishedForBoth, TypeOK
  <2> QED
    BY <2>2, <2>3 DEF HandOver
<1>4. OnlyWhereTheyBelong'
  BY <1>1 DEF OnlyWhereTheyBelong
<1>5. OwnCohort'
  BY <1>1, <1>2 DEF OwnCohort, cohorts
<1>6. DueOnce'
  BY <1>1, <1>2 DEF DueOnce, wishes
<1>7. OntoStays'
  <2> SUFFICES ASSUME NEW j \in Client, NEW p \in tx'[j].due, NEW d \in tx'[j].onto
               PROVE  /\ d \in SeesCohorts(j)'
                      /\ wish'[d][p] = 0 => lock'[d] = Nothing
                      /\ \A i \in Client : <<d, p>> \notin tx'[i].dropped
    BY DEF OntoStays
  <2>1. j # k /\ p \in tx[j].due /\ d \in tx[j].onto
    BY <1>1
  <2>2. ConvertedBy(j, p)
    BY <2>1 DEF ConvertedBy, OnlyWhereTheyBelong
  <2>3. <<d, p>> \notin tx'[k].dropped
    BY <1>3, <2>1, <2>2 DEF WishFree
  <2>4. d \in SeesCohorts(j)'
    BY <1>1, <1>2, <2>1 DEF OntoStays, SeesCohorts, cohorts
  <2> QED
    BY <1>1, <1>2, <2>1, <2>3, <2>4 DEF OntoStays, wishes
<1>8. WishedIsDeclared'
  BY <1>2 DEF WishedIsDeclared, cohorts, wishes
<1> QED
  BY <1>4, <1>5, <1>6, <1>7, <1>8 DEF Rest

\* A withdrawal leaves no wish behind for its cohort, and nobody was converting
\* into it: where a wish is being added the row was locked, and where one is
\* being changed it cannot be moved.
LEMMA WithdrawRest ==
    ASSUME IInv, NEW k \in Client, Withdraw(k)
    PROVE  Rest'
<1> USE ConstantsAssumption DEF IInv
<1> DEFINE c == tx[k].cohort
           t == tx[k].target
<1>1. c \in Cohort /\ lock[c] = k /\ c \in declared /\ tx[k].due = {}
  BY DEF Withdraw, Running, OwnCohort, OnlyWhereTheyBelong, TypeOK
<1>2. /\ declared' = declared \ {c} /\ gone' = gone \cup {c}
      /\ \A d \in Cohort : lock'[d] = IF lock[d] = k THEN Nothing ELSE lock[d]
      /\ UNCHANGED <<advance, converted>>
  BY DEF Withdraw, Unlock
<1>3. \A d \in Cohort, p \in Person :
          wish'[d][p] = IF d = t /\ p \in Left(k) THEN wish[c][p]
                        ELSE IF <<d, p>> \in tx[k].dropped \/ d = c THEN 0 ELSE wish[d][p]
  BY DEF Withdraw
<1>4. \A j \in Client : (tx'[j] = tx[j] /\ j # k) \/ Bare(tx'[j])
  <2>1. ASSUME NEW j \in Client, tx[j].op = "unwish" PROVE Bare([tx[j] EXCEPT !.cohort = t])
    <3>1. tx[j] \in Request /\ tx[j].due = {} /\ tx[j].dropped = {}
      BY <2>1, RequestType DEF OnlyWhereTheyBelong
    <3> QED
      BY <2>1, <3>1 DEF Bare, Request
  <2>2. Bare(Idle)
    BY DEF Bare, Idle
  <2> QED
    BY <2>1, <2>2 DEF Withdraw
<1>5. Left(k) # {} => t # Nothing /\ MovedTo(k, t)
  BY DEF Withdraw
<1>6. OnlyWhereTheyBelong'
  BY <1>4 DEF OnlyWhereTheyBelong, Bare
<1>7. OwnCohort'
  <2>1. \A j \in Client \ {k} : tx[j].op = "withdraw" => tx[j].cohort # c
    BY <1>1 DEF OwnCohort
  <2>2. \A j \in Client : tx[j].op = "declare" => tx[j].cohort # c
    BY <1>1 DEF OwnCohort
  <2> QED
    BY <1>2, <1>4, <2>1, <2>2 DEF OwnCohort, Bare
<1>8. DueOnce'
  BY <1>2, <1>4 DEF DueOnce, Bare
<1>9. OntoStays'
  <2> SUFFICES ASSUME NEW j \in Client, NEW p \in tx'[j].due, NEW d \in tx'[j].onto
               PROVE  /\ d \in SeesCohorts(j)'
                      /\ wish'[d][p] = 0 => lock'[d] = Nothing
                      /\ \A i \in Client : <<d, p>> \notin tx'[i].dropped
    BY DEF OntoStays
  <2>1. j # k /\ p \in tx[j].due /\ d \in tx[j].onto /\ tx'[j] = tx[j]
    BY <1>4 DEF Bare
  <2>2. p \in Person /\ d \in Cohort /\ ConvertedBy(j, p)
    BY <2>1, RequestType DEF ConvertedBy, OnlyWhereTheyBelong
  <2>3. \A i \in Client : <<d, p>> \notin tx[i].dropped
    BY <2>1 DEF OntoStays
  <2>4. d # c
    <3> SUFFICES ASSUME d = c PROVE FALSE
      OBVIOUS
    <3>1. wish[c][p] # 0
      BY <1>1, <2>1 DEF OntoStays
    <3>2. p \in Left(k)
      BY <2>2, <2>3, <3>1 DEF Left
    <3>3. WishFree(k, c, p)
      BY <1>5, <3>2 DEF MovedTo
    <3> QED
      BY <2>1, <2>2, <3>3 DEF WishFree
  <2>5. d \in SeesCohorts(j)'
    BY <1>2, <2>1, <2>4 DEF OntoStays, SeesCohorts
  <2>6. wish'[d][p] = 0 => wish[d][p] = 0
    <3>1. wish'[d][p] = IF d = t /\ p \in Left(k) THEN wish[c][p] ELSE wish[d][p]
      BY <1>3, <2>2, <2>3, <2>4
    <3> QED
      BY <3>1 DEF Left
  <2>7. wish'[d][p] = 0 => lock'[d] = Nothing
    BY <1>2, <2>1, <2>2, <2>6 DEF OntoStays
  <2>8. \A i \in Client : <<d, p>> \notin tx'[i].dropped
    BY <1>4, <2>3 DEF Bare
  <2> QED
    BY <2>5, <2>7, <2>8
<1>10. WishedIsDeclared'
  <2> SUFFICES ASSUME NEW d \in Cohort, NEW p \in Person, wish'[d][p] # 0
               PROVE  d \in declared'
    BY DEF WishedIsDeclared
  <2>1. CASE d = t /\ p \in Left(k)
    <3>1. t \in declared /\ (wish[t][p] = 0 \/ <<t, p>> \in tx[k].dropped)
      BY <1>5, <2>1 DEF MovedTo
    <3>2. t # c
      BY <2>1, <3>1 DEF Left
    <3> QED
      BY <1>2, <2>1, <3>1, <3>2
  <2>2. CASE ~(d = t /\ p \in Left(k))
    BY <1>2, <1>3, <2>2 DEF WishedIsDeclared
  <2> QED
    BY <2>1, <2>2
<1> QED
  BY <1>6, <1>7, <1>8, <1>9, <1>10 DEF Rest

-----------------------------------------------------------------------------

\* What a new request has.
LEMMA BegunBare ==
    ASSUME NEW op \in Operation \ {"declare", "withdraw"}, NEW at, NEW p, NEW c
    PROVE  Bare([Idle EXCEPT !.op = op, !.at = at, !.person = p, !.cohort = c,
                             !.phase = phase])
BY DEF Idle, Bare, Operation

\* No request has nothing.
LEMMA IdleBare == Bare(Idle)
BY DEF Idle, Bare

\* Noting a write of one's own changes nothing a request holds on to.
LEMMA UnseenSame ==
    ASSUME IInv, NEW p, NEW j \in Client
    PROVE  Same(Unseen(p)[j], tx[j])
<1>1. CASE Unseen(p)[j] = tx[j]
  BY <1>1 DEF Same
<1>2. CASE \E c \in Cohort : <<c, p>> \in tx[j].dropped
  <2>1. tx[j] \in Request
    BY <1>2, RequestType DEF IInv, OnlyWhereTheyBelong
  <2> QED
    BY <1>2, <2>1 DEF Unseen, Same, Request
<1> QED
  BY <1>1, <1>2 DEF Unseen

LEMMA InvariantStep == IInv /\ [Next]_vars => IInv'
<1> SUFFICES ASSUME IInv, [Next]_vars PROVE Rest'
  BY TypeInvariant DEF IInv, Rest
<1> USE ConstantsAssumption
<1>1. ASSUME WithdrawRelease PROVE Rest'
  BY <1>1 DEF WithdrawRelease, Rest, IInv, OnlyWhereTheyBelong, OwnCohort, DueOnce, OntoStays,
     WishedIsDeclared, SeesCohorts, cohorts, wishes
<1>2. ASSUME NEW p \in Person, WithdrawAdvance(p) PROVE Rest'
  <2>1. \A j \in Client : p \notin tx[j].due
    BY <1>2 DEF WithdrawAdvance, ConvertedBy, IInv, OnlyWhereTheyBelong
  <2>2. \A q \in Person \ {p} : advance'[q] = advance[q]
    BY <1>2 DEF WithdrawAdvance, IInv, TypeOK
  <2>3. DueOnce'
    BY <1>2, <2>1, <2>2, RequestType DEF WithdrawAdvance, DueOnce, IInv
  <2> QED
    BY <1>2, <2>3 DEF WithdrawAdvance, Rest, IInv, OnlyWhereTheyBelong, OwnCohort, OntoStays,
       WishedIsDeclared, SeesCohorts, cohorts
<1>3. ASSUME NEW k \in Client, PhaseRead(k) PROVE Rest'
  BY <1>3, BegunBare, BareRequest DEF PhaseRead, Begin, Operation, cohorts, wishes
<1>4. ASSUME NEW k \in Client, NEW to \in Phase, PhaseWrite(k, to) PROVE Rest'
  BY <1>4, IdleBare, BareRequest DEF PhaseWrite, Answer, Operation, cohorts, wishes
<1>5. ASSUME NEW k \in Client, NEW p \in Person, AdvanceRead(k, p) PROVE Rest'
  BY <1>5, BegunBare, BareRequest DEF AdvanceRead, Begin, Operation, cohorts, wishes
<1>6. ASSUME NEW k \in Client, NEW level \in 1..Weakest, AdvanceWrite(k, level) PROVE Rest'
  <2>1. \A p \in Person : advance[p] # 0 => advance'[p] # 0
    BY <1>6, LevelType DEF AdvanceWrite, IInv, TypeOK
  <2> QED
    BY <1>6, <2>1, IdleBare, BareRequest DEF AdvanceWrite, Answer, Operation, cohorts
<1>7. ASSUME NEW k \in Client, Announce(k) PROVE Rest'
  BY <1>7, BegunBare, BareRequest DEF Announce, Begin, Operation, cohorts, wishes
<1>8. ASSUME NEW k \in Client, NEW c \in Cohort, Declare(k, c) PROVE Rest'
  BY <1>8, DeclareRest
<1>9. ASSUME NEW k \in Client, NEW c \in Cohort, WithdrawBegin(k, c) PROVE Rest'
  BY <1>9, WithdrawBeginRest
<1>10. ASSUME NEW k \in Client, Convert(k) \/ Release(k) PROVE Rest'
  BY <1>10, ConvertRest, ReleaseRest
<1>11. ASSUME NEW k \in Client, NEW p \in Person, NEW c \in Cohort, WishRead(k, p, c) PROVE Rest'
  BY <1>11, BegunBare, BareRequest DEF WishRead, Begin, Operation, cohorts, wishes
<1>12. ASSUME NEW k \in Client, NEW p \in Person, NEW c \in Cohort, UnwishRead(k, p, c) PROVE Rest'
  BY <1>12, BegunBare, BareRequest DEF UnwishRead, Begin, Operation, cohorts, wishes
<1>13. ASSUME NEW k \in Client, NEW level \in 1..Weakest, WishWrite(k, level) PROVE Rest'
  <2>1. Bare(tx'[k]) /\ \A j \in Client \ {k} : Same(tx'[j], tx[j])
    <3>1. Unseen(tx[k].person) \in [Client -> {Unseen(tx[k].person)[j] : j \in Client}]
      BY DEF Unseen
    <3> QED
      BY <1>13, <3>1, IdleBare, UnseenSame DEF WishWrite
  <2>2. level \in Nat
    OBVIOUS
  <2> QED
    BY <1>13, <2>1, <2>2, OwnWish DEF WishWrite, cohorts
<1>14. ASSUME NEW k \in Client, Unwish(k) PROVE Rest'
  <2>1. Bare(tx'[k]) /\ \A j \in Client \ {k} : Same(tx'[j], tx[j]) \/ Bare(tx'[j])
    BY <1>14, IdleBare, UnseenSame, RequestType DEF Unwish, IInv, TypeOK
  <2> QED
    BY <1>14, <2>1, OwnWish DEF Unwish, cohorts
<1>15. ASSUME NEW k \in Client, HandOver(k) \/ Withdraw(k) PROVE Rest'
  BY <1>15, HandOverRest, WithdrawRest
<1>16. ASSUME NEW k \in Client, Abort(k) PROVE Rest'
  <2>1. \A c \in Cohort : lock'[c] = lock[c] \/ (lock[c] = k /\ lock'[c] = Nothing)
    BY <1>16 DEF Abort, Unlock
  <2> QED
    BY <1>16, <2>1, IdleBare, BareRequest DEF Abort, Answer, cohorts, wishes
<1>17. CASE UNCHANGED vars
  BY <1>17 DEF vars, Rest, IInv, OnlyWhereTheyBelong, OwnCohort, DueOnce, OntoStays,
     WishedIsDeclared, SeesCohorts
<1> QED
  BY <1>1, <1>2, <1>3, <1>4, <1>5, <1>6, <1>7, <1>8, <1>9, <1>10, <1>11, <1>12, <1>13,
     <1>14, <1>15, <1>16, <1>17 DEF Next

\* What the argument rests on holds in every state.
THEOREM Invariance == Spec => []IInv
BY InvariantInit, InvariantStep, PTL DEF Spec

\* Only what was noted down is converted, and only rows that are there are locked
\* (convertPendingAdvanceWishes, LockCoverageGroup).
THEOREM TypeCorrect == Spec => []TypeOK
<1>1. IInv => TypeOK
  BY DEF IInv
<1> QED
  BY <1>1, Invariance, PTL

\* A wish is for a cohort that is there: whatever arrives between the statements
\* of a withdrawal, it takes no wish with it (DeleteCourseInstance).
THEOREM WishesAreForCohorts == Spec => []WishedIsDeclared
<1>1. IInv => WishedIsDeclared
  BY DEF IInv
<1> QED
  BY <1>1, Invariance, PTL

\* The phase moves one step at a time, for any number of administrators and
\* phases (AdvancePhase).
THEOREM OneStep == Spec => PhaseMovesOneStep
<1>1. [Next]_vars => [phase' # phase => Adjacent(phase, phase')]_vars
  BY DEF Next, vars, semester, WithdrawRelease, WithdrawAdvance, PhaseRead, PhaseWrite,
     AdvanceRead, AdvanceWrite, Announce, Declare, WithdrawBegin, Convert, Release, WishRead,
     UnwishRead, WishWrite, Unwish, HandOver, Withdraw, Abort
<1> QED
  BY <1>1, PTL DEF Spec, PhaseMovesOneStep

\* A wish that is withdrawn does not come back: an advance wish becomes wishes
\* once, whoever releases and declares at the same time (ConvertAdvanceWishes).
THEOREM ComeOnce == Spec => WishesComeOnce
<1> DEFINE Came(c, p) == /\ wish[c][p] = 0
                         /\ wish'[c][p] # 0
           Reason(c, p) ==
               \/ \E k \in Client, level \in 1..Weakest : tx[k].person = p /\ WishWrite(k, level)
               \/ p \in converted' \ converted
               \/ \E d \in declared \ declared' : Wishes(d, p)
<1>1. ASSUME IInv, [Next]_vars, NEW c \in Cohort, NEW p \in Person, Came(c, p)
      PROVE  Reason(c, p)
  <2>1. ASSUME NEW k \in Client, NEW level \in 1..Weakest, WishWrite(k, level)
        PROVE  Reason(c, p)
    <3>1. tx[k].person = p
      BY <1>1, <2>1 DEF WishWrite, IInv, TypeOK
    <3> QED
      BY <2>1, <3>1
  <2>2. ASSUME NEW k \in Client, Release(k) PROVE Reason(c, p)
    BY <1>1, <2>2 DEF Release, IInv, DueOnce
  <2>3. ASSUME NEW k \in Client, Withdraw(k) PROVE Reason(c, p)
    <3>1. tx[k].cohort \in declared \ declared'
      BY <1>1, <2>3, ConstantsAssumption DEF Withdraw, Running, IInv, OwnCohort, TypeOK
    <3>2. p \in Left(k)
      BY <1>1, <2>3 DEF Withdraw
    <3> QED
      BY <3>1, <3>2 DEF Left, Wishes
  <2>4. ASSUME NEW k \in Client, Unwish(k) PROVE wish'[c][p] = 0 \/ wish'[c][p] = wish[c][p]
    BY <1>1, <2>4 DEF Unwish, IInv, TypeOK
  <2>5. CASE wish' = wish
    BY <1>1, <2>5
  <2> QED
    BY <1>1, <2>1, <2>2, <2>3, <2>4, <2>5 DEF Next, vars, wishes, WithdrawRelease,
       WithdrawAdvance, PhaseRead, PhaseWrite, AdvanceRead, AdvanceWrite, Announce, Declare,
       WithdrawBegin, Convert, WishRead, UnwishRead, HandOver, Abort
<1>2. IInv /\ [Next]_vars =>
          [\A c \in Cohort, p \in Person : ~Wishes(c, p) /\ Wishes(c, p)' => Reason(c, p)]_vars
  BY <1>1 DEF Wishes
<1> QED
  BY <1>2, Invariance, PTL DEF Spec, WishesComeOnce

-----------------------------------------------------------------------------
(* Merges keep the strongest wish.                                         *)

\* Priorities are compared as numbers.
LEMMA WishIsNumber ==
    TypeOK => \A c \in Cohort, p \in Person : wish[c][p] \in Nat
BY ConstantsAssumption DEF TypeOK, Level

\* A step that decides on no merge: what was to be deleted is as it was, and
\* something still stands where something stood.
LEMMA MergesStand ==
    ASSUME MergeInv, TypeOK',
           \A j \in Client : \/ tx'[j].dropped = {}
                             \/ tx'[j].dropped = tx[j].dropped /\ tx[j].late \subseteq tx'[j].late,
           \A j \in Client, d \in Cohort, p \in Person :
               <<d, p>> \in tx'[j].dropped /\ p \notin tx'[j].late =>
                   /\ wish'[d][p] = wish[d][p]
                   /\ \A e \in Cohort : Stands(e, p) =>
                          \E f \in Cohort : Stands(f, p)' /\ wish'[f][p] <= wish[e][p]
    PROVE  (DroppedOnce /\ AnotherStands)'
<1>1. DroppedOnce'
  BY DEF DroppedOnce, MergeInv
<1>2. ASSUME NEW k \in Client, NEW d \in Cohort, NEW p \in Person,
             <<d, p>> \in tx'[k].dropped, p \notin tx'[k].late
      PROVE  \E e \in Cohort : Stands(e, p)' /\ wish'[e][p] <= wish'[d][p]
  <2>1. <<d, p>> \in tx[k].dropped /\ p \notin tx[k].late
    BY <1>2
  <2>2. PICK e \in Cohort : Stands(e, p) /\ wish[e][p] <= wish[d][p]
    BY <2>1 DEF AnotherStands, MergeInv
  <2>3. PICK f \in Cohort : Stands(f, p)' /\ wish'[f][p] <= wish[e][p]
    BY <1>2, <2>2
  <2>4. wish'[d][p] = wish[d][p]
    BY <1>2
  <2>5. wish[d][p] \in Nat /\ wish[e][p] \in Nat /\ wish'[f][p] \in Nat
    <3>1. wish \in [Cohort -> [Person -> Nat]] /\ wish' \in [Cohort -> [Person -> Nat]]
      BY ConstantsAssumption DEF MergeInv, IInv, TypeOK, Level
    <3> QED
      BY <3>1
  <2>6. wish'[f][p] <= wish'[d][p]
    BY <2>2, <2>3, <2>4, <2>5
  <2> QED
    BY <2>3, <2>6
<1> QED
  BY <1>1, <1>2 DEF AnotherStands

\* Nothing is written, and no more is to be deleted.
LEMMA QuietMerges ==
    ASSUME MergeInv, TypeOK', wish' = wish,
           \A j \in Client : \/ tx'[j].dropped = {}
                             \/ tx'[j].dropped = tx[j].dropped /\ tx[j].late \subseteq tx'[j].late
    PROVE  (DroppedOnce /\ AnotherStands)'
<1>1. ASSUME NEW e \in Cohort, NEW p \in Person, Stands(e, p)
      PROVE  Stands(e, p)' /\ wish'[e][p] <= wish[e][p]
  <2>1. wish[e][p] \in Nat
    BY WishIsNumber DEF MergeInv, IInv
  <2> QED
    BY <1>1, <2>1 DEF Stands, Wishes
<1> QED
  BY <1>1, MergesStand

\* A conversion makes no wish weaker, and touches none that is to be deleted.
LEMMA ReleaseMerges ==
    ASSUME MergeInv, TypeOK', NEW k \in Client, Release(k)
    PROVE  /\ (DroppedOnce /\ AnotherStands)'
           /\ \A c \in Cohort, p \in Person :
                  Wishes(c, p) => Wishes(c, p)' /\ wish'[c][p] <= wish[c][p]
<1>1. tx'[k] = Idle /\ \A j \in Client \ {k} : tx'[j] = tx[j]
  BY DEF Release, Answer, MergeInv, IInv, TypeOK
<1>2. \A c \in Cohort, p \in Person :
          wish'[c][p] = IF c \in tx[k].onto /\ p \in tx[k].due
                        THEN Stronger(wish[c][p], advance[p]) ELSE wish[c][p]
  BY DEF Release
<1>3. \A p \in tx[k].due : advance[p] # 0 /\ advance[p] \in Nat
  BY RequestType, ConstantsAssumption DEF MergeInv, IInv, DueOnce, TypeOK, Level
<1>4. ASSUME NEW c \in Cohort, NEW p \in Person, Wishes(c, p)
      PROVE  Wishes(c, p)' /\ wish'[c][p] <= wish[c][p]
  <2>1. wish[c][p] \in Nat /\ wish[c][p] # 0
    BY <1>4, WishIsNumber DEF MergeInv, IInv, Wishes
  <2>2. wish'[c][p] # 0 /\ wish'[c][p] <= wish[c][p]
    BY <1>2, <1>3, <2>1 DEF Stronger
  <2> QED
    BY <2>2 DEF Wishes
<1>5. ASSUME NEW j \in Client, NEW d \in Cohort, NEW p \in Person, <<d, p>> \in tx'[j].dropped
      PROVE  wish'[d][p] = wish[d][p]
  <2>1. <<d, p>> \in tx[j].dropped
    BY <1>1, <1>5 DEF Idle
  <2> QED
    BY <1>2, <2>1 DEF MergeInv, IInv, OntoStays
<1>6. ASSUME NEW e \in Cohort, NEW p \in Person, Stands(e, p)
      PROVE  Stands(e, p)' /\ wish'[e][p] <= wish[e][p]
  BY <1>1, <1>4, <1>6 DEF Stands, Idle
<1>7. \A j \in Client : tx'[j].dropped = {} \/ tx'[j] = tx[j]
  BY <1>1 DEF Idle
<1> QED
  BY <1>4, <1>5, <1>6, <1>7, MergesStand

\* Somebody's own wish: every merge that has decided about theirs is told, and
\* the others' wishes are as they were.
LEMMA OwnWishMerges ==
    ASSUME MergeInv, TypeOK', NEW k \in Client, NEW p \in Person,
           \A c \in Cohort, q \in Person : q # p => wish'[c][q] = wish[c][q],
           \A j \in Client : tx'[j] = Idle \/ tx'[j] = Unseen(p)[j]
    PROVE  (DroppedOnce /\ AnotherStands)'
<1>1. ASSUME NEW j \in Client
      PROVE  \/ tx'[j].dropped = {}
             \/ /\ tx'[j].dropped = tx[j].dropped /\ tx[j].late \subseteq tx'[j].late
                /\ \A c \in Cohort : <<c, p>> \in tx[j].dropped => p \in tx'[j].late
  <2>1. CASE tx'[j] = Idle
    BY <2>1 DEF Idle
  <2>2. CASE tx'[j] = Unseen(p)[j] /\ \E c \in Cohort : <<c, p>> \in tx[j].dropped
    <3>1. tx[j] \in Request
      BY <2>2, RequestType DEF MergeInv, IInv, OnlyWhereTheyBelong
    <3>2. tx'[j] = [tx[j] EXCEPT !.late = @ \cup {p}]
      BY <2>2 DEF Unseen
    <3> QED
      BY <3>1, <3>2 DEF Request
  <2>3. CASE tx'[j] = Unseen(p)[j] /\ ~ \E c \in Cohort : <<c, p>> \in tx[j].dropped
    BY <2>3 DEF Unseen
  <2> QED
    BY <2>1, <2>2, <2>3
<1>2. ASSUME NEW e \in Cohort, NEW q \in Person, q # p, Stands(e, q)
      PROVE  Stands(e, q)' /\ wish'[e][q] <= wish[e][q]
  <2>1. wish[e][q] \in Nat /\ wish'[e][q] = wish[e][q]
    BY <1>2, WishIsNumber DEF MergeInv, IInv
  <2> QED
    BY <1>1, <1>2, <2>1 DEF Stands, Wishes
<1> QED
  BY <1>1, <1>2, MergesStand

\* A merge decides on the weaker one of two wishes that nobody is to delete: the
\* other one stands, for it and for what the deleted one stood for.
LEMMA HandOverMerges ==
    ASSUME MergeInv, NEW k \in Client, HandOver(k)
    PROVE  (DroppedOnce /\ AnotherStands)'
<1> DEFINE c == tx[k].cohort
           both(t) == WishedForBoth(c, t)
<1>1. /\ IInv /\ TypeOK /\ DroppedOnce /\ AnotherStands /\ wish' = wish
      /\ tx[k] \in Request /\ tx[k].dropped = {} /\ c \in Cohort
  BY RequestType
  DEF MergeInv, IInv, HandOver, wishes, Running, OnlyWhereTheyBelong, OwnCohort
<1>2. CASE tx' = [tx EXCEPT ![k].at = "ready"]
  <2>1. \A j \in Client : tx'[j].dropped = tx[j].dropped /\ tx'[j].late = tx[j].late
    BY <1>1, <1>2 DEF TypeOK, Request
  <2>2. \A d \in Cohort, p \in Person : Stands(d, p) => Stands(d, p)'
    BY <1>1, <2>1 DEF Stands, Wishes
  <2>3. DroppedOnce'
    BY <1>1, <2>1 DEF DroppedOnce
  <2> QED
    BY <1>1, <2>1, <2>2, <2>3 DEF AnotherStands
<1>3. ASSUME NEW t \in declared \ {c}, NEW weaker \in [both(t) -> {c, t}],
             \A p \in both(t) : WishFree(k, c, p) /\ WishFree(k, t, p),
             \A p \in both(t) : weaker[p] \in WeakerOf(c, t, p),
             tx' = [tx EXCEPT ![k].at = "ready", ![k].target = t,
                              ![k].dropped = {<<weaker[p], p>> : p \in both(t)}]
      PROVE  (DroppedOnce /\ AnotherStands)'
  <2>1. /\ \A d, p : <<d, p>> \in tx'[k].dropped <=> p \in both(t) /\ d = weaker[p]
        /\ tx'[k].dropped \subseteq Cohort \X Person
        /\ \A j \in Client \ {k} : tx'[j] = tx[j]
    <3>1. /\ tx'[k].dropped = {<<weaker[p], p>> : p \in both(t)}
          /\ \A j \in Client \ {k} : tx'[j] = tx[j]
      BY <1>1, <1>3 DEF TypeOK, Request
    <3>2. \A p \in both(t) : p \in Person /\ weaker[p] \in Cohort
      BY <1>1, <1>3 DEF WishedForBoth, TypeOK
    <3> HIDE DEF both
    <3>3. tx'[k].dropped \subseteq Cohort \X Person
      BY <3>1, <3>2
    <3>4. \A d, p : <<d, p>> \in tx'[k].dropped <=> p \in both(t) /\ d = weaker[p]
      BY <3>1
    <3> QED
      BY <3>1, <3>3, <3>4
  <2>2. t \in Cohort /\ t # c
    BY <1>1, <1>3 DEF TypeOK
  <2>3. ASSUME NEW p \in both(t)
        PROVE  /\ weaker[p] \in {c, t}
               /\ \E o \in {c, t} : o # weaker[p] /\ wish[o][p] <= wish[weaker[p]][p]
               /\ \A j \in Client \ {k} : <<c, p>> \notin tx[j].dropped /\ <<t, p>> \notin tx[j].dropped
    BY <1>3, <2>2 DEF WeakerOf, WishFree
  <2>4. ASSUME NEW p \in both(t)
        PROVE  \E o \in Cohort : Stands(o, p)' /\ wish'[o][p] <= wish'[weaker[p]][p]
    <3>1. PICK o \in {c, t} : o # weaker[p] /\ wish[o][p] <= wish[weaker[p]][p]
      BY <2>3
    <3>2. o \in Cohort /\ wish[o][p] # 0
      BY <1>1, <2>2 DEF WishedForBoth
    <3>3. <<o, p>> \notin tx'[k].dropped
      BY <2>1, <3>1
    <3>4. \A j \in Client \ {k} : <<o, p>> \notin tx'[j].dropped
      BY <2>1, <2>3
    <3>5. Stands(o, p)'
      BY <1>1, <3>2, <3>3, <3>4 DEF Stands, Wishes
    <3> QED
      BY <1>1, <3>1, <3>2, <3>5
  <2>5. DroppedOnce'
    <3>1. ASSUME NEW j \in Client \ {k}, NEW x \in tx'[k].dropped PROVE x \notin tx'[j].dropped
      <4>1. PICK d \in Cohort, p \in Person : x = <<d, p>>
        BY <2>1
      <4>2. p \in both(t) /\ d = weaker[p]
        BY <2>1, <4>1
      <4>3. <<d, p>> \notin tx[j].dropped
        BY <2>3, <4>2
      <4> QED
        BY <2>1, <4>1, <4>3
    <3> QED
      BY <1>1, <2>1, <3>1 DEF DroppedOnce
  <2>6. ASSUME NEW e \in Cohort, NEW p \in Person, Stands(e, p)
        PROVE  \E f \in Cohort : Stands(f, p)' /\ wish'[f][p] <= wish[e][p]
    <3>1. CASE <<e, p>> \in tx'[k].dropped
      <4>1. p \in both(t) /\ e = weaker[p]
        BY <2>1, <3>1
      <4>2. \E o \in Cohort : Stands(o, p)' /\ wish'[o][p] <= wish'[e][p]
        BY <2>4, <4>1
      <4> QED
        BY <1>1, <4>2
    <3>2. CASE <<e, p>> \notin tx'[k].dropped
      <4>1. wish[e][p] \in Nat
        BY <1>1, WishIsNumber
      <4> QED
        BY <1>1, <2>1, <2>6, <3>2, <4>1 DEF Stands, Wishes
    <3> QED
      BY <3>1, <3>2
  <2>7. ASSUME NEW j \in Client, NEW d \in Cohort, NEW p \in Person,
               <<d, p>> \in tx'[j].dropped, p \notin tx'[j].late
        PROVE  \E f \in Cohort : Stands(f, p)' /\ wish'[f][p] <= wish'[d][p]
    <3>1. CASE j = k
      <4>1. p \in both(t) /\ d = weaker[p]
        BY <2>1, <2>7, <3>1
      <4>2. \E o \in Cohort : Stands(o, p)' /\ wish'[o][p] <= wish'[d][p]
        BY <2>4, <4>1
      <4> QED
        BY <4>2
    <3>2. CASE j # k
      <4>1. PICK e \in Cohort : Stands(e, p) /\ wish[e][p] <= wish[d][p]
        BY <1>1, <2>1, <2>7, <3>2 DEF AnotherStands
      <4>2. PICK f \in Cohort : Stands(f, p)' /\ wish'[f][p] <= wish[e][p]
        BY <2>6, <4>1
      <4>3. wish[d][p] \in Nat /\ wish[e][p] \in Nat /\ wish[f][p] \in Nat
        BY <1>1, WishIsNumber
      <4>4. wish'[f][p] <= wish'[d][p]
        BY <1>1, <4>1, <4>2, <4>3
      <4> QED
        BY <4>2, <4>4
    <3> QED
      BY <3>1, <3>2
  <2> QED
    BY <2>5, <2>7 DEF AnotherStands
<1> QED
  BY <1>2, <1>3 DEF HandOver

\* A withdrawal moves a wish only where none is left, so that the wish is there
\* afterwards as strong as it was; and deletes only those it had decided about.
GoesOn(k, e, p) ==
    \E f \in Cohort : /\ Wishes(f, p)' /\ wish'[f][p] = wish[e][p]
                      /\ f = e \/ \A j \in Client \ {k} : <<f, p>> \notin tx[j].dropped

LEMMA WithdrawKeeps ==
    ASSUME MergeInv, NEW k \in Client, Withdraw(k), NEW e \in Cohort, NEW p \in Person,
           Wishes(e, p), <<e, p>> \notin tx[k].dropped
    PROVE  GoesOn(k, e, p)
<1> DEFINE c == tx[k].cohort
           t == tx[k].target
<1>1. \A d \in Cohort, q \in Person :
          wish'[d][q] = IF d = t /\ q \in Left(k) THEN wish[c][q]
                        ELSE IF <<d, q>> \in tx[k].dropped \/ d = c THEN 0 ELSE wish[d][q]
  BY DEF Withdraw
<1>2. Left(k) # {} => t # Nothing /\ MovedTo(k, t)
  BY DEF Withdraw
<1>3. t \in Cohort \cup {Nothing}
  BY RequestType DEF MergeInv, IInv
<1>4. CASE e = c
  <2>1. p \in Left(k)
    BY <1>4 DEF Left, Wishes
  <2>2. t \in Cohort /\ WishFree(k, t, p)
    BY <1>2, <1>3, <2>1 DEF MovedTo
  <2>3. wish'[t][p] = wish[e][p]
    BY <1>1, <1>4, <2>1, <2>2
  <2> QED
    BY <2>2, <2>3 DEF Wishes, WishFree, GoesOn
<1>5. CASE e # c
  <2>1. ~(e = t /\ p \in Left(k))
    BY <1>2 DEF MovedTo, Wishes
  <2>2. wish'[e][p] = wish[e][p]
    BY <1>1, <1>5, <2>1
  <2> QED
    BY <2>2 DEF Wishes, GoesOn
<1> QED
  BY <1>4, <1>5

\* What another merge is to delete, a withdrawal does not touch.
LEMMA WithdrawMerges ==
    ASSUME MergeInv, TypeOK', NEW k \in Client, Withdraw(k)
    PROVE  (DroppedOnce /\ AnotherStands)'
<1>1. \A j \in Client : (tx'[j] = tx[j] /\ j # k) \/ tx'[j].dropped = {}
  <2>1. ASSUME NEW j \in Client, tx[j].op = "unwish"
        PROVE  [tx[j] EXCEPT !.cohort = tx[k].target].dropped = {}
    <3>1. tx[j] \in Request /\ tx[j].dropped = {}
      BY <2>1, RequestType DEF OnlyWhereTheyBelong, MergeInv, IInv
    <3> QED
      BY <3>1 DEF Request
  <2> QED
    BY <2>1 DEF Withdraw, Idle
<1>2. ASSUME NEW j \in Client, NEW d \in Cohort, NEW p \in Person,
             <<d, p>> \in tx'[j].dropped, p \notin tx'[j].late
      PROVE  wish'[d][p] = wish[d][p]
  <2>1. j # k /\ <<d, p>> \in tx[j].dropped /\ p \notin tx[j].late
    BY <1>1, <1>2
  <2>2. <<d, p>> \notin tx[k].dropped
    BY <2>1 DEF DroppedOnce, MergeInv
  <2>3. PICK e \in Cohort : Stands(e, p) /\ wish[e][p] <= wish[d][p]
    BY <2>1 DEF AnotherStands, MergeInv
  <2>4. Wishes(d, p)
    <3>1. wish[e][p] \in Nat /\ wish[d][p] \in Nat /\ wish[e][p] # 0
      BY <2>3, WishIsNumber DEF MergeInv, IInv, Stands, Wishes
    <3>2. wish[d][p] # 0
      BY <2>3, <3>1
    <3> QED
      BY <3>2 DEF Wishes
  <2>5. ~WishFree(k, d, p)
    BY <2>1 DEF WishFree
  <2>6. ~(p \in Left(k) /\ (d = tx[k].cohort \/ d = tx[k].target))
    BY <2>5 DEF Withdraw, MovedTo
  <2>7. d # tx[k].cohort
    BY <2>2, <2>4, <2>6 DEF Left, Wishes
  <2> QED
    BY <2>2, <2>6, <2>7 DEF Withdraw
<1>3. ASSUME NEW e \in Cohort, NEW p \in Person, Stands(e, p)
      PROVE  \E f \in Cohort : Stands(f, p)' /\ wish'[f][p] <= wish[e][p]
  <2>1. PICK f \in Cohort :
            /\ Wishes(f, p)' /\ wish'[f][p] = wish[e][p]
            /\ f = e \/ \A j \in Client \ {k} : <<f, p>> \notin tx[j].dropped
    <3>1. Wishes(e, p) /\ <<e, p>> \notin tx[k].dropped
      BY <1>3 DEF Stands
    <3>2. GoesOn(k, e, p)
      BY <3>1, WithdrawKeeps
    <3> QED
      BY <3>2 DEF GoesOn
  <2>2. \A j \in Client : <<f, p>> \notin tx'[j].dropped
    BY <1>1, <1>3, <2>1 DEF Stands
  <2>3. wish[e][p] \in Nat
    BY WishIsNumber DEF MergeInv, IInv
  <2> QED
    BY <2>1, <2>2, <2>3 DEF Stands
<1>4. \A j \in Client : tx'[j].dropped = {} \/ tx'[j] = tx[j]
  BY <1>1
<1> QED
  BY <1>2, <1>3, <1>4, MergesStand

\* A step of a person's own changes the wishes of that person.
LEMMA OwnWishes ==
    ASSUME TypeOK, NEW k \in Client, (\E level \in 1..Weakest : WishWrite(k, level)) \/ Unwish(k)
    PROVE  /\ tx[k].person \in Person =>
               \A c \in Cohort, p \in Person : p # tx[k].person => wish'[c][p] = wish[c][p]
           /\ tx[k].person \notin Person => wish' = wish
           /\ \A j \in Client : tx'[j] = Idle \/ tx'[j] = Unseen(tx[k].person)[j]
<1>1. PICK level : wish' = [wish EXCEPT ![tx[k].cohort][tx[k].person] = level]
  BY DEF WishWrite, Unwish
<1>2. /\ tx[k].person \in Person =>
           \A c \in Cohort, p \in Person : p # tx[k].person => wish'[c][p] = wish[c][p]
      /\ tx[k].person \notin Person => wish' = wish
  BY <1>1 DEF TypeOK
<1>3. \A j \in Client : tx'[j] = Idle \/ tx'[j] = Unseen(tx[k].person)[j]
  BY DEF WishWrite, Unwish, Unseen
<1> QED
  BY <1>2, <1>3

\* Every step keeps what merges rest on.
LEMMA MergeStep == MergeInv /\ [Next]_vars => MergeInv'
<1> SUFFICES ASSUME MergeInv, [Next]_vars PROVE (DroppedOnce /\ AnotherStands)'
  BY InvariantStep DEF MergeInv
<1> USE TypeInvariant DEF MergeInv
<1>1. ASSUME WithdrawRelease \/ (\E p \in Person : WithdrawAdvance(p)) \/ UNCHANGED vars
      PROVE  (DroppedOnce /\ AnotherStands)'
  BY <1>1, QuietMerges DEF WithdrawRelease, WithdrawAdvance, vars, wishes
<1>2. ASSUME NEW k \in Client, NEW r, r.dropped = {}, tx' = [tx EXCEPT ![k] = r], wish' = wish
      PROVE  (DroppedOnce /\ AnotherStands)'
  <2>1. \A j \in Client : tx'[j].dropped = {} \/ tx'[j] = tx[j]
    BY <1>2 DEF IInv, TypeOK
  <2> QED
    BY <1>2, <2>1, QuietMerges
<1>3. /\ Idle.dropped = {}
      /\ \A op, at, p, c : [Idle EXCEPT !.op = op, !.at = at, !.person = p, !.cohort = c,
                                        !.phase = phase].dropped = {}
  BY DEF Idle
<1>4. ASSUME NEW k \in Client,
             \/ PhaseRead(k) \/ Announce(k) \/ Abort(k)
             \/ \E to \in Phase : PhaseWrite(k, to)
             \/ \E p \in Person : AdvanceRead(k, p)
             \/ \E level \in 1..Weakest : AdvanceWrite(k, level)
             \/ \E c \in Cohort : Declare(k, c) \/ WithdrawBegin(k, c)
             \/ \E p \in Person, c \in Cohort : WishRead(k, p, c) \/ UnwishRead(k, p, c)
      PROVE  (DroppedOnce /\ AnotherStands)'
  <2>1. CASE PhaseRead(k) \/ Announce(k) \/ Abort(k)
    BY <1>2, <1>3, <2>1 DEF PhaseRead, Announce, Abort, Begin, Answer, wishes
  <2>2. CASE \/ \E to \in Phase : PhaseWrite(k, to)
             \/ \E p \in Person : AdvanceRead(k, p)
             \/ \E level \in 1..Weakest : AdvanceWrite(k, level)
    BY <1>2, <1>3, <2>2 DEF PhaseWrite, AdvanceRead, AdvanceWrite, Begin, Answer, wishes
  <2>3. CASE \E c \in Cohort : Declare(k, c) \/ WithdrawBegin(k, c)
    BY <1>2, <1>3, <2>3 DEF Declare, WithdrawBegin, Begin, wishes
  <2>4. CASE \E p \in Person, c \in Cohort : WishRead(k, p, c) \/ UnwishRead(k, p, c)
    BY <1>2, <1>3, <2>4 DEF WishRead, UnwishRead, Begin, wishes
  <2> QED
    BY <1>4, <2>1, <2>2, <2>3, <2>4
<1>5. ASSUME NEW k \in Client, Convert(k) PROVE (DroppedOnce /\ AnotherStands)'
  <2>1. tx[k] \in Request /\ tx[k].dropped = {}
    BY <1>5, RequestType DEF Convert, IInv, OnlyWhereTheyBelong
  <2>2. \A j \in Client : tx'[j].dropped = tx[j].dropped /\ tx'[j].late = tx[j].late
    BY <1>5, <2>1 DEF Convert, Request, IInv, TypeOK
  <2> QED
    BY <1>5, <2>2, QuietMerges DEF Convert, wishes
<1>6. ASSUME NEW k \in Client, (\E level \in 1..Weakest : WishWrite(k, level)) \/ Unwish(k)
      PROVE  (DroppedOnce /\ AnotherStands)'
  <2>1. CASE tx[k].person \in Person
    BY <1>6, <2>1, OwnWishes, OwnWishMerges DEF IInv
  <2>2. CASE tx[k].person \notin Person
    <3>1. \A j \in Client : ~ \E c \in Cohort : <<c, tx[k].person>> \in tx[j].dropped
      BY <2>2, RequestType DEF IInv
    <3>2. \A j \in Client : tx'[j].dropped = {} \/ tx'[j] = tx[j]
      <4>1. \A j \in Client : Unseen(tx[k].person)[j] = tx[j]
        BY <3>1 DEF Unseen
      <4>2. \A j \in Client : tx'[j] = Idle \/ tx'[j] = Unseen(tx[k].person)[j]
        BY <1>6, OwnWishes DEF IInv
      <4> QED
        BY <1>3, <4>1, <4>2
    <3> QED
      BY <1>6, <2>2, <3>2, OwnWishes, QuietMerges DEF IInv
  <2> QED
    BY <2>1, <2>2
<1>7. ASSUME NEW k \in Client, Release(k) \/ HandOver(k) \/ Withdraw(k)
      PROVE  (DroppedOnce /\ AnotherStands)'
  BY <1>7, ReleaseMerges, HandOverMerges, WithdrawMerges
<1> QED
  BY <1>1, <1>4, <1>5, <1>6, <1>7 DEF Next

\* Merges decide on disjoint wishes, and a stronger one stands for each.
THEOREM MergesAgree == Spec => []MergeInv
<1>1. Init => MergeInv
  BY InvariantInit DEF Init, MergeInv, DroppedOnce, AnotherStands, Idle
<1> QED
  BY <1>1, MergeStep, PTL DEF Spec

\* Conversions and merges never weaken what a person wishes for most, let alone
\* lose it: for any number of requests between the statements of a merge, unless
\* the person changed a wish meanwhile (handOverWishes, ConvertAdvanceWishes).
THEOREM StrongestStays == Spec => StrongestIsKept
<1> DEFINE Kept(p) ==
        Weakened(p) => OwnAct(p) \/ \E k \in Client : Withdraw(k) /\ p \in tx[k].late
<1>1. ASSUME MergeInv, [Next]_vars, NEW p \in Person, NEW c \in Cohort, Wishes(c, p),
             ~OwnAct(p), ~ \E k \in Client : Withdraw(k) /\ p \in tx[k].late
      PROVE  \E d \in Cohort : Wishes(d, p)' /\ ~(wish'[d][p] > wish[c][p])
  <2>1. TypeOK /\ TypeOK' /\ IInv
    BY <1>1, TypeInvariant DEF MergeInv, IInv
  <2>2. /\ \A d \in Cohort : wish[d][p] \in Nat
        /\ \A d \in Cohort : wish'[d][p] \in Nat
    <3>1. wish \in [Cohort -> [Person -> Nat]] /\ wish' \in [Cohort -> [Person -> Nat]]
      BY <2>1, ConstantsAssumption DEF TypeOK, Level
    <3> QED
      BY <3>1
  <2>3. SUFFICES \E d \in Cohort : Wishes(d, p)' /\ wish'[d][p] <= wish[c][p]
    BY <2>2
  <2>4. ASSUME wish'[c][p] = wish[c][p]
        PROVE  \E d \in Cohort : Wishes(d, p)' /\ wish'[d][p] <= wish[c][p]
    BY <1>1, <2>2, <2>4 DEF Wishes
  <2>5. CASE wish' = wish
    BY <2>4, <2>5
  <2>6. ASSUME NEW k \in Client, (\E level \in 1..Weakest : WishWrite(k, level)) \/ Unwish(k)
        PROVE  wish'[c][p] = wish[c][p]
    <3>1. tx[k].person # p
      BY <1>1, <2>6 DEF OwnAct
    <3> QED
      BY <2>1, <2>6, <3>1, OwnWishes
  <2>7. ASSUME NEW k \in Client, Release(k)
        PROVE  \E d \in Cohort : Wishes(d, p)' /\ wish'[d][p] <= wish[c][p]
    BY <1>1, <2>1, <2>7, ReleaseMerges
  <2>8. ASSUME NEW k \in Client, Withdraw(k)
        PROVE  \E d \in Cohort : Wishes(d, p)' /\ wish'[d][p] <= wish[c][p]
    <3>1. PICK e \in Cohort :
              Wishes(e, p) /\ <<e, p>> \notin tx[k].dropped /\ wish[e][p] <= wish[c][p]
      <4>1. CASE <<c, p>> \notin tx[k].dropped
        BY <1>1, <2>2, <4>1
      <4>2. CASE <<c, p>> \in tx[k].dropped
        BY <1>1, <2>8, <4>2 DEF MergeInv, AnotherStands, Stands
      <4> QED
        BY <4>1, <4>2
    <3>2. PICK f \in Cohort : Wishes(f, p)' /\ wish'[f][p] = wish[e][p]
      <4>1. GoesOn(k, e, p)
        BY <1>1, <2>8, <3>1, WithdrawKeeps
      <4> QED
        BY <4>1 DEF GoesOn
    <3> QED
      BY <3>1, <3>2
  <2> QED
    BY <1>1, <2>4, <2>5, <2>6, <2>7, <2>8
    DEF Next, vars, wishes, WithdrawRelease, WithdrawAdvance, PhaseRead, PhaseWrite, AdvanceRead,
        AdvanceWrite, Announce, Declare, WithdrawBegin, Convert, WishRead, UnwishRead, HandOver,
        Abort
<1>2. MergeInv /\ [Next]_vars => [\A p \in Person : Kept(p)]_vars
  <2> SUFFICES ASSUME MergeInv, [Next]_vars, NEW p \in Person, Weakened(p),
                      ~OwnAct(p), ~ \E k \in Client : Withdraw(k) /\ p \in tx[k].late
               PROVE  FALSE
    OBVIOUS
  <2>1. PICK c \in Cohort : Wishes(c, p) /\ \A d \in Cohort : Wishes(d, p)' => wish'[d][p] > wish[c][p]
    BY DEF Weakened
  <2> QED
    BY <1>1, <2>1
<1> QED
  BY <1>2, MergesAgree, PTL DEF Spec, StrongestIsKept
=============================================================================
