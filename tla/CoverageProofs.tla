--------------------------- MODULE CoverageProofs ---------------------------
(***************************************************************************)
(* Coverage between programmes, for any number of cohorts, programmes and  *)
(* transactions. The argument: locks are taken in id order, so what a      *)
(* transaction holds lies below what it has yet to lock, and two of them   *)
(* cannot wait for each other; a row that is locked is there, and only its *)
(* holder removes it; a host that is locked gets no new guest and is not   *)
(* covered, so that the guests a promotion re-points are of other          *)
(* programmes than the successor that was chosen before.                   *)
(***************************************************************************)
EXTENDS Coverage, CountingProofs, FiniteSetTheorems, TLAPS

\* There are finitely many cohorts at a time.
FinitelyMany == IsFiniteSet(declared)

\* What holds parts is a declared cohort.
OnlyDeclaredTeach == \A c \in Cohort \ declared : parts[c] = 0

\* The index: a programme has one covered cohort at most.
OneCoveredPerProgramme ==
    \A c, d \in declared :
        Covered(c) /\ Covered(d) /\ programmeOf[c] = programmeOf[d] => c = d

\* What each operation knows of the cohorts it was called with.
KnowsItsCohorts ==
    \A k \in Client :
        /\ tx[k].op = Nothing => tx[k].at = "idle"
        /\ tx[k].op \in {"declare", "release", "addPart"} => tx[k].at = "read"
        /\ tx[k].op = "declare" /\ tx[k].host # Nothing =>
               programmeOf[tx[k].host] # programmeOf[tx[k].cohort]
        /\ tx[k].op \in {"request", "accept"} => tx[k].at = "locking" /\ tx[k].host # Nothing
        /\ tx[k].op = "withdraw" =>
               tx[k].at \in {"locking", "chosen"} /\ tx[k].cohort \in declared \cup gone

\* Rows are locked for those three operations only, and are there.
LockedIsDeclared ==
    \A c \in Cohort : lock[c] # Nothing =>
        c \in declared /\ tx[lock[c]].op \in {"request", "accept", "withdraw"}

\* What a transaction was to lock and no longer waits for, it holds; a
\* withdrawal has passed over what is gone.
LocksWhatItNames ==
    \A k \in Client :
        /\ want[k] # {} => tx[k].at = "locking"
        /\ tx[k].op \in {"request", "accept"} =>
               \A c \in {tx[k].cohort, tx[k].host} : c \in want[k] \/ lock[c] = k
        /\ tx[k].op = "withdraw" =>
               \/ tx[k].cohort \in want[k] \cup gone
               \/ lock[tx[k].cohort] = k
        /\ tx[k].at = "chosen" => lock[tx[k].cohort] = k

\* What a transaction holds lies below what it has yet to lock.
LocksInOrder ==
    \A k \in Client, c \in Cohort : lock[c] = k => \A d \in want[k] : c < d

\* Once the successor is chosen, its host is not covered and has no other guest
\* of the successor's programme.
SuccessorFits ==
    \A k \in Client : tx[k].at = "chosen" /\ tx[k].host # Nothing =>
        /\ tx[k].host # tx[k].cohort
        /\ ~Covered(tx[k].cohort)
        /\ \A g \in Guests(tx[k].cohort) \ {tx[k].host} :
               programmeOf[g] # programmeOf[tx[k].host]

IInv ==
    /\ TypeOK
    /\ FinitelyMany
    /\ OnlyDeclaredTeach
    /\ OneLevelAcrossProgrammes
    /\ OneCoveredPerProgramme
    /\ KnowsItsCohorts
    /\ LockedIsDeclared
    /\ LocksWhatItNames
    /\ LocksInOrder
    /\ SuccessorFits

-----------------------------------------------------------------------------
(* Operators.                                                              *)

\* A client that runs an operation has a transaction about a cohort.
LEMMA TransactionType ==
    ASSUME TypeOK, NEW k \in Client, tx[k] # Idle
    PROVE  /\ tx[k].op \in Operation /\ tx[k].op \in Operations /\ tx[k].op # Nothing
           /\ tx[k].at \in {"locking", "read", "chosen"}
           /\ tx[k].cohort \in Cohort
           /\ tx[k].host \in Cohort \cup {Nothing}
           /\ tx[k].wasAccepted \in BOOLEAN
BY ConstantsAssumption DEF TypeOK, Transaction

\* One that has none is idle, and names nobody.
LEMMA IdleFacts ==
    /\ Idle \in Transaction
    /\ Idle.op = Nothing /\ Idle.op \notin Operations /\ Idle.at = "idle"
BY ConstantsAssumption DEF Idle, Transaction

\* Parts and assignments are counted in natural numbers.
LEMMA CountTypes ==
    TypeOK => \A c \in Cohort :
        /\ parts[c] \in 0..MaxParts /\ parts[c] \in Nat
        /\ staffed[c] \in Nat /\ staffed[c] <= parts[c]
BY ConstantsAssumption DEF TypeOK

\* There is room for a part below the bound.
LEMMA OneMore == \A n \in 0..MaxParts : n < MaxParts => n + 1 \in 0..MaxParts
BY ConstantsAssumption

\* What beginning a transaction does: its type ...
LEMMA BeginFacts ==
    ASSUME TypeOK, NEW k \in Client, NEW op \in Operations,
           NEW at \in {"locking", "read", "chosen"},
           NEW c \in Cohort, NEW h \in Cohort \cup {Nothing}, Begin(k, op, at, c, h)
    PROVE  tx' \in [Client -> Transaction]
<1> DEFINE t == [Idle EXCEPT !.op = op, !.at = at, !.cohort = c, !.host = h]
<1>1. t \in Transaction
  BY DEF Begin, Idle, Transaction
<1>2. tx' = [tx EXCEPT ![k] = t]
  BY DEF Begin
<1> QED
  BY <1>1, <1>2 DEF TypeOK

\* ... and what is read from it.
LEMMA BeginNames ==
    ASSUME TypeOK, NEW k \in Client, NEW op, NEW at, NEW c, NEW h, Begin(k, op, at, c, h)
    PROVE  /\ tx[k] = Idle
           /\ tx'[k].op = op /\ tx'[k].at = at /\ tx'[k].cohort = c /\ tx'[k].host = h
           /\ \A j \in Client \ {k} : tx'[j] = tx[j]
<1> DEFINE t == [Idle EXCEPT !.op = op, !.at = at, !.cohort = c, !.host = h]
<1>1. t.op = op /\ t.at = at /\ t.cohort = c /\ t.host = h
  BY DEF Idle
<1>2. tx[k] = Idle /\ tx' = [tx EXCEPT ![k] = t]
  BY DEF Begin
<1> QED
  BY <1>1, <1>2 DEF TypeOK

\* What ending one does: its locks go, and nobody else's.
LEMMA EndFacts ==
    ASSUME TypeOK, NEW k \in Client, End(k)
    PROVE  /\ lock' \in [Cohort -> Client \cup {Nothing}]
           /\ want' \in [Client -> SUBSET Cohort]
           /\ tx' \in [Client -> Transaction]
           /\ tx'[k] = Idle /\ want'[k] = {}
           /\ \A c \in Cohort : /\ lock'[c] # k
                                /\ lock[c] # k => lock'[c] = lock[c]
                                /\ lock[c] = k => lock'[c] = Nothing
           /\ \A j \in Client \ {k} : tx'[j] = tx[j] /\ want'[j] = want[j]
BY ConstantsAssumption, IdleFacts DEF End, TypeOK

\* What locking a row does: a row that is there is held, and lies below the
\* rest.
LEMMA LockNextFacts ==
    ASSUME TypeOK, NEW k \in Client, LockNext(k)
    PROVE  \E c \in want[k] :
               /\ \A d \in want[k] \ {c} : c < d
               /\ c \in Cohort
               /\ IF c \in declared
                  THEN lock[c] = Nothing /\ lock' = [lock EXCEPT ![c] = k]
                  ELSE tx[k].op = "withdraw" /\ lock' = lock
               /\ want' = [want EXCEPT ![k] = @ \ {c}]
               /\ UNCHANGED <<data, tx>>
<1>1. want[k] \in SUBSET Nat /\ want[k] # {} /\ want[k] \in SUBSET Cohort
  BY ConstantsAssumption DEF TypeOK, LockNext
<1>2. Min(want[k]) \in want[k] /\ \A d \in want[k] : Min(want[k]) <= d
  BY <1>1, MinFacts
<1>3. \A d \in want[k] \ {Min(want[k])} : Min(want[k]) < d
  BY <1>1, <1>2
<1> QED
  BY <1>1, <1>2, <1>3 DEF LockNext

-----------------------------------------------------------------------------
(* The inductive invariant.                                                *)

LEMMA InitInvariant == Init => IInv
<1> SUFFICES ASSUME Init PROVE IInv
  OBVIOUS
<1> USE ConstantsAssumption, IdleFacts DEF Init
<1>1. TypeOK
  BY DEF TypeOK
<1>2. /\ FinitelyMany /\ OnlyDeclaredTeach
      /\ OneLevelAcrossProgrammes /\ OneCoveredPerProgramme
  BY FS_EmptySet DEF FinitelyMany, OnlyDeclaredTeach, OneLevelAcrossProgrammes, OneCoveredPerProgramme, Covered
<1>3. KnowsItsCohorts
  BY DEF KnowsItsCohorts, Operations
<1>4. LockedIsDeclared /\ LocksInOrder
  BY DEF LockedIsDeclared, LocksInOrder
<1>5. LocksWhatItNames
  BY DEF LocksWhatItNames, Operations
<1>6. SuccessorFits
  BY DEF SuccessorFits
<1> QED
  BY <1>1, <1>2, <1>3, <1>4, <1>5, <1>6 DEF IInv

\* Everything keeps its type.
LEMMA TypeInvariant == IInv /\ [Next]_vars => TypeOK'
<1> SUFFICES ASSUME IInv, [Next]_vars PROVE TypeOK'
  OBVIOUS
<1> USE ConstantsAssumption
<1>0. /\ TypeOK /\ OnlyDeclaredTeach /\ OneLevelAcrossProgrammes /\ KnowsItsCohorts
      /\ LockedIsDeclared /\ SuccessorFits
  BY DEF IInv
<1>1. ASSUME NEW k \in Client, NEW c \in Cohort, DeclareRead(k, c) PROVE TypeOK'
  <2>1. PICK h \in Cohort \cup {Nothing} : Begin(k, "declare", "read", c, h)
    BY <1>1, <1>0 DEF DeclareRead, HostsFor, SameProgramme, TypeOK
  <2>2. tx' \in [Client -> Transaction]
    BY <2>1, <1>0, BeginFacts DEF Operations
  <2> QED
    BY <1>1, <2>2, <1>0 DEF DeclareRead, data, TypeOK
<1>2. ASSUME NEW k \in Client, NEW c \in Cohort, AcceptRead(k, c) PROVE TypeOK'
  <2>1. host[c] \in Cohort
    BY <1>2, <1>0 DEF AcceptRead, Covered, TypeOK
  <2>2. tx' \in [Client -> Transaction]
    BY <1>2, <2>1, <1>0, BeginFacts DEF AcceptRead, Operations
  <2> QED
    BY <1>2, <2>1, <2>2, <1>0 DEF AcceptRead, data, TypeOK
<1>3. ASSUME NEW k \in Client, NEW c \in Cohort, ReleaseRead(k, c) PROVE TypeOK'
  <2> DEFINE t == [Idle EXCEPT !.op = "release", !.at = "read", !.cohort = c,
                               !.wasAccepted = c \in accepted]
  <2>1. t \in Transaction
    <3> DEFINE agreed == c \in accepted
    <3>1. agreed \in BOOLEAN
      OBVIOUS
    <3> HIDE DEF agreed
    <3>2. [Idle EXCEPT !.op = "release", !.at = "read", !.cohort = c, !.wasAccepted = agreed]
            \in Transaction
      BY <1>3, <3>1 DEF ReleaseRead, Idle, Transaction
    <3> QED
      BY <3>2 DEF agreed
  <2>2. tx' \in [Client -> Transaction]
    BY <1>3, <2>1, <1>0 DEF ReleaseRead, TypeOK
  <2> QED
    BY <1>3, <2>2, <1>0 DEF ReleaseRead, data, TypeOK
<1>4. ASSUME NEW k \in Client, NEW c \in Cohort, WithdrawBegin(k, c) PROVE TypeOK'
  <2>1. tx' \in [Client -> Transaction]
    BY <1>4, <1>0, BeginFacts DEF WithdrawBegin, Operations
  <2>2. {c} \cup Guests(c) \in SUBSET Cohort
    BY <1>0 DEF Guests, TypeOK
  <2> QED
    BY <1>4, <2>1, <2>2, <1>0 DEF WithdrawBegin, data, TypeOK
<1>5. ASSUME NEW k \in Client, NEW c \in Cohort, AddPartRead(k, c) PROVE TypeOK'
  <2>1. tx' \in [Client -> Transaction]
    BY <1>5, <1>0, BeginFacts DEF AddPartRead, Operations
  <2> QED
    BY <1>5, <2>1, <1>0 DEF AddPartRead, data, TypeOK
<1>6. ASSUME NEW k \in Client, NEW g \in declared, NEW h \in declared, RequestBegin(k, g, h)
      PROVE  TypeOK'
  <2>1. g \in Cohort /\ h \in Cohort
    BY <1>0 DEF TypeOK
  <2>2. tx' \in [Client -> Transaction]
    BY <1>6, <2>1, <1>0, BeginFacts DEF RequestBegin, Operations
  <2> QED
    BY <1>6, <2>1, <2>2, <1>0 DEF RequestBegin, data, TypeOK
<1>7. ASSUME NEW k \in Client, LockNext(k) PROVE TypeOK'
  <2>1. PICK c \in want[k] :
          /\ c \in Cohort
          /\ lock' = lock \/ lock' = [lock EXCEPT ![c] = k]
          /\ want' = [want EXCEPT ![k] = @ \ {c}]
          /\ UNCHANGED <<data, tx>>
    BY <1>7, <1>0, LockNextFacts
  <2>2. want[k] \ {c} \in SUBSET Cohort
    BY <1>0 DEF TypeOK
  <2> QED
    BY <2>1, <2>2, <1>0 DEF data, TypeOK
<1>8. ASSUME NEW k \in Client, Declare(k) PROVE TypeOK'
  <2> DEFINE c == tx[k].cohort
             h == tx[k].host
  <2>1. c \in Cohort /\ c \notin declared \cup gone /\ h \in Cohort \cup {Nothing}
    BY <1>8, <1>0, TransactionType, IdleFacts DEF Declare, Running, Operations
  <2>2. parts[c] = 0 /\ staffed[c] = 0 /\ c \notin accepted
    <3>1. parts[c] = 0
      BY <2>1, <1>0 DEF OnlyDeclaredTeach
    <3>2. c \notin accepted
      BY <2>1, <1>0 DEF TypeOK
    <3> QED
      <4>1. c \in Cohort /\ staffed[c] \in Nat /\ staffed[c] <= parts[c]
        BY <2>1, <1>0, CountTypes
      <4>2. staffed[c] = 0
        BY <4>1, <3>1
      <4> QED
        BY <3>1, <3>2, <4>2
  <2>3. parts' \in [Cohort -> 0..MaxParts] /\ \A d \in Cohort : staffed[d] <= parts'[d]
    BY <1>8, <2>1, <2>2, <1>0 DEF Declare, TypeOK
  <2>4. /\ declared' \subseteq Cohort /\ gone' \subseteq Cohort \ declared'
        /\ host' \in [Cohort -> Cohort \cup {Nothing}]
    BY <1>8, <2>1, <1>0 DEF Declare, TypeOK
  <2>5. accepted' \subseteq {d \in declared' : host'[d] # Nothing}
    <3>1. CASE h \in declared /\ ~Covered(h)
      <4>1. /\ accepted' = accepted \cup {c} /\ declared' = declared \cup {c}
            /\ host' = [host EXCEPT ![c] = h] /\ h # Nothing
        BY <1>8, <3>1, <1>0 DEF Declare, TypeOK
      <4>2. \A d \in accepted : d \in declared /\ host[d] # Nothing /\ d # c /\ d \in Cohort
        BY <2>2, <1>0 DEF TypeOK
      <4>3. host'[c] = h /\ \A d \in Cohort \ {c} : host'[d] = host[d]
        BY <4>1, <2>1, <1>0 DEF TypeOK
      <4> QED
        BY <4>1, <4>2, <4>3
    <3>2. CASE ~(h \in declared /\ ~Covered(h))
      <4>1. /\ accepted' = accepted /\ declared' = declared \cup {c}
            /\ host' = [host EXCEPT ![c] = Nothing]
        BY <1>8, <3>2 DEF Declare
      <4> QED
        BY <4>1, <2>1, <2>2, <1>0 DEF TypeOK
    <3> QED
      BY <3>1, <3>2
  <2> QED
    BY <1>8, <2>3, <2>4, <2>5, <1>0, EndFacts DEF Declare, TypeOK
<1>9. ASSUME NEW k \in Client, Request(k) PROVE TypeOK'
  <2>1. tx[k].cohort \in Cohort /\ tx[k].host \in Cohort
    BY <1>9, <1>0, TransactionType, IdleFacts
    DEF Request, Locked, Running, Operations, KnowsItsCohorts
  <2> QED
    BY <1>9, <2>1, <1>0, EndFacts DEF Request, Covered, TypeOK
<1>10. ASSUME NEW k \in Client, Accept(k) PROVE TypeOK'
  <2> DEFINE g == tx[k].cohort
  <2>1. g \in Cohort /\ tx[k].host \in Cohort /\ host[g] = tx[k].host
    BY <1>10, <1>0, TransactionType, IdleFacts
    DEF Accept, Locked, Running, Operations, KnowsItsCohorts
  <2>2. g \in declared /\ host[g] # Nothing
    BY <2>1, <1>0 DEF OneLevelAcrossProgrammes, Covered
  <2>3. parts' \in [Cohort -> 0..MaxParts] /\ \A d \in Cohort : staffed[d] <= parts'[d]
    BY <1>10, <2>1, <1>0 DEF Accept, TypeOK
  <2>4. accepted' \subseteq {d \in declared' : host'[d] # Nothing}
    BY <1>10, <2>2, <1>0 DEF Accept, TypeOK
  <2> QED
    BY <1>10, <2>3, <2>4, <1>0, EndFacts DEF Accept, TypeOK
<1>11. ASSUME NEW k \in Client, Release(k) PROVE TypeOK'
  <2> DEFINE g == tx[k].cohort
  <2>1. g \in Cohort /\ tx[k].wasAccepted \in BOOLEAN
    BY <1>11, <1>0, TransactionType, IdleFacts DEF Release, Running, Operations
  <2>2. parts' \in [Cohort -> 0..MaxParts] /\ \A d \in Cohort : staffed[d] <= parts'[d]
    <3>1. CASE tx[k].wasAccepted
      <4>1. parts[g] < MaxParts /\ parts' = [parts EXCEPT ![g] = @ + 1]
        BY <1>11, <3>1 DEF Release
      <4>2. parts[g] \in Nat /\ parts[g] + 1 \in 0..MaxParts
        BY <4>1, <2>1, <1>0, CountTypes, OneMore
      <4>3. \A d \in Cohort \ {g} : parts'[d] = parts[d]
        BY <4>1, <1>0 DEF TypeOK
      <4>4. parts'[g] = parts[g] + 1
        BY <4>1, <2>1, <1>0 DEF TypeOK
      <4>5. parts' \in [Cohort -> 0..MaxParts]
        BY <4>1, <4>2, <1>0 DEF TypeOK
      <4> QED
        BY <2>1, <4>2, <4>3, <4>4, <4>5, <1>0, CountTypes
    <3>2. CASE ~tx[k].wasAccepted
      <4>1. parts' = parts
        BY <1>11, <3>2, <1>0 DEF Release, TypeOK
      <4> QED
        BY <4>1, <1>0 DEF TypeOK
    <3> QED
      BY <3>1, <3>2
  <2>3. accepted' \subseteq {d \in declared' : host'[d] # Nothing}
    BY <1>11, <2>1, <1>0 DEF Release, TypeOK
  <2> QED
    BY <1>11, <2>1, <2>2, <2>3, <1>0, EndFacts DEF Release, TypeOK
<1>12. ASSUME NEW k \in Client, WithdrawChoose(k) PROVE TypeOK'
  <2>1. tx[k].op = "withdraw" /\ tx[k] # Idle
    BY <1>12, IdleFacts DEF WithdrawChoose, Locked, Running, Operations
  <2>2. PICK s \in Cohort \cup {Nothing} :
          tx' = [tx EXCEPT ![k].at = "chosen", ![k].host = s]
    BY <1>12, <1>0 DEF WithdrawChoose, Successors, Guests, TypeOK
  <2>3. [tx[k] EXCEPT !.at = "chosen", !.host = s] \in Transaction
    <3>1. tx[k] \in Transaction \ {Idle}
      BY <2>1, <1>0 DEF TypeOK
    <3> HIDE DEF Idle
    <3> QED
      BY <3>1 DEF Transaction
  <2> QED
    BY <1>12, <2>2, <2>3, <1>0 DEF WithdrawChoose, data, TypeOK
<1>13. ASSUME NEW k \in Client, Withdraw(k) PROVE TypeOK'
  <2>1. tx[k].cohort \in Cohort
    BY <1>13, <1>0, TransactionType, IdleFacts DEF Withdraw, Running, Operations
  <2>2. parts' \in [Cohort -> 0..MaxParts] /\ \A d \in Cohort : staffed[d] <= parts'[d]
    BY <1>13, <2>1, <1>0, CountTypes DEF Withdraw, TypeOK
  <2>3. accepted' \subseteq {d \in declared' : host'[d] # Nothing}
    BY <1>13, <2>1, <1>0 DEF Withdraw, TypeOK
  <2>4. declared' \subseteq Cohort /\ gone' \subseteq Cohort \ declared'
    BY <1>13, <2>1, <1>0 DEF Withdraw, TypeOK
  <2> QED
    BY <1>13, <2>1, <2>2, <2>3, <2>4, <1>0, EndFacts DEF Withdraw, TypeOK
<1>14. ASSUME NEW k \in Client, Promote(k) PROVE TypeOK'
  <2> DEFINE h == tx[k].cohort
             s == tx[k].host
  <2>1. h \in Cohort /\ s \in declared /\ s \in Cohort /\ s # Nothing /\ s # h
    BY <1>14, <1>0, TransactionType, IdleFacts
    DEF Promote, Running, Operations, SuccessorFits, TypeOK
  <2>2. ~Covered(h)
    BY <1>14, <2>1, <1>0 DEF Promote, Running, SuccessorFits
  <2>3. /\ parts' = [parts EXCEPT ![s] = @ + parts[h], ![h] = 0]
        /\ staffed' = [staffed EXCEPT ![s] = @ + staffed[h], ![h] = 0]
        /\ parts[s] + parts[h] <= MaxParts
    BY <1>14 DEF Promote
  <2>4. parts[s] \in Nat /\ parts[h] \in Nat /\ staffed[s] \in Nat /\ staffed[h] \in Nat
    BY <2>1, <1>0, CountTypes
  <2>5. /\ parts' \in [Cohort -> 0..MaxParts] /\ staffed' \in [Cohort -> Nat]
        /\ \A d \in Cohort : staffed'[d] <= parts'[d]
    <3>1. parts[s] + parts[h] \in 0..MaxParts /\ staffed[s] + staffed[h] \in Nat
      BY <2>3, <2>4
    <3>2. parts' \in [Cohort -> 0..MaxParts] /\ staffed' \in [Cohort -> Nat]
      <4>1. 0 \in 0..MaxParts /\ parts \in [Cohort -> 0..MaxParts] /\ staffed \in [Cohort -> Nat]
        BY <1>0 DEF TypeOK
      <4> HIDE DEF h, s
      <4>2. [parts EXCEPT ![s] = @ + parts[h]] \in [Cohort -> 0..MaxParts]
        BY <3>1, <4>1
      <4>3. [staffed EXCEPT ![s] = @ + staffed[h]] \in [Cohort -> Nat]
        BY <3>1, <4>1
      <4> QED
        BY <2>3, <4>1, <4>2, <4>3
    <3>3. /\ parts'[s] = parts[s] + parts[h] /\ staffed'[s] = staffed[s] + staffed[h]
          /\ parts'[h] = 0 /\ staffed'[h] = 0
          /\ \A d \in Cohort \ {s, h} : parts'[d] = parts[d] /\ staffed'[d] = staffed[d]
      BY <2>1, <2>3, <1>0 DEF TypeOK
    <3>4. staffed'[s] <= parts'[s]
      <4>1. staffed[s] <= parts[s] /\ staffed[h] <= parts[h]
        BY <2>1, <1>0, CountTypes
      <4> HIDE DEF h, s
      <4> QED
        BY <2>4, <3>3, <4>1
    <3> QED
      BY <3>2, <3>3, <3>4, <1>0, CountTypes
  <2>6. /\ host' \in [Cohort -> Cohort \cup {Nothing}]
        /\ declared' \subseteq Cohort /\ gone' \subseteq Cohort \ declared'
    BY <1>14, <2>1, <1>0 DEF Promote, TypeOK
  <2>7. accepted' \subseteq {d \in declared' : host'[d] # Nothing}
    BY <1>14, <2>1, <2>2, <1>0 DEF Promote, Covered, TypeOK
  <2> QED
    BY <1>14, <2>5, <2>6, <2>7, <1>0, EndFacts DEF Promote, TypeOK
<1>15. ASSUME NEW k \in Client, AddPart(k) PROVE TypeOK'
  <2> DEFINE c == tx[k].cohort
  <2>1. tx[k].cohort \in Cohort
    BY <1>15, <1>0, TransactionType, IdleFacts DEF AddPart, Running, Operations
  <2>2. parts' \in [Cohort -> 0..MaxParts] /\ \A d \in Cohort : staffed[d] <= parts'[d]
    <3>1. parts[c] < MaxParts /\ parts' = [parts EXCEPT ![c] = @ + 1]
      BY <1>15 DEF AddPart
    <3>2. parts[c] \in Nat /\ parts[c] + 1 \in 0..MaxParts
      BY <3>1, <2>1, <1>0, CountTypes, OneMore
    <3>3. parts' \in [Cohort -> 0..MaxParts]
      BY <3>1, <3>2, <1>0 DEF TypeOK
    <3>4. parts'[c] = parts[c] + 1 /\ \A d \in Cohort \ {c} : parts'[d] = parts[d]
      BY <3>1, <2>1, <1>0 DEF TypeOK
    <3> QED
      <4>1. \A d \in Cohort : /\ parts[d] \in Nat /\ staffed[d] \in Nat
                               /\ staffed[d] <= parts[d]
        BY <1>0, CountTypes
      <4>2. staffed[c] <= parts'[c]
        <5>1. parts[c] \in Nat /\ staffed[c] \in Nat /\ staffed[c] <= parts[c]
          BY <2>1, <4>1
        <5> HIDE DEF c
        <5> QED
          BY <3>4, <5>1
      <4> QED
        BY <3>3, <3>4, <4>1, <4>2
  <2> QED
    BY <1>15, <2>2, <1>0, EndFacts DEF AddPart, TypeOK
<1>16. ASSUME NEW k \in Client, Abort(k) PROVE TypeOK'
  BY <1>16, <1>0, EndFacts DEF Abort, data, TypeOK
<1>17. ASSUME NEW c \in Cohort, Fill(c) \/ Clear(c) PROVE TypeOK'
  <2>1. staffed' \in [Cohort -> Nat] /\ \A d \in Cohort : staffed'[d] <= parts[d]
    BY <1>17, <1>0, CountTypes DEF Fill, Clear, TypeOK
  <2> QED
    BY <1>17, <2>1, <1>0 DEF Fill, Clear, TypeOK
<1>18. CASE UNCHANGED vars
  BY <1>18, <1>0 DEF vars, TypeOK
<1> QED
  BY <1>1, <1>2, <1>3, <1>4, <1>5, <1>6, <1>7, <1>8, <1>9, <1>10, <1>11, <1>12,
     <1>13, <1>14, <1>15, <1>16, <1>17, <1>18 DEF Next

\* The client that withdraws a cohort has one, holds its row, and promotes
\* another cohort, if any.
LEMMA WithdrawerHolds ==
    ASSUME IInv, NEW k \in Client, Withdraw(k) \/ Promote(k)
    PROVE  /\ tx[k].cohort \in Cohort /\ lock[tx[k].cohort] = k
           /\ tx[k].cohort \in declared
           /\ Promote(k) => /\ tx[k].host \in declared /\ tx[k].host \in Cohort
                            /\ tx[k].host # tx[k].cohort /\ tx[k].host # Nothing
                            /\ ~Covered(tx[k].cohort)
<1> USE ConstantsAssumption
<1>1. tx[k].op = "withdraw" /\ tx[k].at = "chosen" /\ tx[k] # Idle
  BY IdleFacts DEF Withdraw, Promote, Running
<1>2. tx[k].cohort \in Cohort /\ lock[tx[k].cohort] = k
  BY <1>1, TransactionType DEF IInv, LocksWhatItNames
<1>3. tx[k].cohort \in declared
  BY <1>2 DEF IInv, LockedIsDeclared
<1>4. ASSUME Promote(k)
      PROVE  /\ tx[k].host \in declared /\ tx[k].host \in Cohort
             /\ tx[k].host # tx[k].cohort /\ tx[k].host # Nothing
             /\ ~Covered(tx[k].cohort)
  <2>1. tx[k].host \in declared /\ tx[k].host \in Cohort /\ tx[k].host # Nothing
    BY <1>4 DEF Promote, IInv, TypeOK
  <2> QED
    BY <1>1, <2>1 DEF IInv, SuccessorFits
<1> QED
  BY <1>2, <1>3, <1>4

\* A step of a transaction's last write.
Ends(k) == \/ Declare(k) \/ Request(k) \/ Accept(k) \/ Release(k)
           \/ Withdraw(k) \/ Promote(k) \/ AddPart(k) \/ Abort(k)

LEMMA EndsIsEnd == \A k \in Client : Ends(k) => End(k)
BY DEF Ends, Declare, Request, Accept, Release, Withdraw, Promote, AddPart, Abort

\* Only these write a coverage or a cohort's row.
LEMMA HostWriters ==
    [Next]_vars =>
        \/ UNCHANGED <<declared, gone, host>>
        \/ \E k \in Client : Declare(k) \/ Request(k) \/ Release(k) \/ Withdraw(k) \/ Promote(k)
<1> DEFINE Quiet == UNCHANGED <<declared, gone, host>>
           Writes(k) == Declare(k) \/ Request(k) \/ Release(k) \/ Withdraw(k) \/ Promote(k)
<1> SUFFICES ASSUME [Next]_vars, \A k \in Client : ~Writes(k) PROVE Quiet
  OBVIOUS
<1>1. ASSUME NEW k \in Client, NEW d \in Cohort,
             \/ DeclareRead(k, d) \/ AcceptRead(k, d) \/ ReleaseRead(k, d)
             \/ WithdrawBegin(k, d) \/ AddPartRead(k, d)
      PROVE  Quiet
  BY <1>1 DEF DeclareRead, AcceptRead, ReleaseRead, WithdrawBegin, AddPartRead, data
<1>2. ASSUME NEW k \in Client, NEW g \in declared, NEW h \in declared, RequestBegin(k, g, h)
      PROVE  Quiet
  BY <1>2 DEF RequestBegin, data
<1>3. ASSUME NEW k \in Client,
             LockNext(k) \/ WithdrawChoose(k) \/ Accept(k) \/ AddPart(k) \/ Abort(k)
      PROVE  Quiet
  BY <1>3 DEF LockNext, WithdrawChoose, Accept, AddPart, Abort, data
<1>4. ASSUME NEW d \in Cohort, Fill(d) \/ Clear(d) PROVE Quiet
  BY <1>4 DEF Fill, Clear
<1>5. CASE UNCHANGED vars
  BY <1>5 DEF vars
<1> HIDE DEF Quiet
<1> QED
  BY <1>1, <1>2, <1>3, <1>4, <1>5 DEF Next

\* Cohorts come one at a time.
LEMMA FiniteInvariant == IInv /\ [Next]_vars => FinitelyMany'
<1> SUFFICES ASSUME IInv, [Next]_vars PROVE IsFiniteSet(declared')
  BY DEF FinitelyMany
<1>0. IsFiniteSet(declared)
  BY DEF IInv, FinitelyMany
<1>1. ASSUME NEW k \in Client, Declare(k) PROVE IsFiniteSet(declared')
  BY <1>0, <1>1, FS_AddElement DEF Declare
<1>2. ASSUME NEW k \in Client, Withdraw(k) \/ Promote(k) PROVE IsFiniteSet(declared')
  <2>1. declared' = declared \ {tx[k].cohort}
    BY <1>2 DEF Withdraw, Promote
  <2> QED
    BY <1>0, <2>1, FS_RemoveElement
<1>3. ASSUME NEW k \in Client, Request(k) \/ Release(k) PROVE IsFiniteSet(declared')
  BY <1>0, <1>3 DEF Request, Release
<1> QED
  BY <1>0, <1>1, <1>2, <1>3, HostWriters

\* A cohort that is gone stays gone, and one that goes was locked by the client
\* that withdraws it, whose locks go with it.
LEMMA DeclaredStays ==
    ASSUME IInv, [Next]_vars
    PROVE  /\ gone \subseteq gone'
           /\ \A c \in declared : \/ c \in declared'
                                  \/ c \in gone' /\ lock[c] # Nothing /\ lock'[c] = Nothing
<1> USE ConstantsAssumption
<1>1. ASSUME NEW k \in Client, Withdraw(k) \/ Promote(k)
      PROVE  /\ gone \subseteq gone'
             /\ \A c \in declared :
                    \/ c \in declared'
                    \/ c \in gone' /\ lock[c] # Nothing /\ lock'[c] = Nothing
  <2>1. lock[tx[k].cohort] = k /\ lock'[tx[k].cohort] = Nothing
    <3>1. TypeOK /\ End(k)
      BY <1>1, EndsIsEnd DEF Ends, IInv
    <3>2. tx[k].cohort \in Cohort /\ lock[tx[k].cohort] = k
      BY <1>1, WithdrawerHolds
    <3>3. \A c \in Cohort : lock[c] = k => lock'[c] = Nothing
      BY <3>1, EndFacts
    <3> QED
      BY <3>2, <3>3
  <2>2. declared' = declared \ {tx[k].cohort} /\ gone' = gone \cup {tx[k].cohort}
    BY <1>1 DEF Withdraw, Promote
  <2> QED
    BY <2>1, <2>2
<1>2. ASSUME NEW k \in Client, Declare(k) \/ Request(k) \/ Release(k)
      PROVE  UNCHANGED gone /\ declared \subseteq declared'
  BY <1>2 DEF Declare, Request, Release
<1> QED
  BY <1>1, <1>2, HostWriters

\* A row that stays locked keeps its host, and gets no guest.
LEMMA LockedStays ==
    ASSUME IInv, [Next]_vars, NEW c \in Cohort, lock[c] # Nothing, lock'[c] = lock[c]
    PROVE  /\ host'[c] = host[c]
           /\ \A g \in Cohort : g \in declared' /\ host'[g] = c => g \in declared /\ host[g] = c
<1> USE ConstantsAssumption
<1> DEFINE Stays == /\ host'[c] = host[c]
                    /\ \A g \in Cohort : g \in declared' /\ host'[g] = c =>
                           g \in declared /\ host[g] = c
<1>0. /\ TypeOK /\ LockedIsDeclared /\ KnowsItsCohorts
      /\ c \in declared /\ lock[c] \in Client /\ c # Nothing
  BY DEF IInv, LockedIsDeclared, TypeOK
<1>1. ASSUME NEW k \in Client, Declare(k) PROVE Stays
  <2> DEFINE n == tx[k].cohort
             h == tx[k].host
  <2>1. n \notin declared /\ n \in Cohort /\ n # c
    BY <1>1, <1>0, TransactionType, IdleFacts DEF Declare, Running, Operations
  <2>2. CASE h \in declared /\ ~Covered(h)
    <3>1. h # c /\ host' = [host EXCEPT ![n] = h] /\ declared' = declared \cup {n}
      BY <1>1, <2>2 DEF Declare
    <3> QED
      BY <2>1, <3>1, <1>0 DEF TypeOK
  <2>3. CASE ~(h \in declared /\ ~Covered(h))
    <3>1. host' = [host EXCEPT ![n] = Nothing] /\ declared' = declared \cup {n}
      BY <1>1, <2>3 DEF Declare
    <3> QED
      BY <2>1, <3>1, <1>0 DEF TypeOK
  <2> QED
    BY <2>2, <2>3
<1>2. ASSUME NEW k \in Client, Request(k) PROVE Stays
  <2> DEFINE g == tx[k].cohort
             h == tx[k].host
  <2>1. lock[c] # k
    BY <1>2, <1>0, EndFacts DEF Request
  <2>2. g \in Cohort /\ h \in Cohort /\ lock[g] = k /\ lock[h] = k
    <3>1. tx[k].op = "request" /\ want[k] = {} /\ tx[k] # Idle
      BY <1>2, IdleFacts DEF Request, Locked, Running, Operations
    <3>2. lock[g] = k /\ lock[h] = k
      BY <3>1 DEF IInv, LocksWhatItNames
    <3>3. g \in Cohort /\ h \in Cohort
      BY <3>1, <1>0, TransactionType DEF KnowsItsCohorts
    <3> QED
      BY <3>2, <3>3
  <2>3. host' = [host EXCEPT ![g] = h] /\ declared' = declared
    BY <1>2 DEF Request
  <2> QED
    BY <2>1, <2>2, <2>3, <1>0 DEF TypeOK
<1>3. ASSUME NEW k \in Client, Release(k) PROVE Stays
  <2>1. tx[k].cohort \in Cohort /\ lock[tx[k].cohort] = Nothing
    BY <1>3, <1>0, TransactionType, IdleFacts DEF Release, Running, Operations
  <2>2. host' = [host EXCEPT ![tx[k].cohort] = Nothing] /\ declared' = declared
    BY <1>3 DEF Release
  <2> QED
    BY <2>1, <2>2, <1>0 DEF TypeOK
<1>4. ASSUME NEW k \in Client, Withdraw(k) PROVE Stays
  <2>1. lock[c] # k
    BY <1>4, <1>0, EndFacts DEF Withdraw
  <2>2. tx[k].cohort \in Cohort /\ lock[tx[k].cohort] = k
    BY <1>4, WithdrawerHolds
  <2>3. /\ host' = [host EXCEPT ![tx[k].cohort] = Nothing]
        /\ declared' = declared \ {tx[k].cohort}
    BY <1>4 DEF Withdraw
  <2> QED
    BY <2>1, <2>2, <2>3, <1>0 DEF TypeOK
<1>5. ASSUME NEW k \in Client, Promote(k) PROVE Stays
  <2> DEFINE h == tx[k].cohort
             s == tx[k].host
  <2>1. lock[c] # k
    BY <1>5, <1>0, EndFacts DEF Promote
  <2>2. /\ c \notin Guests(h) \cup {s}
        /\ host' = [g \in Cohort |->
                      IF g = s THEN Nothing ELSE IF host[g] = h THEN s ELSE host[g]]
        /\ declared' = declared \ {h}
    BY <1>5, <2>1, <1>0 DEF Promote
  <2>3. host[c] # h
    BY <2>2, <1>0 DEF Guests
  <2> QED
    BY <2>2, <2>3, <1>0
<1>6. CASE UNCHANGED <<declared, gone, host>>
  BY <1>6
<1>7. Stays
  BY <1>1, <1>2, <1>3, <1>4, <1>5, <1>6, HostWriters
<1> QED
  BY <1>7

\* The index holds: no coverage begins in a programme that has one.
LEMMA IndexInvariant == IInv /\ [Next]_vars => OneCoveredPerProgramme'
<1> SUFFICES ASSUME IInv, [Next]_vars, NEW c \in declared', NEW d \in declared',
                    host'[c] # Nothing, host'[d] # Nothing, programmeOf[c] = programmeOf[d]
             PROVE  c = d
  BY DEF OneCoveredPerProgramme, Covered
<1> USE ConstantsAssumption
<1>0. TypeOK /\ TypeOK' /\ OneLevelAcrossProgrammes /\ OneCoveredPerProgramme
  BY TypeInvariant DEF IInv
<1>1. ASSUME NEW k \in Client, Declare(k) PROVE c = d
  <2> DEFINE n == tx[k].cohort
             h == tx[k].host
  <2>1. n \in Cohort /\ n \notin declared /\ declared' = declared \cup {n}
    BY <1>1, <1>0, TransactionType, IdleFacts DEF Declare, Running, Operations
  <2>2. CASE h \in declared /\ ~Covered(h)
    <3>1. IndexAllows(n) /\ host' = [host EXCEPT ![n] = h]
      BY <1>1, <2>2 DEF Declare
    <3>2. \A e \in declared : programmeOf[e] = programmeOf[n] => host'[e] = Nothing
      BY <2>1, <3>1, <1>0 DEF IndexAllows, SameProgramme, Covered, TypeOK
    <3>3. \A e \in declared : host'[e] = host[e]
      BY <2>1, <3>1, <1>0 DEF TypeOK
    <3> QED
      BY <2>1, <3>2, <3>3, <1>0 DEF OneCoveredPerProgramme, Covered
  <2>3. CASE ~(h \in declared /\ ~Covered(h))
    <3>1. host' = [host EXCEPT ![n] = Nothing]
      BY <1>1, <2>3 DEF Declare
    <3>2. host'[n] = Nothing /\ \A e \in declared : host'[e] = host[e]
      BY <2>1, <3>1, <1>0 DEF TypeOK
    <3> QED
      BY <2>1, <3>2, <1>0 DEF OneCoveredPerProgramme, Covered
  <2> QED
    BY <2>2, <2>3
<1>2. ASSUME NEW k \in Client, Request(k) PROVE c = d
  <2> DEFINE g == tx[k].cohort
  <2>1. declared' = declared /\ IndexAllows(g) /\ host' = [host EXCEPT ![g] = tx[k].host]
    BY <1>2 DEF Request
  <2>2. \A e \in declared \ {g} : /\ host'[e] = host[e]
                                  /\ programmeOf[e] = programmeOf[g] => host[e] = Nothing
    BY <2>1, <1>0 DEF IndexAllows, SameProgramme, Covered, TypeOK
  <2> QED
    BY <2>1, <2>2, <1>0 DEF OneCoveredPerProgramme, Covered
<1>3. ASSUME NEW k \in Client, Release(k) \/ Withdraw(k) PROVE c = d
  <2>1. declared' \subseteq declared /\ host' = [host EXCEPT ![tx[k].cohort] = Nothing]
    BY <1>3 DEF Release, Withdraw
  <2>2. \A e \in declared : host'[e] # Nothing => host[e] # Nothing
    BY <2>1, <1>0 DEF TypeOK
  <2> QED
    BY <2>1, <2>2, <1>0 DEF OneCoveredPerProgramme, Covered
<1>4. ASSUME NEW k \in Client, Promote(k) PROVE c = d
  <2> DEFINE h == tx[k].cohort
             s == tx[k].host
  <2>1. /\ declared' \subseteq declared
        /\ host' = [g \in Cohort |->
                      IF g = s THEN Nothing ELSE IF host[g] = h THEN s ELSE host[g]]
    BY <1>4 DEF Promote
  <2>2. h # Nothing
    BY <1>4, WithdrawerHolds
  <2>3. \A e \in declared : host'[e] # Nothing => host[e] # Nothing
    BY <2>1, <2>2, <1>0 DEF TypeOK
  <2> QED
    BY <2>1, <2>3, <1>0 DEF OneCoveredPerProgramme, Covered
<1>5. CASE UNCHANGED <<declared, gone, host>>
  BY <1>5, <1>0 DEF OneCoveredPerProgramme, Covered
<1> QED
  BY <1>1, <1>2, <1>3, <1>4, <1>5, HostWriters

\* A coverage is of one level and between two programmes. The index tells that
\* a promotion gives the successor only guests of other programmes.
LEMMA OneLevelInvariant == IInv /\ [Next]_vars => OneLevelAcrossProgrammes'
<1> SUFFICES ASSUME IInv, [Next]_vars, NEW g \in Cohort, host'[g] # Nothing
             PROVE  /\ g \in declared' /\ host'[g] \in declared'
                    /\ host'[host'[g]] = Nothing
                    /\ programmeOf[host'[g]] # programmeOf[g]
  BY DEF OneLevelAcrossProgrammes, Covered
<1> USE ConstantsAssumption
<1> DEFINE Fits == /\ g \in declared' /\ host'[g] \in declared'
                   /\ host'[host'[g]] = Nothing
                   /\ programmeOf[host'[g]] # programmeOf[g]
<1>0. TypeOK /\ TypeOK' /\ KnowsItsCohorts /\ LockedIsDeclared /\ SuccessorFits
  BY TypeInvariant DEF IInv
<1>a. \A c \in Cohort : host[c] # Nothing =>
          /\ c \in declared /\ host[c] \in declared /\ host[c] \in Cohort
          /\ host[host[c]] = Nothing
          /\ programmeOf[host[c]] # programmeOf[c]
  BY <1>0 DEF IInv, OneLevelAcrossProgrammes, Covered, TypeOK
<1>1. ASSUME NEW k \in Client, Declare(k) PROVE Fits
  <2> DEFINE n == tx[k].cohort
             h == tx[k].host
  <2>1. /\ n \in Cohort /\ n \notin declared /\ declared' = declared \cup {n}
        /\ tx[k].op = "declare"
    BY <1>1, <1>0, TransactionType, IdleFacts DEF Declare, Running, Operations
  <2>2. host[n] = Nothing
    BY <2>1, <1>a
  <2>3. CASE h \in declared /\ ~Covered(h)
    <3>1. host' = [host EXCEPT ![n] = h] /\ h \in Cohort /\ h # Nothing /\ h # n
      BY <1>1, <2>1, <2>3, <1>0 DEF Declare, TypeOK
    <3>2. programmeOf[h] # programmeOf[n] /\ host[h] = Nothing
      BY <2>1, <2>3, <3>1, <1>0 DEF KnowsItsCohorts, Covered
    <3>3. host'[n] = h /\ host'[h] = Nothing /\ \A c \in Cohort \ {n} : host'[c] = host[c]
      BY <2>1, <3>1, <3>2, <1>0 DEF TypeOK
    <3>4. \A c \in Cohort : host[c] # n
      BY <2>1, <1>a, <1>0
    <3> HIDE DEF h, n
    <3>5. CASE g = n
      BY <2>1, <2>3, <3>2, <3>3, <3>5
    <3>6. CASE g # n
      BY <2>1, <3>3, <3>4, <3>6, <1>a
    <3> QED
      BY <3>5, <3>6
  <2>4. CASE ~(h \in declared /\ ~Covered(h))
    <3>1. host' = [host EXCEPT ![n] = Nothing]
      BY <1>1, <2>4 DEF Declare
    <3>2. \A c \in Cohort : host'[c] = host[c]
      BY <2>1, <2>2, <3>1, <1>0 DEF TypeOK
    <3> QED
      BY <2>1, <3>2, <1>a
  <2> QED
    BY <2>3, <2>4
<1>2. ASSUME NEW k \in Client, Request(k) PROVE Fits
  <2> DEFINE n == tx[k].cohort
             h == tx[k].host
  <2>1. n \in declared /\ h \in declared /\ n \in Cohort /\ h \in Cohort
    <3>1. tx[k].op = "request" /\ want[k] = {} /\ tx[k] # Idle
      BY <1>2, IdleFacts DEF Request, Locked, Running, Operations
    <3>2. lock[n] = k /\ lock[h] = k
      BY <3>1 DEF IInv, LocksWhatItNames
    <3>3. n \in Cohort /\ h \in Cohort
      BY <3>1, <1>0, TransactionType DEF KnowsItsCohorts
    <3> QED
      BY <3>2, <3>3, <1>0 DEF LockedIsDeclared
  <2>2. /\ host' = [host EXCEPT ![n] = h] /\ declared' = declared
        /\ host[n] = Nothing /\ host[h] = Nothing
        /\ programmeOf[n] # programmeOf[h]
        /\ \A c \in declared : host[c] # n
    BY <1>2 DEF Request, Covered, Guests
  <2>3. host'[n] = h /\ \A c \in Cohort \ {n} : host'[c] = host[c]
    BY <2>1, <2>2, <1>0 DEF TypeOK
  <2> HIDE DEF h, n
  <2>4. CASE g = n
    BY <2>1, <2>2, <2>3, <2>4
  <2>5. CASE g # n
    BY <2>2, <2>3, <2>5, <1>a
  <2> QED
    BY <2>4, <2>5
<1>3. ASSUME NEW k \in Client, Release(k) PROVE Fits
  <2>1. host' = [host EXCEPT ![tx[k].cohort] = Nothing] /\ declared' = declared
    BY <1>3 DEF Release
  <2>2. /\ host'[g] = host[g]
        /\ \A c \in Cohort : host'[c] = host[c] \/ host'[c] = Nothing
    BY <2>1, <1>0 DEF TypeOK
  <2> QED
    BY <2>1, <2>2, <1>a
<1>4. ASSUME NEW k \in Client, Withdraw(k) PROVE Fits
  <2>1. /\ host' = [host EXCEPT ![tx[k].cohort] = Nothing]
        /\ declared' = declared \ {tx[k].cohort}
        /\ \A c \in declared : host[c] # tx[k].cohort
    BY <1>4 DEF Withdraw, Guests
  <2>2. /\ host'[g] = host[g] /\ g # tx[k].cohort
        /\ \A c \in Cohort : host'[c] = host[c] \/ host'[c] = Nothing
    BY <2>1, <1>0 DEF TypeOK
  <2> QED
    BY <2>1, <2>2, <1>a
<1>5. ASSUME NEW k \in Client, Promote(k) PROVE Fits
  <2> DEFINE h == tx[k].cohort
             s == tx[k].host
  <2>1. /\ h \in Cohort /\ s \in declared /\ s \in Cohort /\ s # h /\ s # Nothing
        /\ host[h] = Nothing
    BY <1>5, WithdrawerHolds DEF Covered
  <2>2. /\ declared' = declared \ {h}
        /\ host' = [c \in Cohort |->
                      IF c = s THEN Nothing ELSE IF host[c] = h THEN s ELSE host[c]]
        /\ tx[k].at = "chosen"
    BY <1>5 DEF Promote, Running
  <2>3. \A c \in declared \ {s} : host[c] = h => programmeOf[c] # programmeOf[s]
    BY <2>1, <2>2, <1>0 DEF SuccessorFits, Guests
  <2> HIDE DEF h, s
  <2>4. g # s /\ g # h
    BY <2>1, <2>2
  <2>5. CASE host[g] = h
    <3>1. host'[g] = s /\ host'[s] = Nothing /\ g \in declared
      BY <2>1, <2>2, <2>4, <2>5, <1>a
    <3> QED
      BY <2>1, <2>2, <2>3, <2>4, <2>5, <3>1
  <2>6. CASE host[g] # h
    <3>1. host'[g] = host[g] /\ host[g] # Nothing
      BY <2>2, <2>4, <2>6
    <3>2. host'[host[g]] = Nothing
      BY <2>1, <2>2, <3>1, <1>a
    <3> QED
      BY <2>2, <2>4, <2>6, <3>1, <3>2, <1>a
  <2> QED
    BY <2>5, <2>6
<1>6. CASE UNCHANGED <<declared, gone, host>>
  BY <1>6, <1>a
<1>7. Fits
  BY <1>1, <1>2, <1>3, <1>4, <1>5, <1>6, HostWriters
<1> QED
  BY <1>7

\* Parts are made for, and moved to, cohorts that are there.
LEMMA PartsInvariant == IInv /\ [Next]_vars => OnlyDeclaredTeach'
<1> SUFFICES ASSUME IInv, [Next]_vars, NEW c \in Cohort, c \notin declared' PROVE parts'[c] = 0
  BY DEF OnlyDeclaredTeach
<1> USE ConstantsAssumption
<1>0. TypeOK /\ \A d \in Cohort : d \notin declared => parts[d] = 0
  BY DEF IInv, OnlyDeclaredTeach
<1>1. ASSUME NEW k \in Client, Declare(k) PROVE parts'[c] = 0
  <2>1. c # tx[k].cohort /\ c \notin declared
    BY <1>1 DEF Declare
  <2> QED
    BY <1>1, <2>1, <1>0 DEF Declare, TypeOK
<1>2. ASSUME NEW k \in Client, Accept(k) PROVE parts'[c] = 0
  BY <1>2, <1>0 DEF Accept, TypeOK
<1>3. ASSUME NEW k \in Client, Release(k) \/ AddPart(k) PROVE parts'[c] = 0
  <2>1. c # tx[k].cohort /\ c \notin declared
    BY <1>3 DEF Release, AddPart
  <2>2. parts'[c] = parts[c]
    BY <1>3, <2>1, <1>0 DEF Release, AddPart, TypeOK
  <2> QED
    BY <2>1, <2>2, <1>0
<1>4. ASSUME NEW k \in Client, Withdraw(k) PROVE parts'[c] = 0
  <2>1. /\ c \in declared => c = tx[k].cohort
        /\ parts' = [parts EXCEPT ![tx[k].cohort] = 0]
    BY <1>4 DEF Withdraw
  <2> QED
    BY <2>1, <1>0 DEF TypeOK
<1>5. ASSUME NEW k \in Client, Promote(k) PROVE parts'[c] = 0
  <2> DEFINE h == tx[k].cohort
             s == tx[k].host
  <2>1. /\ c \in declared => c = h
        /\ parts' = [parts EXCEPT ![s] = @ + parts[h], ![h] = 0]
        /\ h \in Cohort /\ s \in Cohort /\ s \in declared /\ s # h
    BY <1>5, WithdrawerHolds DEF Promote
  <2>2. c # s
    BY <2>1
  <2> QED
    BY <2>1, <2>2, <1>0 DEF TypeOK
<1>6. CASE UNCHANGED parts /\ declared' = declared
  BY <1>6, <1>0
<1>7. ASSUME NEW k \in Client, NEW d \in Cohort,
             \/ DeclareRead(k, d) \/ AcceptRead(k, d) \/ ReleaseRead(k, d)
             \/ WithdrawBegin(k, d) \/ AddPartRead(k, d)
      PROVE  UNCHANGED parts /\ declared' = declared
  BY <1>7 DEF DeclareRead, AcceptRead, ReleaseRead, WithdrawBegin, AddPartRead, data
<1>8. ASSUME NEW k \in Client, NEW g \in declared, NEW h \in declared, RequestBegin(k, g, h)
      PROVE  UNCHANGED parts /\ declared' = declared
  BY <1>8 DEF RequestBegin, data
<1>9. ASSUME NEW k \in Client, LockNext(k) \/ WithdrawChoose(k) \/ Request(k) \/ Abort(k)
      PROVE  UNCHANGED parts /\ declared' = declared
  BY <1>9 DEF LockNext, WithdrawChoose, Request, Abort, data
<1>10. ASSUME NEW d \in Cohort, Fill(d) \/ Clear(d)
       PROVE  UNCHANGED parts /\ declared' = declared
  BY <1>10 DEF Fill, Clear
<1>11. CASE UNCHANGED vars
  BY <1>11, <1>6 DEF vars
<1> QED
  BY <1>1, <1>2, <1>3, <1>4, <1>5, <1>6, <1>7, <1>8, <1>9, <1>10, <1>11 DEF Next

-----------------------------------------------------------------------------
(* Transactions and their locks.                                           *)

\* What a transaction knows and wants when it has just begun.
Begun(k) ==
    /\ tx[k] = Idle
    /\ UNCHANGED <<data, lock>>
    /\ \A j \in Client \ {k} : tx'[j] = tx[j] /\ want'[j] = want[j]
    /\ \/ /\ tx'[k].op \in {"declare", "release", "addPart"} /\ tx'[k].at = "read"
          /\ want'[k] = {}
          /\ tx'[k].op = "declare" /\ tx'[k].host # Nothing =>
                 programmeOf[tx'[k].host] # programmeOf[tx'[k].cohort]
       \/ /\ tx'[k].op \in {"request", "accept"} /\ tx'[k].at = "locking"
          /\ tx'[k].host # Nothing
          /\ want'[k] = {tx'[k].cohort, tx'[k].host}
       \/ /\ tx'[k].op = "withdraw" /\ tx'[k].at = "locking"
          /\ tx'[k].cohort \in declared /\ tx'[k].cohort \in want'[k]

\* A client that is idle holds nothing and waits for nothing.
LEMMA IdleHoldsNothing ==
    ASSUME IInv, NEW k \in Client, tx[k] = Idle
    PROVE  want[k] = {} /\ \A c \in Cohort : lock[c] # k
<1>1. tx[k].at = "idle" /\ tx[k].op \notin Operations
  BY IdleFacts
<1>2. want[k] = {}
  BY <1>1 DEF IInv, LocksWhatItNames
<1>3. k # Nothing
  BY ConstantsAssumption
<1>4. \A c \in Cohort : lock[c] # k
  BY <1>1, <1>3 DEF IInv, LockedIsDeclared, Operations
<1> QED
  BY <1>2, <1>4

\* Every step begins a transaction, locks its next row, chooses a successor,
\* ends it, or is none of a transaction.
LEMMA StepKinds ==
    ASSUME IInv, [Next]_vars
    PROVE  \/ UNCHANGED <<lock, want, tx>>
           \/ \E k \in Client : Begun(k) \/ LockNext(k) \/ WithdrawChoose(k) \/ End(k)
<1> USE ConstantsAssumption
<1>0. TypeOK
  BY DEF IInv
<1>1. ASSUME NEW k \in Client, NEW c \in Cohort, DeclareRead(k, c) PROVE Begun(k)
  <2>1. PICK h \in Cohort \cup {Nothing} :
          /\ Begin(k, "declare", "read", c, h)
          /\ h # Nothing => programmeOf[h] # programmeOf[c]
    <3>1. PICK h \in IF HostsFor(c) = {} THEN {Nothing} ELSE HostsFor(c) :
            Begin(k, "declare", "read", c, h)
      BY <1>1 DEF DeclareRead
    <3>2. \A d \in HostsFor(c) : d \in Cohort /\ programmeOf[d] # programmeOf[c]
      BY <1>0 DEF HostsFor, SameProgramme, TypeOK
    <3> QED
      BY <3>1, <3>2
  <2>2. /\ tx[k] = Idle
        /\ tx'[k].op = "declare" /\ tx'[k].at = "read"
        /\ tx'[k].cohort = c /\ tx'[k].host = h
        /\ \A j \in Client \ {k} : tx'[j] = tx[j]
    BY <2>1, <1>0, BeginNames
  <2>3. UNCHANGED <<data, lock, want>> /\ want[k] = {}
    BY <1>1, <2>2, IdleHoldsNothing DEF DeclareRead
  <2> QED
    BY <2>1, <2>2, <2>3 DEF Begun
<1>2. ASSUME NEW k \in Client, NEW c \in Cohort, AcceptRead(k, c) PROVE Begun(k)
  <2>1. PICK h \in Cohort : host[c] = h /\ h # Nothing
    BY <1>2, <1>0 DEF AcceptRead, Covered, TypeOK
  <2>2. /\ tx[k] = Idle
        /\ tx'[k].op = "accept" /\ tx'[k].at = "locking"
        /\ tx'[k].cohort = c /\ tx'[k].host = h
        /\ \A j \in Client \ {k} : tx'[j] = tx[j]
    BY <1>2, <2>1, <1>0, BeginNames DEF AcceptRead
  <2>3. UNCHANGED <<data, lock>> /\ want' = [want EXCEPT ![k] = {c, h}]
    BY <1>2, <2>1 DEF AcceptRead
  <2> QED
    BY <2>1, <2>2, <2>3, <1>0 DEF Begun, TypeOK
<1>3. ASSUME NEW k \in Client, NEW c \in Cohort, ReleaseRead(k, c) PROVE Begun(k)
  <2>1. /\ tx[k] = Idle /\ UNCHANGED <<data, lock, want>>
        /\ tx'[k].op = "release" /\ tx'[k].at = "read"
        /\ \A j \in Client \ {k} : tx'[j] = tx[j]
    BY <1>3, <1>0 DEF ReleaseRead, Idle, TypeOK
  <2>2. want[k] = {}
    BY <2>1, IdleHoldsNothing
  <2> QED
    BY <2>1, <2>2 DEF Begun
<1>4. ASSUME NEW k \in Client, NEW c \in Cohort, WithdrawBegin(k, c) PROVE Begun(k)
  <2>1. /\ tx[k] = Idle
        /\ tx'[k].op = "withdraw" /\ tx'[k].at = "locking" /\ tx'[k].cohort = c
        /\ \A j \in Client \ {k} : tx'[j] = tx[j]
    BY <1>4, <1>0, BeginNames DEF WithdrawBegin
  <2>2. /\ UNCHANGED <<data, lock>> /\ c \in declared
        /\ want' = [want EXCEPT ![k] = {c} \cup Guests(c)]
    BY <1>4 DEF WithdrawBegin
  <2>3. c \in want'[k] /\ \A j \in Client \ {k} : want'[j] = want[j]
    BY <2>2, <1>0 DEF TypeOK
  <2> QED
    BY <2>1, <2>2, <2>3 DEF Begun
<1>5. ASSUME NEW k \in Client, NEW c \in Cohort, AddPartRead(k, c) PROVE Begun(k)
  <2>1. /\ tx[k] = Idle
        /\ tx'[k].op = "addPart" /\ tx'[k].at = "read"
        /\ \A j \in Client \ {k} : tx'[j] = tx[j]
    BY <1>5, <1>0, BeginNames DEF AddPartRead
  <2>2. UNCHANGED <<data, lock, want>> /\ want[k] = {}
    BY <1>5, <2>1, IdleHoldsNothing DEF AddPartRead
  <2> QED
    BY <2>1, <2>2 DEF Begun
<1>6. ASSUME NEW k \in Client, NEW g \in declared, NEW h \in declared, RequestBegin(k, g, h)
      PROVE  Begun(k)
  <2>1. g \in Cohort /\ h \in Cohort /\ h # Nothing
    BY <1>0 DEF TypeOK
  <2>2. /\ tx[k] = Idle
        /\ tx'[k].op = "request" /\ tx'[k].at = "locking"
        /\ tx'[k].cohort = g /\ tx'[k].host = h
        /\ \A j \in Client \ {k} : tx'[j] = tx[j]
    BY <1>6, <1>0, BeginNames DEF RequestBegin
  <2>3. UNCHANGED <<data, lock>> /\ want' = [want EXCEPT ![k] = {g, h}]
    BY <1>6 DEF RequestBegin
  <2> QED
    BY <2>1, <2>2, <2>3, <1>0 DEF Begun, TypeOK
<1>7. \A k \in Client : Ends(k) => End(k)
  BY EndsIsEnd
<1>8. ASSUME NEW c \in Cohort, Fill(c) \/ Clear(c) PROVE UNCHANGED <<lock, want, tx>>
  BY <1>8 DEF Fill, Clear
<1>9. CASE UNCHANGED vars
  BY <1>9 DEF vars
<1> QED
  BY <1>1, <1>2, <1>3, <1>4, <1>5, <1>6, <1>7, <1>8, <1>9 DEF Next, Ends

\* What a withdrawal has chosen, it knows of the row it holds.
LEMMA ChooseFacts ==
    ASSUME IInv, NEW k \in Client, WithdrawChoose(k)
    PROVE  /\ tx[k].cohort \in declared /\ tx[k].cohort \in Cohort
           /\ lock[tx[k].cohort] = k /\ want[k] = {}
           /\ tx'[k].op = "withdraw" /\ tx'[k].at = "chosen"
           /\ tx'[k].cohort = tx[k].cohort
           /\ tx'[k].host # Nothing => tx'[k].host \in Guests(tx[k].cohort)
           /\ \A j \in Client \ {k} : tx'[j] = tx[j]
<1> USE ConstantsAssumption
<1>1. tx[k].op = "withdraw" /\ tx[k] # Idle /\ want[k] = {} /\ tx[k].cohort \in declared
  BY IdleFacts DEF WithdrawChoose, Locked, Running, Operations
<1>2. tx[k].cohort \in Cohort /\ tx[k].cohort \notin gone
  BY <1>1 DEF IInv, TypeOK
<1>3. lock[tx[k].cohort] = k
  BY <1>1, <1>2 DEF IInv, LocksWhatItNames
<1>4. PICK s : /\ tx' = [tx EXCEPT ![k].at = "chosen", ![k].host = s]
               /\ s # Nothing => s \in Guests(tx[k].cohort)
  BY DEF WithdrawChoose, Successors
<1>5. tx[k] \in Transaction \ {Idle} /\ tx \in [Client -> Transaction]
  BY <1>1 DEF IInv, TypeOK
<1>6. /\ tx'[k].op = "withdraw" /\ tx'[k].at = "chosen" /\ tx'[k].host = s
      /\ tx'[k].cohort = tx[k].cohort
      /\ \A j \in Client \ {k} : tx'[j] = tx[j]
  BY <1>1, <1>4, <1>5 DEF Transaction
<1> QED
  BY <1>1, <1>2, <1>3, <1>4, <1>6

\* Operations stay in the states they have, and know what they were told.
LEMMA KnowledgeInvariant == IInv /\ [Next]_vars => KnowsItsCohorts'
<1> SUFFICES ASSUME IInv, [Next]_vars, NEW j \in Client
             PROVE  /\ tx'[j].op = Nothing => tx'[j].at = "idle"
                    /\ tx'[j].op \in {"declare", "release", "addPart"} => tx'[j].at = "read"
                    /\ tx'[j].op = "declare" /\ tx'[j].host # Nothing =>
                           programmeOf[tx'[j].host] # programmeOf[tx'[j].cohort]
                    /\ tx'[j].op \in {"request", "accept"} =>
                           tx'[j].at = "locking" /\ tx'[j].host # Nothing
                    /\ tx'[j].op = "withdraw" => /\ tx'[j].at \in {"locking", "chosen"}
                                                 /\ tx'[j].cohort \in declared' \cup gone'
  BY DEF KnowsItsCohorts
<1> USE ConstantsAssumption
<1>0. TypeOK /\ KnowsItsCohorts /\ declared \cup gone \subseteq declared' \cup gone'
  BY DeclaredStays DEF IInv
<1>1. CASE tx'[j] = tx[j]
  BY <1>0, <1>1 DEF KnowsItsCohorts
<1>2. CASE Begun(j)
  BY <1>0, <1>2 DEF Begun, Operations
<1>3. CASE WithdrawChoose(j)
  <2>1. /\ tx'[j].op = "withdraw" /\ tx'[j].at = "chosen"
        /\ tx'[j].cohort = tx[j].cohort /\ tx[j].cohort \in declared
    BY <1>3, ChooseFacts
  <2> QED
    BY <2>1, <1>0 DEF Operations
<1>4. CASE End(j)
  BY <1>0, <1>4, EndFacts, IdleFacts DEF Operations
<1>5. ASSUME NEW k \in Client \ {j}, Begun(k) \/ WithdrawChoose(k) \/ End(k)
      PROVE  tx'[j] = tx[j]
  BY <1>0, <1>5, EndFacts, ChooseFacts DEF Begun
<1>6. ASSUME NEW k \in Client, LockNext(k) PROVE tx'[j] = tx[j]
  BY <1>6 DEF LockNext
<1> QED
  BY <1>1, <1>2, <1>3, <1>4, <1>5, <1>6, StepKinds

\* A locked row is there, and a transaction that locks holds it.
LEMMA LockedInvariant == IInv /\ [Next]_vars => LockedIsDeclared'
<1> SUFFICES ASSUME IInv, [Next]_vars, NEW c \in Cohort, lock'[c] # Nothing
             PROVE  c \in declared' /\ tx'[lock'[c]].op \in {"request", "accept", "withdraw"}
  BY DEF LockedIsDeclared
<1> USE ConstantsAssumption
<1>0. /\ TypeOK /\ LockedIsDeclared /\ KnowsItsCohorts /\ LocksWhatItNames
      /\ lock[c] \in Client \cup {Nothing}
  BY DEF IInv, TypeOK
<1> DEFINE Fits == c \in declared' /\ tx'[lock'[c]].op \in {"request", "accept", "withdraw"}
<1>1. ASSUME lock'[c] = lock[c], tx'[lock[c]].op = tx[lock[c]].op PROVE Fits
  BY <1>0, <1>1, DeclaredStays DEF LockedIsDeclared
<1>2. ASSUME NEW k \in Client, Begun(k) PROVE Fits
  <2>1. lock'[c] = lock[c] /\ lock[c] # k
    BY <1>2, IdleHoldsNothing DEF Begun
  <2> QED
    BY <1>0, <1>1, <1>2, <2>1 DEF Begun
<1>3. ASSUME NEW k \in Client, LockNext(k) PROVE Fits
  <2>1. PICK d \in want[k] : /\ d \in Cohort
                             /\ IF d \in declared
                                THEN lock[d] = Nothing /\ lock' = [lock EXCEPT ![d] = k]
                                ELSE tx[k].op = "withdraw" /\ lock' = lock
                             /\ UNCHANGED <<data, tx>>
    BY <1>3, <1>0, LockNextFacts
  <2>2. CASE lock'[c] = lock[c]
    BY <1>1, <2>1, <2>2
  <2>3. CASE lock'[c] # lock[c]
    <3>1. d = c /\ c \in declared /\ lock'[c] = k
      BY <2>1, <2>3, <1>0 DEF TypeOK
    <3>2. tx[k] # Idle /\ tx[k].at = "locking"
      BY <2>1, <1>0, IdleFacts DEF LocksWhatItNames
    <3>3. tx[k].op \in {"request", "accept", "withdraw"}
      BY <3>2, <1>0, TransactionType DEF KnowsItsCohorts, Operations
    <3> QED
      BY <2>1, <3>1, <3>3 DEF data
  <2> QED
    BY <2>2, <2>3
<1>4. ASSUME NEW k \in Client, WithdrawChoose(k) PROVE Fits
  <2>1. lock' = lock
    BY <1>4 DEF WithdrawChoose
  <2>2. tx[k].op = "withdraw"
    BY <1>4 DEF WithdrawChoose, Locked, Running
  <2>3. \A j \in Client : tx'[j].op = tx[j].op
    BY <1>4, <2>2, ChooseFacts
  <2> QED
    BY <1>0, <1>1, <2>1, <2>3
<1>5. ASSUME NEW k \in Client, End(k) PROVE Fits
  <2>1. lock'[c] = lock[c] /\ lock[c] \in Client \ {k}
    BY <1>0, <1>5, EndFacts
  <2> QED
    BY <1>0, <1>1, <1>5, <2>1, EndFacts
<1>6. CASE UNCHANGED <<lock, want, tx>>
  BY <1>1, <1>6
<1>7. Fits
  BY <1>2, <1>3, <1>4, <1>5, <1>6, StepKinds
<1> QED
  BY <1>7

\* What is locked lies below what is wanted: the smallest is locked next.
LEMMA OrderInvariant == IInv /\ [Next]_vars => LocksInOrder'
<1> SUFFICES ASSUME IInv, [Next]_vars, NEW j \in Client, NEW c \in Cohort, lock'[c] = j,
                    NEW d \in want'[j]
             PROVE  c < d
  BY DEF LocksInOrder
<1> USE ConstantsAssumption
<1>0. TypeOK /\ LocksInOrder /\ j # Nothing
  BY DEF IInv
<1>1. ASSUME lock[c] = j, d \in want[j] PROVE c < d
  BY <1>0, <1>1 DEF LocksInOrder
<1>2. ASSUME NEW k \in Client, Begun(k) PROVE c < d
  <2>1. lock[c] = j /\ lock[c] # k
    BY <1>2, IdleHoldsNothing DEF Begun
  <2> QED
    BY <1>1, <1>2, <2>1 DEF Begun
<1>3. ASSUME NEW k \in Client, LockNext(k) PROVE c < d
  <2>1. PICK m \in want[k] : /\ m \in Cohort
                             /\ \A e \in want[k] \ {m} : m < e
                             /\ lock' = lock \/ lock' = [lock EXCEPT ![m] = k]
                             /\ want' = [want EXCEPT ![k] = @ \ {m}]
    BY <1>3, <1>0, LockNextFacts
  <2>2. d \in want[j] /\ (j = k => d # m)
    BY <2>1, <1>0 DEF TypeOK
  <2>3. CASE lock[c] = j
    BY <1>1, <2>2, <2>3
  <2>4. CASE lock[c] # j
    <3>1. c = m /\ j = k
      BY <2>1, <2>4, <1>0 DEF TypeOK
    <3> QED
      BY <2>1, <2>2, <3>1
  <2> QED
    BY <2>3, <2>4
<1>4. ASSUME NEW k \in Client, WithdrawChoose(k) PROVE c < d
  BY <1>1, <1>4 DEF WithdrawChoose
<1>5. ASSUME NEW k \in Client, End(k) PROVE c < d
  <2>1. j # k /\ want'[j] = want[j] /\ lock[c] = j
    BY <1>0, <1>5, EndFacts
  <2> QED
    BY <1>1, <2>1
<1>6. CASE UNCHANGED <<lock, want, tx>>
  BY <1>1, <1>6
<1> QED
  BY <1>2, <1>3, <1>4, <1>5, <1>6, StepKinds

\* What is no longer wanted is held, or gone.
LEMMA WantInvariant == IInv /\ [Next]_vars => LocksWhatItNames'
<1> SUFFICES ASSUME IInv, [Next]_vars, NEW j \in Client
             PROVE  /\ want'[j] # {} => tx'[j].at = "locking"
                    /\ tx'[j].op \in {"request", "accept"} =>
                           \A c \in {tx'[j].cohort, tx'[j].host} : c \in want'[j] \/ lock'[c] = j
                    /\ tx'[j].op = "withdraw" =>
                           \/ tx'[j].cohort \in want'[j] \cup gone'
                           \/ lock'[tx'[j].cohort] = j
                    /\ tx'[j].at = "chosen" => lock'[tx'[j].cohort] = j
  BY DEF LocksWhatItNames
<1> USE ConstantsAssumption
<1> DEFINE Holds ==
      /\ want'[j] # {} => tx'[j].at = "locking"
      /\ tx'[j].op \in {"request", "accept"} =>
             \A c \in {tx'[j].cohort, tx'[j].host} : c \in want'[j] \/ lock'[c] = j
      /\ tx'[j].op = "withdraw" =>
             tx'[j].cohort \in want'[j] \cup gone' \/ lock'[tx'[j].cohort] = j
      /\ tx'[j].at = "chosen" => lock'[tx'[j].cohort] = j
<1>0. /\ TypeOK /\ KnowsItsCohorts /\ LocksWhatItNames /\ gone \subseteq gone'
      /\ j # Nothing
  BY DeclaredStays DEF IInv
<1>a. /\ tx[j].op \in {"request", "accept"} => tx[j].cohort \in Cohort /\ tx[j].host \in Cohort
      /\ tx[j].op = "withdraw" => tx[j].cohort \in Cohort
      /\ tx[j].at = "chosen" => tx[j].cohort \in Cohort
  BY <1>0, TransactionType, IdleFacts DEF KnowsItsCohorts, Operations
<1>1. ASSUME tx'[j] = tx[j], want'[j] = want[j],
             \A c \in Cohort : lock[c] = j => lock'[c] = j
      PROVE  Holds
  BY <1>0, <1>a, <1>1 DEF LocksWhatItNames
<1>2. CASE Begun(j)
  BY <1>0, <1>2 DEF Begun
<1>3. CASE LockNext(j)
  <2>1. PICK m \in want[j] :
          /\ m \in Cohort
          /\ IF m \in declared
             THEN lock[m] = Nothing /\ lock' = [lock EXCEPT ![m] = j]
             ELSE tx[j].op = "withdraw" /\ lock' = lock
          /\ want' = [want EXCEPT ![j] = @ \ {m}]
          /\ UNCHANGED <<data, tx>>
    BY <1>3, <1>0, LockNextFacts
  <2>2. tx'[j] = tx[j] /\ gone' = gone /\ want'[j] = want[j] \ {m}
    BY <2>1, <1>0 DEF TypeOK, data
  <2>3. \A c \in Cohort : lock[c] = j => lock'[c] = j
    BY <2>1, <1>0 DEF TypeOK
  <2>4. m \in declared => lock'[m] = j
    BY <2>1, <1>0 DEF TypeOK
  <2>5. tx[j].at = "locking"
    BY <2>1, <1>0 DEF LocksWhatItNames
  <2>6. ASSUME tx[j].op \in {"request", "accept"}, NEW c \in {tx[j].cohort, tx[j].host}
        PROVE  c \in want'[j] \/ lock'[c] = j
    <3>1. m \in declared /\ lock'[m] = j
      BY <2>1, <2>4, <2>6
    <3>2. c \in want[j] \/ lock[c] = j
      BY <2>6, <1>0 DEF LocksWhatItNames
    <3> QED
      BY <2>2, <2>3, <2>6, <3>1, <3>2, <1>a
  <2>7. ASSUME tx[j].op = "withdraw"
        PROVE  tx[j].cohort \in want'[j] \cup gone' \/ lock'[tx[j].cohort] = j
    <3>1. tx[j].cohort \in want[j] \cup gone \/ lock[tx[j].cohort] = j
      BY <2>7, <1>0 DEF LocksWhatItNames
    <3>2. tx[j].cohort \in declared \cup gone
      BY <2>7, <1>0 DEF KnowsItsCohorts
    <3> QED
      BY <2>2, <2>3, <2>4, <2>7, <3>1, <3>2, <1>a
  <2> QED
    BY <2>2, <2>5, <2>6, <2>7
<1>4. CASE WithdrawChoose(j)
  <2>1. UNCHANGED <<lock, want>>
    BY <1>4 DEF WithdrawChoose
  <2> QED
    BY <1>4, <2>1, ChooseFacts
<1>5. CASE End(j)
  BY <1>0, <1>5, EndFacts, IdleFacts DEF Operations
<1>6. ASSUME NEW k \in Client \ {j}, Begun(k) \/ LockNext(k) \/ WithdrawChoose(k) \/ End(k)
      PROVE  Holds
  <2>1. CASE Begun(k)
    BY <2>1, <1>1 DEF Begun
  <2>2. CASE LockNext(k)
    <3>1. PICK m \in Cohort : /\ lock' = lock \/ (lock[m] = Nothing /\ lock' = [lock EXCEPT ![m] = k])
                              /\ want' = [want EXCEPT ![k] = @ \ {m}]
                              /\ UNCHANGED tx
      BY <2>2, <1>0, LockNextFacts
    <3>2. want'[j] = want[j] /\ tx'[j] = tx[j] /\ \A c \in Cohort : lock[c] = j => lock'[c] = j
      BY <3>1, <1>0 DEF TypeOK
    <3> QED
      BY <3>2, <1>1
  <2>3. CASE WithdrawChoose(k)
    <3>1. UNCHANGED <<lock, want>>
      BY <2>3 DEF WithdrawChoose
    <3> QED
      BY <2>3, <3>1, <1>1, ChooseFacts
  <2>4. CASE End(k)
    <3>1. /\ tx'[j] = tx[j] /\ want'[j] = want[j]
          /\ \A c \in Cohort : lock[c] = j => lock'[c] = j
      BY <2>4, <1>0, EndFacts
    <3> QED
      BY <3>1, <1>1
  <2> QED
    BY <1>6, <2>1, <2>2, <2>3, <2>4
<1>7. CASE UNCHANGED <<lock, want, tx>>
  BY <1>1, <1>7
<1>8. Holds
  BY <1>2, <1>3, <1>4, <1>5, <1>6, <1>7, StepKinds
<1> QED
  BY <1>8

\* The row of the cohort that goes is held from the choice on: nobody covers it
\* and no guest of the successor's programme comes.
LEMMA SuccessorInvariant == IInv /\ [Next]_vars => SuccessorFits'
<1> SUFFICES ASSUME IInv, [Next]_vars, NEW j \in Client,
                    tx'[j].at = "chosen", tx'[j].host # Nothing
             PROVE  /\ tx'[j].host # tx'[j].cohort
                    /\ host'[tx'[j].cohort] = Nothing
                    /\ \A g \in declared' : host'[g] = tx'[j].cohort /\ g # tx'[j].host =>
                           programmeOf[g] # programmeOf[tx'[j].host]
  BY DEF SuccessorFits, Covered, Guests
<1> USE ConstantsAssumption
<1> DEFINE Fits ==
      /\ tx'[j].host # tx'[j].cohort
      /\ host'[tx'[j].cohort] = Nothing
      /\ \A g \in declared' : host'[g] = tx'[j].cohort /\ g # tx'[j].host =>
             programmeOf[g] # programmeOf[tx'[j].host]
<1>0. /\ TypeOK /\ TypeOK' /\ SuccessorFits /\ LocksWhatItNames /\ LocksWhatItNames'
      /\ OneCoveredPerProgramme /\ j # Nothing
  BY TypeInvariant, WantInvariant DEF IInv
<1>1. CASE tx'[j] = tx[j]
  <2>1. tx[j].cohort \in Cohort
    BY <1>0, <1>1, TransactionType, IdleFacts
  <2>2. lock[tx[j].cohort] = j /\ lock'[tx[j].cohort] = j
    BY <1>0, <1>1 DEF LocksWhatItNames
  <2>3. /\ host'[tx[j].cohort] = host[tx[j].cohort]
        /\ \A g \in Cohort : g \in declared' /\ host'[g] = tx[j].cohort =>
               g \in declared /\ host[g] = tx[j].cohort
    BY <2>1, <2>2, <1>0, LockedStays
  <2>4. declared' \subseteq Cohort
    BY <1>0 DEF TypeOK
  <2>5. /\ tx[j].host # tx[j].cohort /\ host[tx[j].cohort] = Nothing
        /\ \A g \in declared : host[g] = tx[j].cohort /\ g # tx[j].host =>
               programmeOf[g] # programmeOf[tx[j].host]
    BY <1>0, <1>1 DEF SuccessorFits, Covered, Guests
  <2> QED
    BY <2>3, <2>4, <2>5, <1>1
<1>2. CASE WithdrawChoose(j)
  <2> DEFINE h == tx[j].cohort
             s == tx'[j].host
  <2>1. /\ tx'[j].cohort = h /\ h \in Cohort /\ s \in declared /\ host[s] = h /\ h # Nothing
    BY <1>2, ChooseFacts DEF Guests
  <2>2. host[h] = Nothing /\ s # h
    <3>1. s \in Cohort /\ host[s] # Nothing
      BY <2>1, <1>0 DEF TypeOK
    <3>2. host[host[s]] = Nothing
      BY <3>1 DEF IInv, OneLevelAcrossProgrammes, Covered
    <3> QED
      BY <2>1, <3>1, <3>2
  <2>3. UNCHANGED <<declared, host>>
    BY <1>2 DEF WithdrawChoose, data
  <2>4. \A g \in declared : host[g] = h /\ g # s => programmeOf[g] # programmeOf[s]
    BY <2>1, <1>0 DEF OneCoveredPerProgramme, Covered
  <2> QED
    BY <2>1, <2>2, <2>3, <2>4
<1>3. ASSUME Begun(j) \/ End(j) PROVE FALSE
  BY <1>0, <1>3, EndFacts, IdleFacts DEF Begun
<1>4. ASSUME NEW k \in Client \ {j}, Begun(k) \/ WithdrawChoose(k) \/ End(k)
      PROVE  tx'[j] = tx[j]
  BY <1>0, <1>4, EndFacts, ChooseFacts DEF Begun
<1>5. ASSUME NEW k \in Client, LockNext(k) PROVE tx'[j] = tx[j]
  BY <1>5 DEF LockNext
<1>6. Fits
  BY <1>1, <1>2, <1>3, <1>4, <1>5, StepKinds
<1> QED
  BY <1>6

-----------------------------------------------------------------------------
(* Theorems.                                                               *)

LEMMA StepInvariant == IInv /\ [Next]_vars => IInv'
BY TypeInvariant, FiniteInvariant, PartsInvariant, OneLevelInvariant, IndexInvariant, KnowledgeInvariant,
   LockedInvariant, WantInvariant, OrderInvariant, SuccessorInvariant
DEF IInv

\* Everything above holds of every run of the program.
THEOREM Invariance == Spec => []IInv
<1> QED
  BY InitInvariant, StepInvariant, PTL DEF Spec

\* An agreement is always about a coverage, and a cohort never has more
\* assignments than parts (course_instance_coverage_check and the foreign key
\* of assignment).
THEOREM TypeCorrectness == Spec => []TypeOK
<1>1. IInv => TypeOK
  BY DEF IInv
<1> QED
  BY <1>1, Invariance, PTL

\* However requests, agreements, couplings, releases and withdrawals interleave,
\* a covered cohort's host is declared, of another programme, and holds its own
\* teaching: nobody is left pointing at a host that is gone or covered itself.
THEOREM CoverageHasOneLevel == Spec => []OneLevelAcrossProgrammes
<1>1. IInv => OneLevelAcrossProgrammes
  BY DEF IInv
<1> QED
  BY <1>1, Invariance, PTL

\* A programme has one covered cohort of the module at most: a promotion, which
\* re-points guests without asking, never breaks the index.
THEOREM IndexIsKept == Spec => []OneCoveredPerProgramme
<1>1. IInv => OneCoveredPerProgramme
  BY DEF IInv
<1> QED
  BY <1>1, Invariance, PTL

\* Of two transactions that wait for each other, each holds a row: neither
\* releases, adds a part or declares, so both wait for the row they lock next.
LEMMA WaitingForALock ==
    ASSUME IInv, NEW j \in Client, NEW k \in Client, WaitsFor(j, k), WaitsFor(k, j)
    PROVE  want[j] # {} /\ lock[Min(want[j])] = k
<1>1. PICK c \in Needed(k) : lock[c] = j
  BY DEF WaitsFor
<1>2. tx[j].op \notin {"release", "addPart", "declare"}
  <2>1. c \in Cohort /\ j # Nothing
    <3>1. want[k] # {} => Min(want[k]) \in Cohort
      <4>1. want[k] \subseteq Cohort /\ Cohort \subseteq Nat
        BY ConstantsAssumption DEF IInv, TypeOK
      <4> QED
        BY <4>1, MinFacts
    <3>2. tx[k].op \in Operations => tx[k].cohort \in Cohort
      <4>1. TypeOK
        BY DEF IInv
      <4> QED
        BY <4>1, TransactionType, IdleFacts
    <3>3. declared \subseteq Cohort
      BY DEF IInv, TypeOK
    <3> QED
      BY <1>1, <3>1, <3>2, <3>3, ConstantsAssumption DEF Needed, Operations
  <2>2. tx[j].op \in {"request", "accept", "withdraw"}
    BY <1>1, <2>1 DEF IInv, LockedIsDeclared
  <2> QED
    BY <2>2
<1>3. PICK d \in Needed(j) : lock[d] = k
  BY DEF WaitsFor
<1> QED
  BY <1>2, <1>3 DEF Needed

\* Two transactions that do not withdraw never wait for each other: each holds
\* only rows below the one it waits for.
THEOREM LockOrderPreventsCircles == Spec => []NobodyWaitsInACircle
<1>1. IInv => NobodyWaitsInACircle
  <2> SUFFICES ASSUME IInv, NEW j \in Client, NEW k \in Client, WaitsFor(j, k), WaitsFor(k, j)
               PROVE  FALSE
    BY DEF NobodyWaitsInACircle
  <2>1. /\ want[j] # {} /\ lock[Min(want[j])] = k
        /\ want[k] # {} /\ lock[Min(want[k])] = j
    BY WaitingForALock
  <2>2. want[j] \in SUBSET Nat /\ want[k] \in SUBSET Nat /\ want[j] \cup want[k] \subseteq Cohort
    BY ConstantsAssumption DEF IInv, TypeOK
  <2>3. Min(want[j]) \in want[j] /\ Min(want[k]) \in want[k]
    BY <2>1, <2>2, MinFacts
  <2>4. Min(want[j]) < Min(want[k]) /\ Min(want[k]) < Min(want[j])
    BY <2>1, <2>2, <2>3 DEF IInv, LocksInOrder
  <2> QED
    BY <2>2, <2>3, <2>4
<1> QED
  BY <1>1, Invariance, PTL

\* Neither coupling nor agreeing, releasing or promoting leaves an accepted guest
\* with parts: an added part does.
THEOREM OnlyAddedPartsStayWithGuests == Spec => OnlyAddingGivesGuestsParts
<1> DEFINE Kept == \A c \in accepted' : parts'[c] # 0 =>
                       c \in accepted /\ (parts[c] # 0 \/ \E k \in Client : AddPart(k))
<1>1. IInv /\ [Next]_vars => [Kept]_vars
  <2> SUFFICES ASSUME IInv, [Next]_vars, NEW c \in accepted', parts'[c] # 0
               PROVE  c \in accepted /\ (parts[c] # 0 \/ \E k \in Client : AddPart(k))
    OBVIOUS
  <2> DEFINE Same == c \in accepted /\ parts[c] # 0
  <2>0. TypeOK /\ TypeOK'
    BY TypeInvariant DEF IInv
  <2>1. ASSUME NEW k \in Client, Declare(k) PROVE Same
    <3>1. tx[k].cohort \in Cohort
      BY <2>0, <2>1, TransactionType, IdleFacts DEF Declare, Running, Operations
    <3>2. CASE c = tx[k].cohort
      BY <2>0, <2>1, <3>1, <3>2 DEF Declare, TypeOK
    <3>3. CASE c # tx[k].cohort
      BY <2>0, <2>1, <3>1, <3>3 DEF Declare, TypeOK
    <3> QED
      BY <3>2, <3>3
  <2>2. ASSUME NEW k \in Client, Accept(k) PROVE Same
    BY <2>0, <2>2 DEF Accept, TypeOK
  <2>3. ASSUME NEW k \in Client, Release(k) PROVE Same
    BY <2>0, <2>3 DEF Release, TypeOK
  <2>4. ASSUME NEW k \in Client, Withdraw(k) PROVE Same
    BY <2>0, <2>4 DEF Withdraw, TypeOK
  <2>5. ASSUME NEW k \in Client, Promote(k) PROVE Same
    <3>1. /\ parts' = [parts EXCEPT ![tx[k].host] = @ + parts[tx[k].cohort],
                                    ![tx[k].cohort] = 0]
          /\ accepted' = accepted \ {tx[k].host}
          /\ tx[k].host # tx[k].cohort /\ tx[k].host \in Cohort /\ tx[k].cohort \in Cohort
      BY <2>5, WithdrawerHolds DEF Promote
    <3> QED
      BY <2>0, <3>1 DEF TypeOK
  <2>6. CASE UNCHANGED <<accepted, parts>>
    BY <2>6
  <2>7. ASSUME NEW k \in Client, NEW d \in Cohort,
               \/ DeclareRead(k, d) \/ AcceptRead(k, d) \/ ReleaseRead(k, d)
               \/ WithdrawBegin(k, d) \/ AddPartRead(k, d)
        PROVE  UNCHANGED <<accepted, parts>>
    BY <2>7 DEF DeclareRead, AcceptRead, ReleaseRead, WithdrawBegin, AddPartRead, data
  <2>8. ASSUME NEW k \in Client, NEW g \in declared, NEW h \in declared, RequestBegin(k, g, h)
        PROVE  UNCHANGED <<accepted, parts>>
    BY <2>8 DEF RequestBegin, data
  <2>9. ASSUME NEW k \in Client, LockNext(k) \/ WithdrawChoose(k) \/ Request(k) \/ Abort(k)
        PROVE  UNCHANGED <<accepted, parts>>
    BY <2>9 DEF LockNext, WithdrawChoose, Request, Abort, data
  <2>10. ASSUME NEW d \in Cohort, Fill(d) \/ Clear(d) PROVE UNCHANGED <<accepted, parts>>
    BY <2>10 DEF Fill, Clear
  <2>11. CASE UNCHANGED vars
    BY <2>11 DEF vars
  <2>12. ASSUME NEW k \in Client, AddPart(k) PROVE c \in accepted
    BY <2>12 DEF AddPart
  <2> QED
    BY <2>1, <2>2, <2>3, <2>4, <2>5, <2>6, <2>7, <2>8, <2>9, <2>10, <2>11, <2>12 DEF Next
<1> QED
  BY <1>1, Invariance, PTL DEF Spec, OnlyAddingGivesGuestsParts

\* Nobody else's step changes how many assignments a cohort has, and a promotion
\* moves those of the cohort that goes to another one that stays.
LEMMA OnlyPromotionMovesStaff ==
    ASSUME IInv, [Next]_vars, staffed' # staffed, \A c \in Cohort : ~(Fill(c) \/ Clear(c))
    PROVE  \E h, s \in declared :
               /\ h # s
               /\ staffed'[s] = staffed[s] + staffed[h] /\ staffed'[h] = 0
               /\ \A c \in Cohort \ {h, s} : staffed'[c] = staffed[c]
<1>1. PICK k \in Client : Promote(k)
  <2>1. ASSUME NEW k \in Client, NEW d \in Cohort,
               \/ DeclareRead(k, d) \/ AcceptRead(k, d) \/ ReleaseRead(k, d)
               \/ WithdrawBegin(k, d) \/ AddPartRead(k, d)
        PROVE  FALSE
    BY <2>1 DEF DeclareRead, AcceptRead, ReleaseRead, WithdrawBegin, AddPartRead, data
  <2>2. ASSUME NEW k \in Client, NEW g \in declared, NEW h \in declared, RequestBegin(k, g, h)
        PROVE  FALSE
    BY <2>2 DEF RequestBegin, data
  <2>3. ASSUME NEW k \in Client,
               \/ LockNext(k) \/ WithdrawChoose(k) \/ Declare(k) \/ Request(k) \/ Accept(k)
               \/ Release(k) \/ Withdraw(k) \/ AddPart(k) \/ Abort(k)
        PROVE  FALSE
    BY <2>3
    DEF LockNext, WithdrawChoose, Declare, Request, Accept, Release, Withdraw, AddPart,
        Abort, data
  <2>4. ~ UNCHANGED vars
    BY DEF vars
  <2> QED
    BY <2>1, <2>2, <2>3, <2>4 DEF Next
<1>2. /\ tx[k].cohort \in declared /\ tx[k].host \in declared
      /\ tx[k].cohort \in Cohort /\ tx[k].host \in Cohort /\ tx[k].host # tx[k].cohort
  BY <1>1, WithdrawerHolds
<1>3. /\ staffed' = [staffed EXCEPT ![tx[k].host] = @ + staffed[tx[k].cohort],
                                    ![tx[k].cohort] = 0]
      /\ staffed \in [Cohort -> Nat]
  BY <1>1 DEF Promote, IInv, TypeOK
<1> QED
  BY <1>2, <1>3

\* There are finitely many assignments: those of declared cohorts.
LEMMA AssignmentsAreFinite == IInv => IsFiniteSet(Units(staffed))
<1> SUFFICES ASSUME IInv PROVE IsFiniteSet(Units(staffed))
  OBVIOUS
<1>1. staffed \in [Cohort -> Nat] /\ IsFiniteSet(declared) /\ MaxParts \in Nat
  BY ConstantsAssumption DEF IInv, TypeOK, FinitelyMany
<1>2. ASSUME NEW c \in Cohort PROVE staffed[c] <= MaxParts /\ (staffed[c] # 0 => c \in declared)
  <2>1. parts[c] \in 0..MaxParts /\ staffed[c] \in Nat /\ staffed[c] <= parts[c]
    BY DEF IInv, TypeOK
  <2>2. staffed[c] <= MaxParts /\ (staffed[c] # 0 => parts[c] # 0)
    BY <1>1, <2>1
  <2> QED
    BY <2>2 DEF IInv, OnlyDeclaredTeach
<1> QED
  BY <1>1, <1>2, UnitsAreFinite

\* However cohorts are coupled, agreed on, released, withdrawn and promoted, no
\* assignment is lost or made: only filling and clearing a part changes how many
\* there are.
THEOREM NobodyLosesTeaching == Spec => TeachingStaysWithPeople
<1> DEFINE Kept == Assignments' # Assignments => \E c \in Cohort : Fill(c) \/ Clear(c)
<1>1. IInv /\ [Next]_vars => [Kept]_vars
  <2> SUFFICES ASSUME IInv, [Next]_vars, \A c \in Cohort : ~(Fill(c) \/ Clear(c))
               PROVE  Assignments' = Assignments
    OBVIOUS
  <2>1. CASE staffed' = staffed
    BY <2>1 DEF Assignments
  <2>2. CASE staffed' # staffed
    <3>1. PICK h \in declared, s \in declared :
            /\ h # s
            /\ staffed'[s] = staffed[s] + staffed[h] /\ staffed'[h] = 0
            /\ \A c \in Cohort \ {h, s} : staffed'[c] = staffed[c]
      BY <2>2, OnlyPromotionMovesStaff
    <3>2. h \in Cohort /\ s \in Cohort /\ staffed \in [Cohort -> Nat] /\ staffed' \in [Cohort -> Nat]
      BY TypeInvariant DEF IInv, TypeOK
    <3>3. staffed[h] \in Nat /\ staffed[h] <= staffed[h] /\ staffed'[h] = staffed[h] - staffed[h]
      BY <3>1, <3>2
    <3>4. IsFiniteSet(Units(staffed))
      BY AssignmentsAreFinite
    <3> HIDE DEF IInv
    <3>5. Total(staffed') = Total(staffed)
      BY <3>1, <3>2, <3>3, <3>4, MovingKeepsTotal
    <3> QED
      BY <3>5 DEF Assignments
  <2> QED
    BY <2>1, <2>2
<1> QED
  BY <1>1, Invariance, PTL DEF Spec, TeachingStaysWithPeople

=============================================================================
