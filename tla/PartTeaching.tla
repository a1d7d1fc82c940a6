---------------------------- MODULE PartTeaching ----------------------------
(***************************************************************************)
(* What the parts of an instance promise about who teaches them, with no   *)
(* rows, locks or transactions: a part is taught by nobody yet, by one     *)
(* person of this faculty, or by another faculty, and teaching is never    *)
(* taken from a person by a change of the part.                            *)
(***************************************************************************)
CONSTANTS
    Part,       \* every part there may ever be
    Who,        \* who may be assigned
    Absent,     \* the part does not exist
    Open,       \* nobody teaches it yet
    Elsewhere   \* another faculty teaches it

VARIABLE taughtBy

Init == taughtBy \in [Part -> {Absent, Open}]

Goes(p, from, to) ==
    /\ taughtBy[p] \in from
    /\ \E t \in to : taughtBy' = [taughtBy EXCEPT ![p] = t]

Next == \E p \in Part :
    \/ Goes(p, {Absent}, {Open})            \* declared, or cut off another part
    \/ Goes(p, {Open, Elsewhere}, {Absent}) \* removed, or joined back
    \/ Goes(p, {Open}, Who)                 \* filled
    \/ Goes(p, Who, Who)                    \* replaced
    \/ Goes(p, Who, {Open})                 \* cleared
    \/ Goes(p, {Open}, {Elsewhere})         \* handed to another faculty
    \/ Goes(p, {Elsewhere}, {Open})         \* taken back

Spec == Init /\ [][Next]_taughtBy
=============================================================================
