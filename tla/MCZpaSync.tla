---------------------------- MODULE MCZpaSync ----------------------------
(* One module, an association that names it and one that names a module the   *)
(* catalogue leaves out; two rows, so that an abandoned one and a live one    *)
(* are there at once.                                                         *)
EXTENDS ZpaSync, TLC

CONSTANTS module, association, stray

MCPayloads == module :> {"described"} @@ association :> {module} @@ stray :> {"unplanned"}
=============================================================================
