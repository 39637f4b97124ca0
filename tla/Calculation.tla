----------------------------- MODULE Calculation -----------------------------
(***************************************************************************)
(* What a calculated model promises: after every calculation, full or      *)
(* partial, each target has the value its formula gives over the values of *)
(* its inputs, and no value where one of them has none.                    *)
(***************************************************************************)
EXTENDS Formulas

VARIABLES formulas, environment, cells

Init == cells = Nothing

Next == Right(formulas', environment', cells') /\ UNCHANGED formulas

Spec == Init /\ [][Next]_<<formulas, environment, cells>>

=============================================================================
