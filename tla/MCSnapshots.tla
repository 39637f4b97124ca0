---------------------------- MODULE MCSnapshots -----------------------------
(***************************************************************************)
(* Two changes of the scenarios, a review and a deletion, with a snapshot  *)
(* taken meanwhile.                                                        *)
(***************************************************************************)
EXTENDS Snapshots, TLC

==============================================================================
