---------------------------- MODULE MCRecordStore ----------------------------
(***************************************************************************)
(* Small instances of the record store: one company, and three uploads of  *)
(* one filing.                                                             *)
(***************************************************************************)
EXTENDS RecordStoreLog, TLC

CONSTANTS d1, d2, d3, p1, p2, p3, p4, q1, q2

\* One filing, uploaded again as d2 and d3.
OneFiling == [d \in Docs |-> "filing"]
OneCompany == [d \in Docs |-> "company"]

DrawnByOne == q1 :> d2
DrawnByTwo == q1 :> d2 @@ q2 :> d3
DrawnFirst == q1 :> d1

==============================================================================
