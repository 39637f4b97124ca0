----------------------------- MODULE DecisionLog -----------------------------
(***************************************************************************)
(* What the record store promises the review: for each document, the set   *)
(* of decisions saved on it, which only grows until the document is        *)
(* permanently deleted.  A document may be disturbed, by requests that     *)
(* meet on it or a save that is cut short: nothing is promised of it then. *)
(***************************************************************************)
CONSTANTS Docs, Held, Requests, NotYet, Gone, Disturbed

VARIABLE log

\* There is a log for d.
Open(d) == log[d] \notin {NotYet, Gone, Disturbed}

Init == log = [d \in Docs |-> IF d \in Held THEN {} ELSE NotYet]

Create(d, p) ==
    /\ log[d] = NotYet
    /\ log' = [log EXCEPT ![d] = {p}]

Decide(d, p) ==
    /\ Open(d)
    /\ p \notin log[d]
    /\ log' = [log EXCEPT ![d] = @ \cup {p}]

Delete(d) ==
    /\ Open(d)
    /\ log' = [log EXCEPT ![d] = Gone]

Disturb(D) == log' = [d \in Docs |-> IF d \in D THEN Disturbed ELSE log[d]]

Next ==
    \/ \E d \in {e \in Docs : log[e] # Disturbed} :
        \/ Delete(d)
        \/ \E p \in Requests : Create(d, p) \/ Decide(d, p)
    \/ \E D \in SUBSET Docs : Disturb(D)

Spec == Init /\ [][Next]_log

==============================================================================
