------------------------------ MODULE MCIntake ------------------------------
(***************************************************************************)
(* Ingestions beside the web process: five filings, two processes, and    *)
(* the isolated render of a page of what is in the store.                  *)
(***************************************************************************)
EXTENDS Ingest, Isolation, TLC

Good == [scanner |-> "clean", size |-> "fits", header |-> TRUE, eof |-> TRUE, opens |-> TRUE,
         locked |-> FALSE, active |-> FALSE, long |-> FALSE, pages |-> {"text_native", "empty"}]

Profiles ==
    [filing |-> Good,
     scanned |-> [Good EXCEPT !.pages = {"mixed", "image_only"}],
     cut |-> [Good EXCEPT !.eof = FALSE],
     script |-> [Good EXCEPT !.active = TRUE],
     virus |-> [Good EXCEPT !.scanner = "infected"]]

Init == IngestInit /\ IsoInit

\* A page is rendered from bytes the store has.
RenderPage == bytes # {} /\ Start

Next ==
    \/ IngestNext /\ UNCHANGED isoVars
    \/ RenderPage /\ UNCHANGED ingestVars
    \/ (ParentStep \/ ChildStep) /\ UNCHANGED ingestVars

Spec == Init /\ [][Next]_<<ingestVars, isoVars>> /\ IngestFairness /\ IsoFairness

==============================================================================
