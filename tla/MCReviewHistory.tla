--------------------------- MODULE MCReviewHistory ---------------------------
(***************************************************************************)
(* The instances of MCReview with the history of the review.               *)
(***************************************************************************)
EXTENDS MCReview, ReviewHistory

==============================================================================
