--------------------------- MODULE MCDraftReview ---------------------------
EXTENDS DraftReview, TLC

(* Drafts and slots are interchangeable. *)
Symmetry == Permutations(Drafts) \union Permutations(Slots)
=============================================================================
