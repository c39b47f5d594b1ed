--------------------------- MODULE MCDraftIntake ---------------------------
(* The mortgagor and one witness stand for the three people of a mortgage *)
(* deed: two are enough to go on from one to the next. A card with a name *)
(* to confirm, and for the buyer one with a PAN, stand for the four       *)
(* photos asked of each person.                                           *)
EXTENDS DraftIntake

MCPeople == <<"mortgagor", "witness1">>
MCPhotos == [p \in People |->
  IF p = Buyer THEN <<"aadhaarFront", "pan">> ELSE <<"aadhaarFront">>]
=============================================================================
