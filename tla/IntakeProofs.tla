---------------------------- MODULE IntakeProofs ----------------------------
(***************************************************************************)
(* What is proved about the conversation that fills in a request           *)
(* (DraftIntake), whatever the customer sends, in whatever order.          *)
(*                                                                         *)
(* Warned says of every state of the conversation that needsStaff is set   *)
(* before a request that leaves something to the staff is handed in; no    *)
(* assumption is needed.  Conversing says that the question a conversation *)
(* is at fits what is known (Fits): it has no answer yet, and whatever     *)
(* comes before it in a deed of this kind has one.  It rests on            *)
(* IntakeAssumption: which people and photos a deed asks for, in any       *)
(* number and order.                                                       *)
(***************************************************************************)
EXTENDS MCIntake, WaInboundProofs, WellFoundedInduction

(* The conversation: what the staff settle.                                *)

ColumnNames ==
  {"deedType", "docs", "owner", "answers", "pan", "sellerPan", "tax", "photos",
   "aadhaarRead", "panRead", "confirmed", "unreadable", "idDone", "idFiles", "reuse",
   "regDate", "regAlt", "regTime", "geoTag"}

(* The columns that the warnings depend on.                                *)
Telling == {"deedType", "docs", "owner", "photos", "unreadable"}

Whole(d) == d = [c \in ColumnNames |-> d[c]]
Columns(d) ==
  /\ Whole(d)
  /\ d.docs \in [Docs -> {"none", "file", "later"}]
  /\ d.photos \in [People -> [Kinds -> {"none", "tried", "file", "later"}]]

(* Nothing of the request is left for later, or unknown.                   *)
Settled(d) ==
  /\ d.deedType # "other"
  /\ \A r \in Docs : d.docs[r] # "later"
  /\ d.owner # "unknown"
  /\ \A p \in People, k \in Kinds : d.photos[p][k] # "later"

(* What tells the staff something is the same in both.                     *)
Alike(d, e) == Columns(e) /\ \A c \in Telling : e[c] = d[c]

Warned ==
  /\ Columns(data) /\ needsStaff \in BOOLEAN
  /\ status = "none" => data = NoData
  /\ ~needsStaff =>
       /\ Settled(data)
       /\ data.deedType = "sale" => paper \in SaleDeeds
       /\ status = "SUBMITTED" => data.unreadable = {}

-----------------------------------------------------------------------------

LEMMA NothingYet == Columns(NoData) /\ Settled(NoData) /\ NoData.deedType = "none"
  BY DEF NoData, Whole, ColumnNames, Columns, Settled, Docs

LEMMA AlikeColumns ==
  ASSUME NEW d, NEW e, Columns(d), Whole(e), \A c \in Telling : e[c] = d[c]
  PROVE  Alike(d, e)
  BY DEF Columns, Alike, Telling

LEMMA AlikeTells ==
  ASSUME NEW d, NEW e, Alike(d, e)
  PROVE  /\ Columns(e) /\ e.deedType = d.deedType /\ e.unreadable = d.unreadable
         /\ Settled(d) <=> Settled(e)
  BY DEF Alike, Telling, Settled

(* The other columns tell the staff nothing: ...                           *)
LEMMA ColumnsAlike ==
  ASSUME NEW d, Columns(d)
  PROVE  /\ Alike(d, d)
         /\ \A a \in ColumnNames \ Telling : \A v : Alike(d, [d EXCEPT ![a] = v])
         /\ \A a, b \in ColumnNames \ Telling : \A v, w :
              Alike(d, [d EXCEPT ![a] = v, ![b] = w])
<1>1. Alike(d, d)
  BY DEF Alike
<1>2. ASSUME NEW a \in ColumnNames \ Telling, NEW v
      PROVE  Alike(d, [d EXCEPT ![a] = v])
  <2>1. Whole([d EXCEPT ![a] = v])
    BY DEF Columns, Whole
  <2>2. \A c \in Telling : [d EXCEPT ![a] = v][c] = d[c]
    BY DEF Columns, Whole, Telling, ColumnNames
  <2> QED BY <2>1, <2>2, AlikeColumns
<1>3. ASSUME NEW a \in ColumnNames \ Telling, NEW b \in ColumnNames \ Telling, NEW v, NEW w
      PROVE  Alike(d, [d EXCEPT ![a] = v, ![b] = w])
  <2>1. Whole([d EXCEPT ![a] = v, ![b] = w])
    BY DEF Columns, Whole
  <2>2. \A c \in Telling : [d EXCEPT ![a] = v, ![b] = w][c] = d[c]
    BY DEF Columns, Whole, Telling, ColumnNames
  <2> QED BY <2>1, <2>2, AlikeColumns
<1> QED BY <1>1, <1>2, <1>3

(* ... answers, PANs, days and the like.                                   *)
LEMMA OtherColumns ==
  ASSUME NEW d, Columns(d)
  PROVE  /\ Alike(d, d)
         /\ \A v : /\ Alike(d, [d EXCEPT !.answers = v])
                   /\ Alike(d, [d EXCEPT !.pan = v])
                   /\ Alike(d, [d EXCEPT !.sellerPan = v])
                   /\ Alike(d, [d EXCEPT !.tax = v])
                   /\ Alike(d, [d EXCEPT !.confirmed = v])
                   /\ Alike(d, [d EXCEPT !.idDone = v])
                   /\ Alike(d, [d EXCEPT !.idFiles = v])
                   /\ Alike(d, [d EXCEPT !.reuse = v])
                   /\ Alike(d, [d EXCEPT !.regAlt = v])
                   /\ Alike(d, [d EXCEPT !.regTime = v])
                   /\ Alike(d, [d EXCEPT !.geoTag = v])
         /\ \A v, w : /\ Alike(d, [d EXCEPT !.aadhaarRead = v, !.panRead = w])
                      /\ Alike(d, [d EXCEPT !.regDate = v, !.regAlt = w])
                      /\ Alike(d, [d EXCEPT !.regDate = v, !.regTime = w])
  BY ColumnsAlike DEF ColumnNames, Telling

LEMMA ReuseAlike ==
  ASSUME NEW d, Columns(d), NEW v, NEW w, NEW x, NEW y
  PROVE  Alike(d, [d EXCEPT !.answers = v, !.pan = w, !.idDone = x, !.reuse = y])
<1> DEFINE e == [d EXCEPT !.answers = v, !.pan = w, !.idDone = x, !.reuse = y]
<1>1. Whole(e)
  BY DEF Columns, Whole
<1>2. \A c \in Telling : e[c] = d[c]
  BY DEF Columns, Whole, Telling, ColumnNames
<1>3. Alike(d, e)
  <2> HIDE DEF e
  <2> QED BY <1>1, <1>2, AlikeColumns
<1> QED BY <1>3

LEMMA AlikeTwice ==
  ASSUME NEW d, NEW e, NEW f, Alike(d, e), Alike(e, f) PROVE Alike(d, f)
  BY DEF Alike

(* A question put to the customer leaves it to the staff what it was.      *)
LEMMA GotoAlike ==
  ASSUME NEW d, NEW s, Columns(d), Goto(d, s)
  PROVE  Alike(d, data')
<1>1. Alike(d, d)
  BY OtherColumns
<1>2. Alike(d, WithOffer(d, s))
  BY OtherColumns DEF WithOffer
<1>3. Columns(WithOffer(d, s))
  BY <1>2, AlikeTells
<1>4. \A v : Alike(d, [WithOffer(d, s) EXCEPT !.idDone = v])
  BY <1>2, <1>3, OtherColumns, AlikeTwice
<1>5. \/ data' = d \/ data' = WithOffer(d, s)
      \/ \E v : data' = [WithOffer(d, s) EXCEPT !.idDone = v]
  BY DEF Goto
<1> QED BY <1>1, <1>2, <1>4, <1>5

(* What is asked next, from columns that are settled or told to the staff. *)
LEMMA WarnedNext ==
  ASSUME NEW d, Columns(d), Alike(d, data'), status' \in {"ACTIVE", "over"},
         needsStaff' \in BOOLEAN,
         ~needsStaff' => Settled(d) /\ (d.deedType = "sale" => paper' \in SaleDeeds)
  PROVE  Warned'
  BY AlikeTells DEF Settled, Warned

(* A step that changes nothing the staff have to settle.                   *)
LEMMA WarnedStays ==
  ASSUME Warned, status = "ACTIVE", NEW d, Alike(data, d),
         data' = d \/ \E s : Goto(d, s),
         status' \in {"ACTIVE", "over"}, UNCHANGED paper,
         needsStaff' = needsStaff \/ needsStaff' = TRUE
  PROVE  Warned'
<1>1. Columns(d)
  BY AlikeTells
<1>2. Alike(d, data')
  BY <1>1, GotoAlike, OtherColumns
<1>3. needsStaff' \in BOOLEAN
  BY DEF Warned
<1>4. ~needsStaff' => Settled(d) /\ (d.deedType = "sale" => paper' \in SaleDeeds)
  BY AlikeTells DEF Warned, Settled
<1> QED BY <1>1, <1>2, <1>3, <1>4, WarnedNext

LEMMA WarnedStarts == IntakeInit => Warned
  BY NothingYet DEF IntakeInit, Warned

(* The deed is chosen, or another one begun from nothing.                  *)
LEMMA DeedStarts ==
  ASSUME Warned, status = "ACTIVE", NEW d \in {data, NoData}, NEW deed, StartDeed(d, deed)
  PROVE  Warned'
<1>1. Columns(d) /\ (~needsStaff => Settled(d))
  BY NothingYet DEF Warned
<1>2. CASE StartSale(d)
  <2> DEFINE e == [d EXCEPT !.deedType = "sale"]
  <2>1. Columns(e) /\ (~needsStaff => Settled(e))
    BY <1>1 DEF Columns, Whole, ColumnNames, Settled
  <2>2. \E s : Goto(e, s)
    BY <1>2 DEF StartSale
  <2>3. Alike(e, data')
    BY <2>1, <2>2, GotoAlike
  <2>4. /\ needsStaff' = (needsStaff \/ paper \notin SaleDeeds)
        /\ status' = status /\ paper' = paper
    BY <1>2 DEF StartSale, Flag, Same
  <2>5. needsStaff' \in BOOLEAN
    BY <2>4 DEF Warned
  <2> HIDE DEF e
  <2> QED BY <2>1, <2>3, <2>4, <2>5, WarnedNext
<1>3. ASSUME NEW hint \in BOOLEAN, StartMortgage(d, hint) PROVE Warned'
  <2> DEFINE e == [d EXCEPT !.deedType = "mortgage",
                            !.docs = [r \in Docs |-> IF PaperIs(r, hint) THEN "file" ELSE @[r]]]
  <2>1. Columns(e) /\ e.deedType = "mortgage" /\ (~needsStaff => Settled(e))
    BY <1>1 DEF Columns, Whole, ColumnNames, Settled
  <2>2. \E s : Goto(e, s)
    BY <1>3 DEF StartMortgage
  <2>3. Alike(e, data')
    BY <2>1, <2>2, GotoAlike
  <2>4. needsStaff' = needsStaff /\ status' = status
    BY <1>3 DEF StartMortgage, Same
  <2>5. needsStaff' \in BOOLEAN
    BY <2>4 DEF Warned
  <2> HIDE DEF e
  <2> QED BY <2>1, <2>3, <2>4, <2>5, WarnedNext
<1>4. CASE StartOther(d)
  <2> DEFINE e == [d EXCEPT !.deedType = "other"]
  <2>1. Columns(e)
    BY <1>1 DEF Columns, Whole, ColumnNames
  <2>2. data' = e /\ needsStaff' = TRUE /\ status' = "SUBMITTED"
    BY <1>4 DEF StartOther
  <2> HIDE DEF e
  <2> QED BY <2>1, <2>2 DEF Warned
<1> QED BY <1>2, <1>3, <1>4 DEF StartDeed

(* The plot and the papers of a mortgage.                                  *)
LEMMA PapersWarned ==
  ASSUME Warned, NameFirstDoc \/ DocLater \/ ReceiveDoc \/ AnswerOwner
  PROVE  Warned'
<1>1. Columns(data) /\ needsStaff \in BOOLEAN
  BY DEF Warned
<1>2. CASE NameFirstDoc
  <2>1. PICK role \in {"sanction", "registry", "neither"} :
          LET known == [data EXCEPT !.docs =
                [r \in Docs |-> IF r = role THEN "file" ELSE @[r]]] IN
          Flag(role = "registry") /\ Goto(known, MortgageNext(known))
    BY <1>2 DEF NameFirstDoc
  <2> DEFINE e == [data EXCEPT !.docs = [r \in Docs |-> IF r = role THEN "file" ELSE @[r]]]
  <2>2. /\ Columns(e) /\ e.deedType = data.deedType
        /\ ~needsStaff => Settled(e)
    BY <1>1 DEF Columns, Whole, ColumnNames, Settled, Warned
  <2>3. Alike(e, data')
    BY <2>1, <2>2, GotoAlike
  <2>4. needsStaff' = (needsStaff \/ role = "registry") /\ status' = "ACTIVE" /\ paper' = paper
    BY <1>2, <2>1 DEF NameFirstDoc, Flag, Same, Talking
  <2> HIDE DEF e
  <2>5. needsStaff' \in BOOLEAN
    BY <1>1, <2>4
  <2>6. ~needsStaff' => Settled(e) /\ (e.deedType = "sale" => paper' \in SaleDeeds)
    BY <2>2, <2>4 DEF Warned
  <2> QED BY <2>2, <2>3, <2>4, <2>5, <2>6, WarnedNext
<1>3. CASE DocLater
  <2> DEFINE e == [data EXCEPT !.docs[step[2]] = "later"]
  <2>1. Columns(e)
    BY <1>1 DEF Columns, Whole, ColumnNames
  <2>2. \E s : Goto(e, s)
    BY <1>3 DEF DocLater
  <2>3. Alike(e, data')
    BY <2>1, <2>2, GotoAlike
  <2>4. needsStaff' = (needsStaff \/ TRUE) /\ status' = "ACTIVE"
    BY <1>3 DEF DocLater, Flag, LaterIsForStaff, Same, Talking
  <2> HIDE DEF e
  <2> QED BY <2>1, <2>3, <2>4, WarnedNext
<1>4. CASE ReceiveDoc
  <2>1. PICK read \in Papers :
          LET role == IF step[2] = "sanction" /\ read \in SaleDeeds THEN "registry" ELSE step[2]
              known == [data EXCEPT !.docs[role] = "file"] IN
          /\ paper' = IF role = "registry" /\ read \in SaleDeeds THEN read ELSE paper
          /\ Flag(role = "registry" /\ read \notin SaleDeeds)
          /\ Goto(known, MortgageNext(known))
    BY <1>4 DEF ReceiveDoc
  <2> DEFINE role == IF step[2] = "sanction" /\ read \in SaleDeeds THEN "registry" ELSE step[2]
             e == [data EXCEPT !.docs[role] = "file"]
  <2>2. /\ Columns(e) /\ e.deedType = data.deedType
        /\ ~needsStaff => Settled(e)
    BY <1>1 DEF Columns, Whole, ColumnNames, Settled, Warned
  <2>3. Alike(e, data')
    BY <2>1, <2>2, GotoAlike
  <2>4. /\ needsStaff' = (needsStaff \/ (role = "registry" /\ read \notin SaleDeeds))
        /\ paper' = paper \/ paper' \in SaleDeeds
        /\ status' = "ACTIVE"
    BY <1>4, <2>1 DEF ReceiveDoc, Flag, Talking
  <2> HIDE DEF e, role
  <2>5. needsStaff' \in BOOLEAN
    BY <1>1, <2>4
  <2>6. ~needsStaff' => Settled(e) /\ (e.deedType = "sale" => paper' \in SaleDeeds)
    BY <2>2, <2>4 DEF Warned
  <2> QED BY <2>2, <2>3, <2>4, <2>5, <2>6, WarnedNext
<1>5. CASE AnswerOwner
  <2>1. PICK owner \in {"yes", "no", "unknown"} :
          LET known == [data EXCEPT !.owner = owner] IN
          Flag(owner = "unknown") /\ Goto(known, MortgageNext(known))
    BY <1>5 DEF AnswerOwner
  <2> DEFINE e == [data EXCEPT !.owner = owner]
  <2>2. /\ Columns(e) /\ e.deedType = data.deedType
        /\ ~needsStaff /\ owner # "unknown" => Settled(e)
    BY <1>1 DEF Columns, Whole, ColumnNames, Settled, Warned
  <2>3. Alike(e, data')
    BY <2>1, <2>2, GotoAlike
  <2>4. needsStaff' = (needsStaff \/ owner = "unknown") /\ status' = "ACTIVE" /\ paper' = paper
    BY <1>5, <2>1 DEF AnswerOwner, Flag, Same, Talking
  <2> HIDE DEF e
  <2>5. needsStaff' \in BOOLEAN
    BY <1>1, <2>4
  <2>6. ~needsStaff' => Settled(e) /\ (e.deedType = "sale" => paper' \in SaleDeeds)
    BY <2>2, <2>4 DEF Warned
  <2> QED BY <2>2, <2>3, <2>4, <2>5, <2>6, WarnedNext
<1> QED BY <1>2, <1>3, <1>4, <1>5

(* The photos: one for later, or one nobody can read, is for the staff.    *)
LEMMA PhotosWarned ==
  ASSUME Warned, PhotoRead \/ PhotoUnread \/ PhotoLater
  PROVE  Warned'
<1> DEFINE p == step[2]
           k == step[3]
<1>1. Columns(data) /\ needsStaff \in BOOLEAN
  BY DEF Warned
<1>2. /\ Alike(data, Listed(data, p))
      /\ Columns(Listed(data, p))
  BY <1>1, OtherColumns, AlikeTells DEF Listed
<1>3. ASSUME NEW d, Columns(d), NEW v \in {"tried", "file", "later"}
      PROVE  /\ Columns(Photo(d, p, k, v))
             /\ Photo(d, p, k, v).deedType = d.deedType
             /\ Settled(d) /\ v # "later" => Settled(Photo(d, p, k, v))
  <2> DEFINE e == Photo(d, p, k, v)
  <2>1. /\ Whole(e) /\ e.photos = [d.photos EXCEPT ![p][k] = v]
        /\ e.docs = d.docs /\ e.deedType = d.deedType /\ e.owner = d.owner
    BY <1>3 DEF Photo, Columns, Whole, ColumnNames
  <2> HIDE DEF e
  <2>2. Columns(e)
    <3>1. p \in People =>
            [d.photos[p] EXCEPT ![k] = v] \in [Kinds -> {"none", "tried", "file", "later"}]
      BY <1>3 DEF Columns
    <3>2. e.photos \in [People -> [Kinds -> {"none", "tried", "file", "later"}]]
      BY <1>3, <2>1, <3>1 DEF Columns
    <3> QED BY <1>3, <2>1, <3>2 DEF Columns
  <2>3. Settled(d) /\ v # "later" => Settled(e)
    BY <1>3, <2>1 DEF Columns, Settled
  <2> QED BY <2>1, <2>2, <2>3 DEF e
<1>4. ASSUME NEW d, Columns(d), ContinueAfterPhoto(d, p)
      PROVE  Alike(d, data')
  <2>1. Alike(d, PhotosDone(d, p))
    BY <1>4, OtherColumns DEF PhotosDone
  <2>2. Columns(PhotosDone(d, p)) /\ \E s : Goto(PhotosDone(d, p), s)
    BY <1>4, <2>1, AlikeTells DEF ContinueAfterPhoto
  <2>3. Alike(PhotosDone(d, p), data')
    BY <2>2, GotoAlike
  <2> QED BY <2>1, <2>3, AlikeTwice
<1>5. ~needsStaff => Settled(Listed(data, p)) /\ Settled(data)
  BY <1>2, AlikeTells DEF Warned, Settled
<1>6. Listed(data, p).deedType = data.deedType
  BY <1>2, AlikeTells
<1>7. CASE PhotoRead
  <2> DEFINE d == Photo(Listed(data, p), p, k, "file")
  <2>1. PICK got \in ReadsOf(k) :
          ContinueAfterPhoto(
            [d EXCEPT !.aadhaarRead[p] = @ \union got, !.panRead[p] = @ \/ k = "pan"], p)
    BY <1>7 DEF PhotoRead
  <2> DEFINE e == [d EXCEPT !.aadhaarRead[p] = @ \union got, !.panRead[p] = @ \/ k = "pan"]
  <2>2. /\ Columns(d) /\ d.deedType = data.deedType
        /\ ~needsStaff => Settled(d)
    BY <1>2, <1>3, <1>5, <1>6
  <2> HIDE DEF d
  <2>3. Alike(d, e)
    BY <2>2, OtherColumns
  <2>4. Columns(e)
    BY <2>3, AlikeTells
  <2>5. Alike(e, data')
    BY <1>4, <2>1, <2>4
  <2>6. Alike(d, data')
    BY <2>3, <2>5, AlikeTwice
  <2>7. status' = "ACTIVE" /\ UNCHANGED <<paper, needsStaff>>
    BY <1>7 DEF PhotoRead, Talking
  <2>8. ~needsStaff' => Settled(d) /\ (d.deedType = "sale" => paper' \in SaleDeeds)
    BY <2>2, <2>7 DEF Warned
  <2> QED BY <1>1, <2>2, <2>6, <2>7, <2>8, WarnedNext
<1>8. CASE PhotoUnread
  <2>1. status' = "ACTIVE" /\ UNCHANGED paper
    BY <1>8 DEF PhotoUnread, Talking
  <2>2. CASE data' = Photo(Listed(data, p), p, k, "tried") /\ UNCHANGED needsStaff
    <3> DEFINE d == Photo(Listed(data, p), p, k, "tried")
    <3>1. /\ Columns(d) /\ d.deedType = data.deedType
          /\ ~needsStaff => Settled(d)
      BY <1>2, <1>3, <1>5, <1>6
    <3> HIDE DEF d
    <3>2. Alike(d, data')
      BY <2>2, <3>1, OtherColumns DEF d
    <3>3. ~needsStaff' => Settled(d) /\ (d.deedType = "sale" => paper' \in SaleDeeds)
      BY <2>1, <2>2, <3>1 DEF Warned
    <3> QED BY <1>1, <2>1, <2>2, <3>1, <3>2, <3>3, WarnedNext
  <2>3. CASE /\ needsStaff' = TRUE
             /\ ContinueAfterPhoto(
                  [Photo(Listed(data, p), p, k, "file") EXCEPT !.unreadable = @ \union {p}], p)
    <3> DEFINE d == Photo(Listed(data, p), p, k, "file")
               e == [d EXCEPT !.unreadable = @ \union {p}]
    <3>1. Columns(d)
      BY <1>2, <1>3
    <3>2. Columns(e)
      BY <3>1 DEF Columns, Whole, ColumnNames
    <3> HIDE DEF d, e
    <3>3. Alike(e, data')
      BY <1>4, <2>3, <3>2 DEF d, e
    <3> QED BY <2>1, <2>3, <3>2, <3>3, WarnedNext
  <2> QED BY <1>8, <2>2, <2>3 DEF PhotoUnread
<1>9. CASE PhotoLater
  <2>1. Columns(Photo(data, p, k, "later"))
    BY <1>1, <1>3
  <2>2. Alike(Photo(data, p, k, "later"), data')
    BY <1>4, <1>9, <2>1 DEF PhotoLater
  <2>3. needsStaff' = TRUE /\ status' = "ACTIVE"
    BY <1>9 DEF PhotoLater, Same, Talking
  <2> QED BY <2>1, <2>2, <2>3, WarnedNext
<1> QED BY <1>7, <1>8, <1>9

(* The steps after which the staff have to settle what they had to before. *)
LEMMA AnswersWarned ==
  ASSUME Warned, status = "ACTIVE",
         \/ AskAgainWhich \/ AnswerPlot
         \/ DeclineReuse \/ EarlierGone \/ AcceptReuse \/ CheckReused
         \/ PhotoAgain \/ ConfirmCard
         \/ AnswerField \/ NoEmail \/ AnswerAmount \/ AnswerBuyerPan \/ AnswerSellerPan
         \/ AnswerRegistry \/ EditSummary \/ End
  PROVE  Warned'
<1>1. Columns(data) /\ needsStaff \in BOOLEAN /\ Alike(data, data)
  BY OtherColumns DEF Warned
<1> DEFINE Calm == /\ status' \in {"ACTIVE", "over"} /\ UNCHANGED paper
                   /\ needsStaff' = needsStaff \/ needsStaff' = TRUE
           Leads(d) == data' = d \/ \E s : Goto(d, s)
<1>2. ASSUME NEW d, Alike(data, d), Leads(d), Calm PROVE Warned'
  BY <1>2, WarnedStays
<1>3. ASSUME NEW b, Flag(b) PROVE needsStaff' = needsStaff \/ needsStaff' = TRUE
  BY <1>1, <1>3 DEF Flag
<1>4. CASE AskAgainWhich \/ NoEmail \/ End
  <2>1. data' = data /\ Calm
    BY <1>4 DEF AskAgainWhich, NoEmail, End, Same
  <2> QED BY <1>1, <1>2, <2>1
<1>5. CASE AnswerPlot
  <2>1. Calm
    BY <1>3, <1>5 DEF AnswerPlot, Same
  <2>2. Leads(data)
    BY <1>5 DEF AnswerPlot
  <2> QED BY <1>1, <1>2, <2>1, <2>2
<1>6. CASE DeclineReuse \/ EarlierGone
  <2>1. Calm
    BY <1>6 DEF DeclineReuse, EarlierGone, Same
  <2>2. \E v : Leads([data EXCEPT !.reuse = v])
    BY <1>6 DEF DeclineReuse, EarlierGone
  <2> QED BY <1>1, <1>2, <2>1, <2>2, OtherColumns
<1>7. CASE AcceptReuse
  <2>1. Calm
    BY <1>7 DEF AcceptReuse, Same
  <2> DEFINE p == step[2]
             v == [data.answers EXCEPT ![p] = @ \union (earlier.fields \ {"Pan"})]
             w == [data.pan EXCEPT ![p] = IF "Pan" \in earlier.fields THEN "given" ELSE @]
             x == data.idDone \union {p}
             y == [data.reuse EXCEPT ![p] = "used"]
             known == [data EXCEPT !.answers = v, !.pan = w, !.idDone = x, !.reuse = y]
  <2>2. known = [data EXCEPT !.answers[p] = @ \union (earlier.fields \ {"Pan"}),
                   !.pan[p] = IF "Pan" \in earlier.fields THEN "given" ELSE @,
                   !.idDone = @ \union {p}, !.reuse[p] = "used"]
    BY <1>1 DEF Columns, Whole, ColumnNames
  <2>3. \E s : Goto(known, s)
    BY <1>7, <2>2 DEF AcceptReuse
  <2>4. Alike(data, known)
    BY <1>1, ReuseAlike
  <2> HIDE DEF known
  <2> QED BY <1>2, <2>1, <2>3, <2>4
<1>8. CASE CheckReused
  <2>1. Leads(data) /\ Calm
    BY <1>8 DEF CheckReused, Same
  <2> QED BY <1>1, <1>2, <2>1
<1>9. CASE PhotoAgain
  <2>1. Calm /\ \E v : data' = [data EXCEPT !.idFiles = v]
    BY <1>9 DEF PhotoAgain, Listed
  <2> QED BY <1>1, <1>2, <2>1, OtherColumns
<1>10. CASE ConfirmCard
  <2>1. Calm
    BY <1>10 DEF ConfirmCard, Same
  <2>2. PICK d : Alike(data, d) /\ ContinueAfterPhoto(d, step[2])
    <3> DEFINE q == step[2]
               card == step[3]
               asked == [data EXCEPT !.confirmed[q] = @ \union {card}]
    <3>1. \/ ContinueAfterPhoto(asked, q)
          \/ ContinueAfterPhoto([asked EXCEPT !.answers[q] = @ \union data.aadhaarRead[q]], q)
          \/ ContinueAfterPhoto([asked EXCEPT !.pan[q] = "given"], q)
      BY <1>10 DEF ConfirmCard
    <3>2. Alike(data, asked) /\ Columns(asked)
      BY <1>1, OtherColumns, AlikeTells
    <3> HIDE DEF asked
    <3>3. \A v : Alike(data, [asked EXCEPT !.answers = v]) /\ Alike(data, [asked EXCEPT !.pan = v])
      BY <3>2, OtherColumns, AlikeTwice
    <3> QED BY <3>1, <3>2, <3>3
  <2>3. Columns(d)
    BY <2>2, AlikeTells
  <2>4. Alike(data, PhotosDone(d, step[2]))
    <3>1. Alike(d, PhotosDone(d, step[2]))
      BY <2>3, OtherColumns DEF PhotosDone
    <3> QED BY <2>2, <3>1, AlikeTwice
  <2>5. Leads(PhotosDone(d, step[2]))
    BY <2>2 DEF ContinueAfterPhoto
  <2> QED BY <1>2, <2>1, <2>4, <2>5
<1>11. CASE AnswerField
  <2>1. Calm
    BY <1>11 DEF AnswerField, Same
  <2>2. \E v : Leads([data EXCEPT !.answers = v])
    BY <1>11 DEF AnswerField
  <2> QED BY <1>1, <1>2, <2>1, <2>2, OtherColumns
<1>12. CASE AnswerAmount
  <2>1. Calm
    BY <1>3, <1>12 DEF AnswerAmount, Same
  <2>2. \E v : Leads([data EXCEPT !.tax = v])
    BY <1>12 DEF AnswerAmount
  <2> QED BY <1>1, <1>2, <2>1, <2>2, OtherColumns
<1>13. CASE AnswerBuyerPan
  <2>1. Calm
    BY <1>13 DEF AnswerBuyerPan, Same
  <2>2. \E v : Leads([data EXCEPT !.pan = v])
    BY <1>13 DEF AnswerBuyerPan
  <2> QED BY <1>1, <1>2, <2>1, <2>2, OtherColumns
<1>14. CASE AnswerSellerPan
  <2>1. Calm /\ \E v : Leads([data EXCEPT !.sellerPan = v])
    BY <1>14 DEF AnswerSellerPan, Same
  <2> QED BY <1>1, <1>2, <2>1, OtherColumns
<1>15. CASE AnswerRegistry
  <2>1. Calm
    BY <1>15 DEF AnswerRegistry, Same
  <2>2. \E v, w : \/ data' = [data EXCEPT !.regDate = v, !.regAlt = w]
                  \/ data' = [data EXCEPT !.regDate = v, !.regTime = w]
                  \/ data' = [data EXCEPT !.regAlt = v]
                  \/ data' = [data EXCEPT !.regTime = v]
                  \/ data' = [data EXCEPT !.geoTag = v]
    BY <1>15 DEF AnswerRegistry
  <2> QED BY <1>1, <1>2, <2>1, <2>2, OtherColumns
<1>16. CASE EditSummary
  <2>1. Calm
    BY <1>16 DEF EditSummary, Same
  <2>2. Leads(KeptOnEdit(data))
    BY <1>16 DEF EditSummary
  <2>3. Alike(data, KeptOnEdit(data))
    <3>1. Whole(KeptOnEdit(data))
      BY NothingYet DEF Columns, Whole, KeptOnEdit
    <3>2. \A c \in Telling : KeptOnEdit(data)[c] = data[c]
      BY <1>1, NothingYet DEF Columns, Whole, Telling, ColumnNames, KeptOnEdit
    <3> QED BY <1>1, <3>1, <3>2, AlikeColumns
  <2> QED BY <1>2, <2>1, <2>2, <2>3
<1> QED BY <1>4, <1>5, <1>6, <1>7, <1>8, <1>9, <1>10, <1>11, <1>12, <1>13, <1>14, <1>15, <1>16

(* "Yes" to the summary: a card nobody could read is for the staff.        *)
LEMMA SummaryWarned ==
  ASSUME Warned, status = "ACTIVE", ConfirmSummary
  PROVE  Warned'
<1>1. Alike(data, data)
  BY OtherColumns DEF Warned
<1>2. CASE (\E s : Goto(data, s)) /\ UNCHANGED <<status, needsStaff, paper>>
  BY <1>1, <1>2, WarnedStays
<1>3. CASE /\ status' = "SUBMITTED"
           /\ \E differ \in BOOLEAN : Flag(differ \/ data.unreadable # {})
           /\ UNCHANGED <<data, paper>>
  <2>1. needsStaff' \in BOOLEAN
    BY <1>3 DEF Flag, Warned
  <2>2. ~needsStaff' => ~needsStaff /\ data.unreadable = {}
    BY <1>3 DEF Flag
  <2>3. Settled(data) => Settled(data)'
    BY <1>3 DEF Settled
  <2>4. Columns(data)'
    BY <1>3 DEF Warned, Columns
  <2> QED BY <1>3, <2>1, <2>2, <2>3, <2>4 DEF Warned
<1> QED BY <1>2, <1>3 DEF ConfirmSummary

LEMMA WarnedKept == Warned /\ [IntakeNext]_intakeVars => Warned'
<1> SUFFICES ASSUME Warned, [IntakeNext]_intakeVars PROVE Warned'
  OBVIOUS
<1>1. CASE UNCHANGED intakeVars
  BY <1>1 DEF intakeVars, Warned, Columns, Whole, Settled
<1>2. CASE FirstDocument
  <2>1. data = NoData /\ UNCHANGED data /\ status' = "ACTIVE"
    BY <1>2 DEF FirstDocument, Warned
  <2>2. needsStaff' \in BOOLEAN
    BY <1>2 DEF FirstDocument
  <2> QED BY <2>1, <2>2, NothingYet DEF Warned
<1>3. CASE ChooseDeed
  <2>1. status = "ACTIVE" /\ \E deed : StartDeed(data, deed)
    BY <1>3 DEF ChooseDeed, Talking
  <2> QED BY <2>1, DeedStarts
<1>4. CASE ChangeDeed
  <2>1. status = "ACTIVE" /\ \E deed : StartDeed(NoData, deed)
    BY <1>4 DEF ChangeDeed, StartDeed
  <2> QED BY <2>1, DeedStarts
<1>5. CASE NameFirstDoc \/ DocLater \/ ReceiveDoc \/ AnswerOwner
  BY <1>5, PapersWarned
<1>6. CASE PhotoRead \/ PhotoUnread \/ PhotoLater
  BY <1>6, PhotosWarned
<1>7. CASE ConfirmSummary
  BY <1>7, SummaryWarned DEF ConfirmSummary, Talking
<1>8. CASE \/ AskAgainWhich \/ AnswerPlot
           \/ DeclineReuse \/ EarlierGone \/ AcceptReuse \/ CheckReused
           \/ PhotoAgain \/ ConfirmCard
           \/ AnswerField \/ NoEmail \/ AnswerAmount \/ AnswerBuyerPan \/ AnswerSellerPan
           \/ AnswerRegistry \/ EditSummary \/ End
  <2>1. status = "ACTIVE"
    BY <1>8 DEF AskAgainWhich, AnswerPlot, DeclineReuse, EarlierGone, AcceptReuse, CheckReused,
                PhotoAgain, ConfirmCard, AnswerField, NoEmail, AnswerAmount, AnswerBuyerPan,
                AnswerSellerPan, AnswerRegistry, EditSummary, End, Talking
  <2> QED BY <1>8, <2>1, AnswersWarned
<1> QED BY <1>1, <1>2, <1>3, <1>4, <1>5, <1>6, <1>7, <1>8 DEF IntakeNext

(* A submitted request that no member of staff was warned of has no paper  *)
(* or photo promised, no card unread, no owner unknown, and a sale one has *)
(* a sale deed on file, read to its property or not; whatever the customer *)
(* sent, in whatever order, and however many people and photos the deed    *)
(* asks for.                                                               *)
THEOREM StaffAreWarned == IntakeSpec => []StaffWarned
<1>1. Warned => StaffWarned
  <2>1. PartySet(data) \subseteq People
    BY DEF PartySet, Parties, People, Mortgagors
  <2> QED BY <2>1 DEF Warned, Settled, StaffWarned
<1> QED BY <1>1, WarnedStarts, WarnedKept, PTL DEF IntakeSpec

-----------------------------------------------------------------------------
(* What the customer is asked.                                             *)

(* The values of each column.                                              *)
ColumnTypes ==
  [deedType |-> {"none", "sale", "mortgage", "other"},
   docs |-> [Docs -> {"none", "file", "later"}], owner |-> {"none", "yes", "no", "unknown"},
   answers |-> [People -> SUBSET Fields], pan |-> [People -> {"none", "given", "blank"}],
   sellerPan |-> {"none", "given"}, tax |-> {"none", "low", "pan", "tds"},
   photos |-> [People -> [Kinds -> {"none", "tried", "file", "later"}]],
   aadhaarRead |-> [People -> SUBSET {"Name", "Aadhaar", "Address"}],
   panRead |-> [People -> BOOLEAN], confirmed |-> [People -> SUBSET {"aadhaar", "pan"}],
   unreadable |-> SUBSET People, idDone |-> SUBSET People,
   idFiles |-> SUBSET People,
   reuse |-> [ReuseParties -> {"unasked", "none", "offered", "declined", "used"}],
   regDate |-> {"unasked", "unknown", "day"}, regAlt |-> {"unasked", "none", "day"},
   regTime |-> {"unasked", "set"}, geoTag |-> BOOLEAN]

(* The kinds of question: about a person, the papers of a mortgage, what   *)
(* is due on the price of a sale.                                          *)
PersonKinds == {"ask", "reuse", "check", "photo", "idOk"}
PaperKinds == {"M_FIRST_DOC", "doc", "M_OWNER"}
TaxKinds == {"AMOUNT", "BUYER_PAN", "SELLER_PAN"}

(* What the questions before f ask for.                                    *)
Before(f) == {FieldOrder[i] : i \in {j \in 1..8 : \E k \in 1..8 : j < k /\ FieldOrder[k] = f}}

TaxSettled(d) ==
  /\ d.tax # "none"
  /\ d.tax \in {"pan", "tds"} => d.pan[Buyer] = "given"
  /\ d.tax = "tds" => d.sellerPan = "given"

PapersIn(d) ==
  /\ d.docs["sanction"] # "none" /\ d.docs["registry"] # "none"
  /\ d.owner = "no" => d.docs["transfer"] # "none"

SaleFits(s, d) ==
  /\ s[1] \in {"plot"} \union PersonKinds \union TaxKinds \union Closing
  /\ s[1] \in PersonKinds => s[2] = Buyer
  /\ s[1] = "ask" => Before(s[3]) \subseteq d.answers[Buyer]
  /\ s[1] \in TaxKinds \union Closing => Fields \subseteq d.answers[Buyer]
  /\ s[1] \in TaxKinds \ {"AMOUNT"} => d.tax # "none"
  /\ s[1] = "SELLER_PAN" => d.tax = "tds" /\ d.pan[Buyer] = "given"
  /\ s[1] \in Closing => TaxSettled(d)
  /\ s[1] \notin Closing => d.pan[Buyer] # "blank"

MortgageFits(s, d) ==
  /\ s[1] \in PaperKinds \union PersonKinds \union Closing
  /\ s[1] \notin PaperKinds => PapersIn(d)

(* The question a conversation is at fits what it knows.                   *)
Fits(s, d) ==
  /\ s \in Steps
  /\ IF s[1] \in Opening THEN d = NoData ELSE d.deedType \in {"sale", "mortgage"}
  /\ s[1] = "ask" => s[3] \notin d.answers[s[2]]
  /\ s[1] = "reuse" => "Name" \notin d.answers[s[2]]
  /\ s[1] = "plot" => "Name" \notin d.answers[Buyer]
  /\ d.deedType = "sale" => SaleFits(s, d)
  /\ d.deedType = "mortgage" => MortgageFits(s, d)

(* What questions about p need. *)
Ready(d, p) ==
  /\ d \in DataRecords /\ p \in People
  /\ \/ d.deedType = "sale" /\ p = Buyer /\ d.pan[Buyer] # "blank"
     \/ d.deedType = "mortgage" /\ PapersIn(d)

(* Whatever the questions depend on is the same in both.                   *)
SameAnswers(d, e) ==
  /\ e \in DataRecords /\ e.deedType = d.deedType /\ e.answers = d.answers /\ e.pan = d.pan
  /\ e.sellerPan = d.sellerPan /\ e.tax = d.tax /\ e.docs = d.docs /\ e.owner = d.owner

(* The question waiting for an answer fits, and what is handed in is whole. *)
Conversing ==
  /\ IntakeTypeOK
  /\ status = "none" => data = NoData
  /\ status = "ACTIVE" => Fits(step, data)
  /\ SubmittedComplete

-----------------------------------------------------------------------------
(* The first of some places.                                               *)
LEMMA LeastOf ==
  ASSUME NEW T \in SUBSET Nat, T # {}
  PROVE  Min(T) \in T /\ \A n \in T : Min(T) <= n
<1> DEFINE Less == OpToRel(<, Nat)
<1>1. \A m, n \in Nat : m < n => <<m, n>> \in Less
  BY DEF OpToRel
<1>2. IsWellFoundedOn(Less, Nat)
  BY NatLessThanWellFounded
<1> HIDE DEF Less
<1>3. PICK n \in T : \A m \in T : ~ (<<m, n>> \in Less)
  BY <1>2, WFMin
<1>4. ASSUME NEW m \in T PROVE n <= m
  <2>1. m \in Nat /\ n \in Nat /\ ~ (m < n)
    BY <1>1, <1>3
  <2> QED BY <2>1
<1>5. \E k \in T : \A m \in T : k <= m
  BY <1>3, <1>4
<1> QED BY <1>5 DEF Min

(* A record is typed column by column, ...                                 *)
LEMMA RecordsAre ==
  ASSUME NEW d
  PROVE  d \in DataRecords <=> Whole(d) /\ \A c \in ColumnNames : d[c] \in ColumnTypes[c]
<1>1. ASSUME d \in DataRecords PROVE Whole(d)
  BY <1>1 DEF DataRecords, Whole, ColumnNames
<1>2. ASSUME d \in DataRecords PROVE \A c \in ColumnNames : d[c] \in ColumnTypes[c]
  BY <1>2 DEF DataRecords, ColumnTypes, ColumnNames
<1>3. ASSUME Whole(d), \A c \in ColumnNames : d[c] \in ColumnTypes[c] PROVE d \in DataRecords
  BY <1>3 DEF DataRecords, ColumnTypes, ColumnNames, Whole
<1> QED BY <1>1, <1>2, <1>3

(* ... and so is what a few changed columns make of one.                   *)
LEMMA Recorded ==
  ASSUME NEW d \in DataRecords, NEW e, Whole(e),
         \A c \in ColumnNames : e[c] = d[c] \/ e[c] \in ColumnTypes[c]
  PROVE  e \in DataRecords
  BY RecordsAre

(* The fields in their order, ...                                          *)
LEMMA FieldsAre ==
  /\ Len(FieldOrder) = 8 /\ DOMAIN FieldOrder = 1..8
  /\ \A i, j \in 1..8 : FieldOrder[i] = FieldOrder[j] => i = j
  /\ \A i \in 1..8 : FieldOrder[i] \in Fields
  /\ \A f \in Fields : \E i \in 1..8 : FieldOrder[i] = f
  /\ FieldOrder[1] = "Name"
<1>1. Len(FieldOrder) = 8 /\ DOMAIN FieldOrder = 1..8 /\ FieldOrder[1] = "Name"
  BY DEF FieldOrder
<1>2. \A i, j \in 1..8 : FieldOrder[i] = FieldOrder[j] => i = j
  BY DEF FieldOrder
<1> QED BY <1>1, <1>2 DEF Fields

(* ... each of them asked of each person once.                             *)
LEMMA QuestionsAre ==
  ASSUME NEW S, NEW people \in Seq(S)
  PROVE  /\ DOMAIN Questions(people) \subseteq Nat
         /\ \A n \in DOMAIN Questions(people) :
              \E i \in DOMAIN people, f \in Fields : Questions(people)[n] = Ask(people[i], f)
         /\ \A i \in DOMAIN people, f \in Fields :
              \E n \in DOMAIN Questions(people) : Questions(people)[n] = Ask(people[i], f)
<1> DEFINE l == Len(people)
<1>1. l \in Nat /\ DOMAIN people = 1..l
  OBVIOUS
<1>2. /\ DOMAIN Questions(people) = 1..(l * 8)
      /\ \A n \in 1..(l * 8) : Questions(people)[n] =
           Ask(people[((n - 1) \div 8) + 1], FieldOrder[((n - 1) % 8) + 1])
  BY FieldsAre DEF Questions
<1> HIDE DEF l
<1>3. \A n \in 1..(l * 8) : ((n - 1) \div 8) + 1 \in 1..l /\ ((n - 1) % 8) + 1 \in 1..8
  BY <1>1
<1>4. \A i \in 1..l, j \in 1..8 :
        /\ (i - 1) * 8 + j \in 1..(l * 8)
        /\ (((i - 1) * 8 + j) - 1) \div 8 = i - 1
        /\ (((i - 1) * 8 + j) - 1) % 8 = j - 1
  BY <1>1
<1>5. \A n \in DOMAIN Questions(people) :
        \E i \in DOMAIN people, f \in Fields : Questions(people)[n] = Ask(people[i], f)
  <2> SUFFICES ASSUME NEW n \in 1..(l * 8)
               PROVE  \E i \in DOMAIN people, f \in Fields :
                        Questions(people)[n] = Ask(people[i], f)
    BY <1>2
  <2> DEFINE i == ((n - 1) \div 8) + 1
             j == ((n - 1) % 8) + 1
  <2>1. i \in DOMAIN people /\ j \in 1..8
    BY <1>1, <1>3
  <2>2. Questions(people)[n] = Ask(people[i], FieldOrder[j])
    BY <1>2
  <2> HIDE DEF i, j
  <2> QED BY <2>1, <2>2, FieldsAre
<1>6. ASSUME NEW i \in DOMAIN people, NEW f \in Fields
      PROVE  \E n \in DOMAIN Questions(people) : Questions(people)[n] = Ask(people[i], f)
  <2>1. PICK j \in 1..8 : FieldOrder[j] = f
    BY FieldsAre
  <2> DEFINE n == (i - 1) * 8 + j
  <2>2. n \in 1..(l * 8) /\ (n - 1) \div 8 = i - 1 /\ (n - 1) % 8 = j - 1
    BY <1>1, <1>4
  <2>3. (i - 1) + 1 = i /\ (j - 1) + 1 = j
    BY <1>1
  <2> HIDE DEF n
  <2>4. Questions(people)[n] = Ask(people[i], FieldOrder[j])
    BY <1>2, <2>2, <2>3
  <2> QED BY <1>2, <2>1, <2>2, <2>4
<1> QED BY <1>1, <1>2, <1>5, <1>6

LEMMA PeopleAre ==
  /\ Buyer \in People /\ Mortgagor \in People /\ Mortgagors \subseteq People
  /\ ReuseParties = {Buyer, Mortgagor} /\ ReuseParties \subseteq People
  /\ MortgagePeople \in Seq(Mortgagors) /\ <<Buyer>> \in Seq({Buyer})
  BY IntakeAssumption DEF People, Mortgagors, Mortgagor, ReuseParties

LEMMA Typed ==
  ASSUME NEW d \in DataRecords
  PROVE  /\ d.answers \in [People -> SUBSET Fields]
         /\ d.pan \in [People -> {"none", "given", "blank"}]
         /\ d.sellerPan \in {"none", "given"} /\ d.tax \in {"none", "low", "pan", "tds"}
         /\ d.deedType \in {"none", "sale", "mortgage", "other"}
         /\ Whole(d)
  BY RecordsAre DEF DataRecords

(* A question about a person is one of the steps, ...                      *)
LEMMA StepsAbout ==
  /\ \A p \in People, f \in Fields : Ask(p, f) \in Steps
  /\ \A p \in People, k \in Kinds : <<"photo", p, k>> \in Steps
  /\ \A p \in People, card \in {"aadhaar", "pan"} : <<"idOk", p, card>> \in Steps
  /\ \A p \in ReuseParties : <<"reuse", p>> \in Steps
  /\ \A p \in ReuseParties, f \in Fields \union {"Pan"} : <<"check", p, f>> \in Steps
  BY DEF Steps, Ask

LEMMA StepsAlone ==
  \A kind \in {"none", "M_FIRST_DOC", "M_OWNER"} \union TaxKinds \union Opening \union Closing :
    <<kind>> \in Steps
  BY DEF Steps, TaxKinds

LEMMA AskFits ==
  ASSUME NEW d, NEW p, NEW f \in Fields, Ready(d, p), f \notin d.answers[p],
         d.deedType = "sale" => Before(f) \subseteq d.answers[Buyer]
  PROVE  Fits(Ask(p, f), d)
<1>1. Ask(p, f) \in Steps
  BY StepsAbout DEF Ready
<1>2. Ask(p, f)[1] = "ask" /\ Ask(p, f)[2] = p /\ Ask(p, f)[3] = f
  BY DEF Ask
<1> QED BY <1>1, <1>2 DEF Fits, SaleFits, MortgageFits, Ready, PersonKinds, TaxKinds,
    PaperKinds, Opening, Closing

(* ... which fit whoever is ready for them.                                *)
LEMMA PersonFits ==
  ASSUME NEW d, NEW p, NEW s \in Steps, Ready(d, p), s[1] \in PersonKinds \ {"ask"}, s[2] = p,
         s[1] = "reuse" => "Name" \notin d.answers[p]
  PROVE  Fits(s, d)
  BY DEF Fits, SaleFits, MortgageFits, Ready, PersonKinds, TaxKinds, PaperKinds, Opening, Closing

LEMMA NameFits ==
  ASSUME NEW d, NEW p, Ready(d, p), "Name" \notin d.answers[p]
  PROVE  Fits(Ask(p, "Name"), d)
<1>1. "Name" \in Fields /\ Before("Name") = {}
  <2>1. \A k \in 1..8 : FieldOrder[k] = "Name" => k = 1
    BY FieldsAre
  <2> QED BY <2>1, FieldsAre DEF Before
<1> QED BY <1>1, AskFits

(* The first question that has no answer.                                  *)
LEMMA FirstOfThem ==
  ASSUME NEW S, NEW people \in Seq(S), NEW d,
         NEW T \in SUBSET Unanswered(d, Questions(people)), T # {}
  PROVE  /\ Min(T) \in T /\ \A n \in T : Min(T) <= n
         /\ \E i \in DOMAIN people, f \in Fields :
              /\ Questions(people)[Min(T)] = Ask(people[i], f)
              /\ f \notin d.answers[people[i]]
<1>1. T \in SUBSET Nat
  BY QuestionsAre DEF Unanswered
<1>2. Min(T) \in T /\ \A n \in T : Min(T) <= n
  BY <1>1, LeastOf
<1>3. PICK i \in DOMAIN people, f \in Fields : Questions(people)[Min(T)] = Ask(people[i], f)
  BY <1>2, QuestionsAre DEF Unanswered
<1>4. f \notin d.answers[people[i]]
  BY <1>2, <1>3 DEF Unanswered, Ask
<1> QED BY <1>2, <1>3, <1>4

LEMMA BuyersQuestions ==
  /\ DOMAIN Questions(<<Buyer>>) = 1..8
  /\ \A n \in 1..8 : Questions(<<Buyer>>)[n] = Ask(Buyer, FieldOrder[n])
<1>1. Len(<<Buyer>>) * 8 = 8 /\ <<Buyer>>[1] = Buyer
  OBVIOUS
<1>2. /\ DOMAIN Questions(<<Buyer>>) = 1..8
      /\ \A n \in 1..8 : Questions(<<Buyer>>)[n] =
           Ask(<<Buyer>>[((n - 1) \div 8) + 1], FieldOrder[((n - 1) % 8) + 1])
  BY <1>1, FieldsAre DEF Questions
<1>3. \A n \in 1..8 : ((n - 1) \div 8) + 1 = 1 /\ ((n - 1) % 8) + 1 = n
  OBVIOUS
<1> QED BY <1>1, <1>2, <1>3

(* The buyer is asked for what is missing, in order, and then the amount.  *)
LEMMA BuyerAdvances ==
  ASSUME NEW d, NEW f \in Fields, Ready(d, Buyer), d.deedType = "sale",
         Before(f) \subseteq d.answers[Buyer], f \in d.answers[Buyer]
  PROVE  Fits(Advance(d, Ask(Buyer, f)), d)
<1> DEFINE all == Questions(<<Buyer>>)
           rest == {n \in Unanswered(d, all) : \E i \in 1..(n - 1) : all[i] = Ask(Buyer, f)}
<1>1. Advance(d, Ask(Buyer, f)) = IF rest # {} THEN all[Min(rest)] ELSE <<"AMOUNT">>
  BY DEF Advance, Parties
<1>2. /\ DOMAIN all = 1..8 /\ \A n \in 1..8 : all[n] = Ask(Buyer, FieldOrder[n])
  BY BuyersQuestions
<1>3. Unanswered(d, all) = {n \in 1..8 : FieldOrder[n] \notin d.answers[Buyer]}
  BY <1>2 DEF Unanswered, Ask
<1> HIDE DEF all
<1>4. PICK k \in 1..8 : FieldOrder[k] = f
  BY FieldsAre
<1>5. \A n \in 1..8 : n <= k => FieldOrder[n] \in d.answers[Buyer]
  <2> SUFFICES ASSUME NEW n \in 1..8, n <= k PROVE FieldOrder[n] \in d.answers[Buyer]
    OBVIOUS
  <2>1. CASE n < k
    <3>1. FieldOrder[n] \in Before(f)
      BY <1>4, <2>1 DEF Before
    <3> QED BY <3>1
  <2>2. CASE n = k
    BY <1>4, <2>2
  <2> QED BY <2>1, <2>2
<1>6. rest = {n \in 1..8 : FieldOrder[n] \notin d.answers[Buyer]}
  <2>1. ASSUME NEW n \in 1..8, FieldOrder[n] \notin d.answers[Buyer]
        PROVE  \E i \in 1..(n - 1) : all[i] = Ask(Buyer, f)
    <3>1. k \in 1..(n - 1)
      BY <1>5, <2>1
    <3> QED BY <1>2, <1>4, <3>1
  <2> QED BY <1>3, <2>1
<1> HIDE DEF rest
<1>7. CASE rest = {}
  <2>1. Fields \subseteq d.answers[Buyer]
    BY <1>6, <1>7, FieldsAre
  <2>2. <<"AMOUNT">> \in Steps /\ <<"AMOUNT">>[1] = "AMOUNT"
    BY StepsAlone DEF TaxKinds
  <2>3. Fits(<<"AMOUNT">>, d)
    BY <2>1, <2>2 DEF Ready, Fits, SaleFits, PersonKinds, TaxKinds, Opening, Closing
  <2> QED BY <1>1, <1>7, <2>3
<1>8. CASE rest # {}
  <2>1. rest \in SUBSET Nat
    BY <1>6
  <2>2. Min(rest) \in rest /\ \A n \in rest : Min(rest) <= n
    BY <1>8, <2>1, LeastOf
  <2>3. PICK m \in 1..8 : m = Min(rest) /\ FieldOrder[m] \notin d.answers[Buyer]
    BY <1>6, <2>2
  <2>4. Before(FieldOrder[m]) \subseteq d.answers[Buyer]
    <3> SUFFICES ASSUME NEW j \in 1..8, NEW i \in 1..8, j < i, FieldOrder[i] = FieldOrder[m]
                 PROVE  FieldOrder[j] \in d.answers[Buyer]
      BY DEF Before
    <3>1. i = m
      BY FieldsAre
    <3> QED BY <1>6, <2>2, <2>3, <3>1
  <2>5. FieldOrder[m] \in Fields
    BY FieldsAre
  <2>6. Fits(Ask(Buyer, FieldOrder[m]), d)
    BY <2>3, <2>4, <2>5, AskFits
  <2> QED BY <1>1, <1>2, <1>8, <2>3, <2>6
<1> QED BY <1>7, <1>8

LEMMA FinalFitsMortgage ==
  ASSUME NEW d, d.deedType = "mortgage", PapersIn(d), NEW s \in {<<kind>> : kind \in Closing}
  PROVE  Fits(s, d)
<1>1. PICK kind \in Closing : s = <<kind>>
  OBVIOUS
<1>2. s \in Steps /\ s[1] \in Closing
  BY <1>1, StepsAlone
<1> QED BY <1>2 DEF Fits, MortgageFits, PersonKinds, PaperKinds, Opening, Closing

LEMMA MortgageAsks ==
  ASSUME NEW d \in DataRecords, d.deedType = "mortgage", PapersIn(d),
         NEW T \in SUBSET Unanswered(d, Questions(MortgagePeople)), T # {}
  PROVE  Fits(Questions(MortgagePeople)[Min(T)], d)
<1>1. PICK i \in DOMAIN MortgagePeople, f \in Fields :
        /\ Questions(MortgagePeople)[Min(T)] = Ask(MortgagePeople[i], f)
        /\ f \notin d.answers[MortgagePeople[i]]
  BY FirstOfThem, PeopleAre
<1>2. MortgagePeople[i] \in People
  BY PeopleAre
<1> QED BY <1>1, <1>2, AskFits DEF Ready

LEMMA AdvanceFits ==
  ASSUME NEW d, NEW p, NEW f \in Fields, Ready(d, p),
         d.deedType = "sale" => Before(f) \subseteq d.answers[Buyer] /\ f \in d.answers[Buyer]
  PROVE  Fits(Advance(d, Ask(p, f)), d)
<1>1. CASE d.deedType = "sale"
  BY <1>1, BuyerAdvances DEF Ready
<1>2. CASE d.deedType = "mortgage"
  <2> DEFINE all == Questions(MortgagePeople)
             rest == {n \in Unanswered(d, all) : \E i \in 1..(n - 1) : all[i] = Ask(p, f)}
  <2>1. Advance(d, Ask(p, f)) = IF rest # {} THEN all[Min(rest)] ELSE <<"FINAL">>
    BY <1>2 DEF Advance, Parties
  <2>2. rest \in SUBSET Unanswered(d, all) /\ PapersIn(d) /\ d \in DataRecords
    BY <1>2 DEF Ready
  <2>3. rest # {} => Fits(all[Min(rest)], d)
    <3> HIDE DEF rest
    <3> QED BY <1>2, <2>2, MortgageAsks
  <2>4. Fits(<<"FINAL">>, d)
    BY <1>2, <2>2, FinalFitsMortgage DEF Closing
  <2> HIDE DEF rest, all
  <2> QED BY <2>1, <2>3, <2>4
<1> QED BY <1>1, <1>2 DEF Ready

LEMMA AfterIdFits ==
  ASSUME NEW d, NEW p, Ready(d, p)
  PROVE  Fits(AfterId(d, p), d)
<1>1. "Name" \in Fields /\ Before("Name") = {}
  <2>1. \A k \in 1..8 : FieldOrder[k] = "Name" => k = 1
    BY FieldsAre
  <2> QED BY <2>1, FieldsAre DEF Before
<1>2. CASE "Name" \notin d.answers[p]
  BY <1>2, NameFits DEF AfterId
<1>3. CASE "Name" \in d.answers[p]
  BY <1>1, <1>3, AdvanceFits DEF AfterId, Ready
<1> QED BY <1>2, <1>3

LEMMA MortgageNextFits ==
  ASSUME NEW d \in DataRecords, d.deedType = "mortgage"
  PROVE  Fits(MortgageNext(d), d)
<1> DEFINE all == Questions(MortgagePeople)
           rest == Unanswered(d, all)
<1>1. ASSUME NEW s \in Steps, s[1] \in PaperKinds PROVE Fits(s, d)
  BY <1>1 DEF Fits, MortgageFits, PaperKinds, Opening
<1>2. /\ \A r \in Docs : <<"doc", r>> \in Steps /\ <<"doc", r>>[1] \in PaperKinds
      /\ <<"M_OWNER">> \in Steps /\ <<"M_OWNER">>[1] \in PaperKinds
  BY DEF Steps, PaperKinds
<1>3. rest \in SUBSET Unanswered(d, all)
  OBVIOUS
<1>4. ASSUME PapersIn(d), rest # {} PROVE Fits(all[Min(rest)], d)
  <2> HIDE DEF rest
  <2> QED BY <1>3, <1>4, MortgageAsks
<1>5. PapersIn(d) => Fits(<<"FINAL">>, d)
  BY FinalFitsMortgage DEF Closing
<1> HIDE DEF rest, all
<1>6. \/ MortgageNext(d) \in {<<"doc", r>> : r \in Docs} \union {<<"M_OWNER">>}
      \/ PapersIn(d) /\ MortgageNext(d) = IF rest # {} THEN all[Min(rest)] ELSE <<"FINAL">>
  BY DEF MortgageNext, PapersIn, rest, all, Docs
<1> QED BY <1>1, <1>2, <1>4, <1>5, <1>6

-----------------------------------------------------------------------------
(* Photos.                                                                 *)
LEMMA PhotoStepFits ==
  ASSUME NEW d, NEW p, Ready(d, p), PhotosLeft(d, p) # {}
  PROVE  Fits(PhotoStep(d, p), d)
<1>1. p \in People /\ PhotoKinds[p] \in Seq({"aadhaarFront", "aadhaarBack", "pan", "passportPhoto"})
  BY IntakeAssumption DEF Ready
<1>2. PhotosLeft(d, p) \in SUBSET Nat
  BY <1>1 DEF PhotosLeft
<1>3. Min(PhotosLeft(d, p)) \in PhotosLeft(d, p)
  BY <1>2, LeastOf
<1> DEFINE k == PhotoKinds[p][Min(PhotosLeft(d, p))]
<1>4. k \in Kinds /\ StepsFor(d, p, k) # {}
  <2>1. /\ Min(PhotosLeft(d, p)) \in DOMAIN PhotoKinds[p]
        /\ StepsFor(d, p, k) # {}
    BY <1>3 DEF PhotosLeft
  <2>2. k \in KindsOf(p)
    BY <2>1 DEF KindsOf
  <2> HIDE DEF k
  <2> QED BY <1>1, <2>1, <2>2 DEF Kinds
<1>5. PhotoStep(d, p) \in StepsFor(d, p, k)
  BY <1>4 DEF PhotoStep
<1> HIDE DEF k
<1>6. \/ PhotoStep(d, p) = <<"photo", p, k>>
      \/ \E card \in {"aadhaar", "pan"} : PhotoStep(d, p) = <<"idOk", p, card>>
  BY <1>5 DEF StepsFor, ToShow
<1>7. /\ PhotoStep(d, p) \in Steps /\ PhotoStep(d, p)[2] = p
      /\ PhotoStep(d, p)[1] \in {"photo", "idOk"}
  <2>1. CASE PhotoStep(d, p) = <<"photo", p, k>>
    <3>1. <<"photo", p, k>> \in Steps
      BY <1>1, <1>4, StepsAbout
    <3> QED BY <2>1, <3>1
  <2>2. CASE \E card \in {"aadhaar", "pan"} : PhotoStep(d, p) = <<"idOk", p, card>>
    <3>1. PICK card \in {"aadhaar", "pan"} : PhotoStep(d, p) = <<"idOk", p, card>>
      BY <2>2
    <3>2. <<"idOk", p, card>> \in Steps
      BY <1>1, StepsAbout
    <3> QED BY <3>1, <3>2
  <2> QED BY <1>6, <2>1, <2>2
<1> QED BY <1>7, PersonFits DEF PersonKinds

LEMMA OfferRecorded ==
  ASSUME NEW d \in DataRecords, NEW s
  PROVE  SameAnswers(d, WithOffer(d, s)) /\ WithOffer(d, s).idDone = d.idDone
<1> DEFINE e == WithOffer(d, s)
<1>1. Whole(d) /\ d.reuse \in ColumnTypes.reuse
  BY RecordsAre DEF ColumnNames
<1>2. Whole(e)
  BY <1>1 DEF WithOffer, Whole
<1>3. e.reuse \in ColumnTypes.reuse
  BY <1>1 DEF WithOffer, ColumnTypes, Whole, ColumnNames
<1>4. \A c \in ColumnNames \ {"reuse"} : e[c] = d[c]
  BY <1>1 DEF WithOffer, Whole
<1> HIDE DEF e
<1>5. e \in DataRecords
  BY <1>2, <1>3, <1>4, Recorded
<1>6. SameAnswers(d, e) /\ e.idDone = d.idDone
  BY <1>4, <1>5 DEF SameAnswers, ColumnNames
<1> QED BY <1>6 DEF e

LEMMA DoneRecorded ==
  ASSUME NEW d \in DataRecords, NEW set \in SUBSET People
  PROVE  SameAnswers(d, [d EXCEPT !.idDone = @ \union set])
<1> DEFINE e == [d EXCEPT !.idDone = @ \union set]
<1>1. Whole(d) /\ d.idDone \in SUBSET People
  BY RecordsAre DEF ColumnNames, ColumnTypes
<1>2. Whole(e) /\ e.idDone \in ColumnTypes.idDone
  BY <1>1 DEF Whole, ColumnTypes, ColumnNames
<1>3. \A c \in ColumnNames \ {"idDone"} : e[c] = d[c]
  BY <1>1 DEF Whole
<1> SUFFICES SameAnswers(d, e)
  OBVIOUS
<1> HIDE DEF e
<1>4. e \in DataRecords
  BY <1>2, <1>3, Recorded
<1> QED BY <1>3, <1>4 DEF SameAnswers, ColumnNames

LEMMA StillReady ==
  ASSUME NEW d, NEW e, NEW p, Ready(d, p), SameAnswers(d, e)
  PROVE  Ready(e, p)
  BY DEF Ready, SameAnswers, PapersIn

LEMMA StillFits ==
  ASSUME NEW d, NEW e, NEW s, Fits(s, d), s[1] \notin Opening, SameAnswers(d, e)
  PROVE  Fits(s, e)
  BY DEF Fits, SameAnswers, SaleFits, MortgageFits, TaxSettled, PapersIn

(* goto leads from a question that fits to one that fits.                  *)
LEMMA GotoFits ==
  ASSUME NEW d \in DataRecords, NEW s, Fits(s, d), s[1] \notin Opening, Goto(d, s)
  PROVE  data' \in DataRecords /\ Fits(step', data')
<1>1. CASE s = <<"FINAL">>
  <2>1. RegistryNext(d) \in Steps /\ RegistryNext(d)[1] \in Closing
    BY StepsAlone DEF RegistryNext, Closing
  <2>2. s[1] \in Closing
    BY <1>1 DEF Closing
  <2>3. Fits(RegistryNext(d), d)
    BY <2>1, <2>2 DEF Fits, SaleFits, MortgageFits, PersonKinds, TaxKinds, PaperKinds, Opening,
         Closing
  <2> QED BY <1>1, <2>3 DEF Goto
<1>2. CASE s # <<"FINAL">> /\ Person(s) = {}
  <2>1. ~ Offers(d, s) /\ data' = [WithOffer(d, s) EXCEPT !.idDone = @ \union {}] /\ step' = s
    BY <1>2 DEF Goto, Offers
  <2>2. SameAnswers(d, WithOffer(d, s))
    BY OfferRecorded
  <2>3. WithOffer(d, s) \in DataRecords
    BY <2>2 DEF SameAnswers
  <2>4. SameAnswers(WithOffer(d, s), data')
    BY <2>1, <2>3, DoneRecorded
  <2>5. SameAnswers(d, data')
    BY <2>2, <2>4 DEF SameAnswers
  <2> QED BY <2>1, <2>5, StillFits DEF SameAnswers
<1>3. CASE s # <<"FINAL">> /\ Person(s) # {}
  <2>1. s[1] = "ask" /\ s[3] = "Name" /\ Person(s) = {s[2]}
    BY <1>3 DEF Person
  <2>2. s[2] \in People
    BY <2>1 DEF Fits, Steps, Opening, Closing
  <2>3. Ready(d, s[2]) /\ "Name" \notin d.answers[s[2]]
    BY <2>1, <2>2 DEF Fits, Ready, SaleFits, MortgageFits, PersonKinds, PaperKinds, Closing, Opening
  <2> DEFINE known == WithOffer(d, s)
             todo == {p \in Person(s) : p \notin d.idDone}
             done == [known EXCEPT !.idDone = @ \union todo]
  <2>4. SameAnswers(d, known)
    BY OfferRecorded
  <2>5. Ready(known, s[2]) /\ "Name" \notin known.answers[s[2]] /\ known \in DataRecords
    BY <2>3, <2>4, StillReady DEF SameAnswers
  <2>6. todo \in SUBSET People
    BY <2>1, <2>2
  <2>7. SameAnswers(known, done)
    <3> HIDE DEF known, todo
    <3> QED BY <2>5, <2>6, DoneRecorded
  <2>8. SameAnswers(d, done)
    BY <2>4, <2>7 DEF SameAnswers
  <2>9. \/ Offers(d, s) /\ data' = known /\ step' = <<"reuse", s[2]>>
        \/ PhotosLeft(known, s[2]) # {} /\ data' = known /\ step' = PhotoStep(known, s[2])
        \/ data' = done /\ step' = s
    BY <1>3 DEF Goto
  <2> HIDE DEF known, done
  <2>10. CASE Offers(d, s) /\ data' = known /\ step' = <<"reuse", s[2]>>
    <3>1. step' \in Steps /\ step'[1] = "reuse" /\ step'[2] = s[2]
      BY <2>1, <2>10, StepsAbout DEF Offers
    <3>2. Fits(step', known)
      BY <2>5, <3>1, PersonFits DEF PersonKinds
    <3> QED BY <2>5, <2>10, <3>2
  <2>11. CASE PhotosLeft(known, s[2]) # {} /\ data' = known /\ step' = PhotoStep(known, s[2])
    BY <2>5, <2>11, PhotoStepFits
  <2>12. CASE data' = done /\ step' = s
    BY <2>8, <2>12, StillFits DEF SameAnswers
  <2> QED BY <2>9, <2>10, <2>11, <2>12
<1> QED BY <1>1, <1>2, <1>3

LEMMA ContinueFits ==
  ASSUME NEW d, NEW p, Ready(d, p), ContinueAfterPhoto(d, p)
  PROVE  data' \in DataRecords /\ Fits(step', data')
<1> DEFINE e == PhotosDone(d, p)
<1>1. SameAnswers(d, e)
  BY DoneRecorded DEF PhotosDone, Ready, SameAnswers
<1>2. Ready(e, p)
  BY <1>1, StillReady
<1>3. Fits(NextAfterPhoto(d, p), d)
  BY PhotoStepFits, AfterIdFits DEF NextAfterPhoto
<1>4. NextAfterPhoto(d, p)[1] \notin Opening
  BY <1>3 DEF Fits, Ready, NoData
<1>5. Fits(NextAfterPhoto(d, p), e)
  BY <1>1, <1>3, <1>4, StillFits
<1> QED BY <1>1, <1>4, <1>5, GotoFits DEF ContinueAfterPhoto, SameAnswers

(* The records that a conversation begins with, and that an answer makes.  *)
LEMMA NothingRecorded == NoData \in DataRecords
  BY DEF NoData, DataRecords

LEMMA AnswersRecorded ==
  ASSUME NEW d \in DataRecords, NEW v \in [People -> SUBSET Fields]
  PROVE  LET e == [d EXCEPT !.answers = v] IN
         /\ e \in DataRecords /\ e.answers = v
         /\ \A c \in ColumnNames \ {"answers"} : e[c] = d[c]
<1> DEFINE e == [d EXCEPT !.answers = v]
<1>1. Whole(d)
  BY Typed
<1>2. /\ Whole(e) /\ \A c \in ColumnNames \ {"answers"} : e[c] = d[c]
      /\ e.answers = v
  BY <1>1 DEF Whole, ColumnNames
<1> HIDE DEF e
<1>3. e.answers \in ColumnTypes.answers
  BY <1>2 DEF ColumnTypes
<1>4. e \in DataRecords
  BY <1>2, <1>3, Recorded
<1> QED BY <1>2, <1>4 DEF e

LEMMA PapersRecorded ==
  ASSUME NEW d \in DataRecords, NEW v \in [Docs -> {"none", "file", "later"}]
  PROVE  LET e == [d EXCEPT !.docs = v] IN e \in DataRecords /\ e.deedType = d.deedType
<1> DEFINE e == [d EXCEPT !.docs = v]
<1>1. Whole(d)
  BY Typed
<1>2. /\ Whole(e) /\ \A c \in ColumnNames \ {"docs"} : e[c] = d[c]
      /\ e.docs = v
  BY <1>1 DEF Whole, ColumnNames
<1> HIDE DEF e
<1>3. e.docs \in ColumnTypes.docs
  BY <1>2 DEF ColumnTypes
<1>4. e \in DataRecords
  BY <1>2, <1>3, Recorded
<1> QED BY <1>2, <1>4 DEF e, ColumnNames

LEMMA DocsTyped ==
  ASSUME NEW d \in DataRecords
  PROVE  d.docs \in [Docs -> {"none", "file", "later"}]
  BY RecordsAre DEF ColumnTypes, ColumnNames

-----------------------------------------------------------------------------
(* The deed begins, ...                                                    *)
LEMMA SaleStarts ==
  ASSUME StartSale(NoData)
  PROVE  data' \in DataRecords /\ Fits(step', data')
<1> DEFINE d == [NoData EXCEPT !.deedType = "sale"]
           s == IF paper = "plotDeed" THEN <<"plot", "PLOT_BUILDING">> ELSE Ask(Buyer, "Name")
<1>1. Goto(d, s)
  BY DEF StartSale
<1>2. /\ Whole(d) /\ d.deedType = "sale" /\ d.answers = NoData.answers /\ d.pan = NoData.pan
      /\ \A c \in ColumnNames \ {"deedType"} : d[c] = NoData[c]
  BY DEF NoData, Whole, ColumnNames
<1> HIDE DEF d
<1>3. d \in DataRecords
  <2>1. d.deedType \in ColumnTypes.deedType
    BY <1>2 DEF ColumnTypes
  <2> QED BY <1>2, <2>1, NothingRecorded, Recorded
<1>4. d.answers[Buyer] = {} /\ d.pan[Buyer] = "none"
  BY <1>2, PeopleAre DEF NoData
<1>5. Fits(s, d) /\ s[1] \notin Opening
  <2>1. CASE paper = "plotDeed"
    <3>1. <<"plot", "PLOT_BUILDING">> \in Steps
      BY DEF Steps
    <3> QED BY <1>2, <1>4, <2>1, <3>1
         DEF Fits, SaleFits, Opening, Closing, TaxKinds, PersonKinds
  <2>2. CASE paper # "plotDeed"
    <3>1. Ready(d, Buyer)
      BY <1>2, <1>3, <1>4, PeopleAre DEF Ready
    <3> QED BY <1>4, <2>2, <3>1, NameFits DEF Ask, Opening
  <2> QED BY <2>1, <2>2
<1> HIDE DEF s
<1> QED BY <1>1, <1>3, <1>5, GotoFits

LEMMA MortgageStarts ==
  ASSUME NEW hint \in BOOLEAN, StartMortgage(NoData, hint)
  PROVE  data' \in DataRecords /\ Fits(step', data')
<1> DEFINE d == [NoData EXCEPT !.deedType = "mortgage",
                   !.docs = [r \in Docs |-> IF PaperIs(r, hint) THEN "file" ELSE @[r]]]
           s == IF \E r \in Docs : PaperIs(r, hint) THEN MortgageNext(d) ELSE <<"M_FIRST_DOC">>
<1>1. Goto(d, s)
  BY DEF StartMortgage
<1>2. /\ Whole(d) /\ d.deedType = "mortgage"
      /\ d.docs = [r \in Docs |-> IF PaperIs(r, hint) THEN "file" ELSE NoData.docs[r]]
      /\ \A c \in ColumnNames \ {"deedType", "docs"} : d[c] = NoData[c]
  <2> DEFINE papers == [r \in Docs |-> IF PaperIs(r, hint) THEN "file" ELSE NoData.docs[r]]
  <2>1. d = [NoData EXCEPT !.deedType = "mortgage", !.docs = papers]
    OBVIOUS
  <2>2. Whole(NoData)
    BY NothingRecorded, RecordsAre
  <2> HIDE DEF papers, d
  <2>3. /\ Whole(d) /\ d.deedType = "mortgage" /\ d.docs = papers
        /\ \A c \in ColumnNames \ {"deedType", "docs"} : d[c] = NoData[c]
    BY <2>1, <2>2 DEF Whole, ColumnNames
  <2> QED BY <2>3 DEF papers
<1>3. d.deedType \in ColumnTypes.deedType /\ d.docs \in ColumnTypes.docs
  BY <1>2 DEF ColumnTypes, NoData
<1> HIDE DEF d
<1>4. d \in DataRecords
  BY <1>2, <1>3, NothingRecorded, Recorded
<1>5. Fits(<<"M_FIRST_DOC">>, d)
  <2>1. <<"M_FIRST_DOC">> \in Steps
    BY StepsAlone
  <2> QED BY <1>2, <2>1 DEF Fits, MortgageFits, PaperKinds, Opening
<1>6. Fits(s, d)
  BY <1>2, <1>4, <1>5, MortgageNextFits
<1>7. s[1] \notin Opening
  BY <1>2, <1>6 DEF Fits, NoData
<1> HIDE DEF s
<1> QED BY <1>1, <1>4, <1>6, <1>7, GotoFits

(* ... from the documents alone.                                           *)
LEMMA DeedFits ==
  ASSUME status' = "ACTIVE", NEW deed \in {"sale", "mortgage", "other"}, StartDeed(NoData, deed)
  PROVE  data' \in DataRecords /\ Fits(step', data')
<1>1. ~ StartOther(NoData)
  BY DEF StartOther
<1>2. StartSale(NoData) \/ \E hint \in BOOLEAN : StartMortgage(NoData, hint)
  BY <1>1 DEF StartDeed
<1> QED BY <1>2, SaleStarts, MortgageStarts

-----------------------------------------------------------------------------
(* Plot and papers.                                                        *)
LEMMA PlotFits ==
  ASSUME data \in DataRecords, Fits(step, data), AnswerPlot
  PROVE  data' \in DataRecords /\ Fits(step', data')
<1> DEFINE s == CASE step[2] = "PLOT_BUILDING" -> <<"plot", "PLOT_CORNER">>
                  [] step[2] = "PLOT_CORNER" -> <<"plot", "PLOT_BOUNDARY">>
                  [] OTHER -> Ask(Buyer, "Name")
<1>1. step[1] = "plot" /\ Goto(data, s)
  BY DEF AnswerPlot, Talking
<1>2. data.deedType = "sale" /\ data.pan[Buyer] # "blank" /\ "Name" \notin data.answers[Buyer]
  BY <1>1 DEF Fits, MortgageFits, SaleFits, PaperKinds, PersonKinds, Opening, Closing
<1>3. Fits(s, data)
  <2>1. ASSUME NEW t \in {<<"plot", "PLOT_CORNER">>, <<"plot", "PLOT_BOUNDARY">>}
        PROVE  Fits(t, data)
    <3>1. t \in Steps /\ t[1] = "plot"
      BY DEF Steps
    <3> QED BY <1>2, <3>1 DEF Fits, SaleFits, Opening, Closing, TaxKinds, PersonKinds
  <2>2. Fits(Ask(Buyer, "Name"), data)
    BY <1>2, NameFits, PeopleAre DEF Ready
  <2>3. s \in {<<"plot", "PLOT_CORNER">>, <<"plot", "PLOT_BOUNDARY">>, Ask(Buyer, "Name")}
    OBVIOUS
  <2> HIDE DEF s
  <2> QED BY <2>1, <2>2, <2>3
<1>4. s[1] \notin Opening
  BY DEF Opening, Ask
<1> HIDE DEF s
<1> QED BY <1>1, <1>3, <1>4, GotoFits

LEMMA PapersFit ==
  ASSUME NEW d \in DataRecords, d.deedType = "mortgage", Goto(d, MortgageNext(d))
  PROVE  data' \in DataRecords /\ Fits(step', data')
<1>1. Fits(MortgageNext(d), d)
  BY MortgageNextFits
<1>2. MortgageNext(d)[1] \notin Opening
  BY <1>1 DEF Fits, NoData
<1> QED BY <1>1, <1>2, GotoFits

LEMMA PaperActionsFit ==
  ASSUME data \in DataRecords, Fits(step, data),
         NameFirstDoc \/ DocLater \/ ReceiveDoc \/ AnswerOwner
  PROVE  data' \in DataRecords /\ Fits(step', data')
<1>1. step[1] \in PaperKinds
  BY DEF NameFirstDoc, DocLater, ReceiveDoc, AnswerOwner, Talking, PaperKinds
<1>2. data.deedType = "mortgage"
  BY <1>1 DEF Fits, SaleFits, PaperKinds, PersonKinds, TaxKinds, Opening, Closing
<1>3. step[1] = "doc" => step[2] \in Docs
  BY DEF Fits, Steps, Opening, Closing
<1>4. CASE NameFirstDoc
  <2>1. PICK role \in {"sanction", "registry", "neither"} :
          LET known == [data EXCEPT !.docs = [r \in Docs |-> IF r = role THEN "file" ELSE @[r]]] IN
          Goto(known, MortgageNext(known))
    BY <1>4 DEF NameFirstDoc
  <2> DEFINE v == [r \in Docs |-> IF r = role THEN "file" ELSE data.docs[r]]
             known == [data EXCEPT !.docs = v]
  <2>2. v \in [Docs -> {"none", "file", "later"}]
    BY DocsTyped
  <2>3. Goto(known, MortgageNext(known))
    BY <2>1
  <2>4. known \in DataRecords /\ known.deedType = "mortgage"
    <3> HIDE DEF v
    <3> QED BY <1>2, <2>2, PapersRecorded
  <2> HIDE DEF known
  <2> QED BY <2>3, <2>4, PapersFit
<1>5. ASSUME NEW role \in Docs, NEW v \in {"file", "later"},
             Goto([data EXCEPT !.docs[role] = v], MortgageNext([data EXCEPT !.docs[role] = v]))
      PROVE  data' \in DataRecords /\ Fits(step', data')
  <2> DEFINE w == [data.docs EXCEPT ![role] = v]
             known == [data EXCEPT !.docs = w]
  <2>1. w \in [Docs -> {"none", "file", "later"}]
    BY DocsTyped
  <2>2. known \in DataRecords /\ known.deedType = "mortgage"
    <3> HIDE DEF w
    <3> QED BY <1>2, <2>1, PapersRecorded
  <2>3. Goto(known, MortgageNext(known))
    BY <1>5
  <2> HIDE DEF known
  <2> QED BY <2>2, <2>3, PapersFit
<1>6. CASE DocLater
  BY <1>3, <1>5, <1>6 DEF DocLater, Talking
<1>7. CASE ReceiveDoc
  <2>1. PICK read \in Papers :
          LET role == IF step[2] = "sanction" /\ read \in SaleDeeds THEN "registry" ELSE step[2]
              known == [data EXCEPT !.docs[role] = "file"] IN
          Goto(known, MortgageNext(known))
    BY <1>7 DEF ReceiveDoc
  <2> DEFINE role == IF step[2] = "sanction" /\ read \in SaleDeeds THEN "registry" ELSE step[2]
  <2>2. role \in Docs
    BY <1>3, <1>7 DEF ReceiveDoc, Talking, Docs
  <2>3. Goto([data EXCEPT !.docs[role] = "file"], MortgageNext([data EXCEPT !.docs[role] = "file"]))
    BY <2>1
  <2> HIDE DEF role
  <2> QED BY <1>5, <2>2, <2>3
<1>8. CASE AnswerOwner
  <2>1. PICK v \in {"yes", "no", "unknown"} :
          Goto([data EXCEPT !.owner = v], MortgageNext([data EXCEPT !.owner = v]))
    BY <1>8 DEF AnswerOwner
  <2> DEFINE known == [data EXCEPT !.owner = v]
  <2>2. /\ Whole(known) /\ \A c \in ColumnNames \ {"owner"} : known[c] = data[c]
        /\ known.owner \in ColumnTypes.owner
    BY Typed DEF Whole, ColumnNames, ColumnTypes
  <2>3. Goto(known, MortgageNext(known))
    BY <2>1
  <2> HIDE DEF known
  <2>4. known \in DataRecords
    BY <2>2, Recorded
  <2>5. known.deedType = "mortgage"
    BY <1>2, <2>2 DEF ColumnNames
  <2> QED BY <2>3, <2>4, <2>5, PapersFit
<1> QED BY <1>4, <1>6, <1>7, <1>8

(* Whoever is asked about is ready.                                        *)
LEMMA PersonReady ==
  ASSUME data \in DataRecords, Fits(step, data), step[1] \in PersonKinds
  PROVE  Ready(data, step[2])
<1>1. step[2] \in People
  BY PeopleAre DEF Fits, Steps, PersonKinds, Opening, Closing
<1>2. data.deedType \in {"sale", "mortgage"}
  BY DEF Fits, PersonKinds, Opening
<1> QED BY <1>1, <1>2 DEF Fits, SaleFits, MortgageFits, Ready, PersonKinds, PaperKinds, Closing

(* What the customer says, or a card, leaves them so.                      *)
LEMMA ReadyAfter ==
  ASSUME NEW d, NEW e \in DataRecords, NEW p, Ready(d, p),
         \A c \in {"deedType", "docs", "owner"} : e[c] = d[c],
         e.pan = d.pan \/ e.pan[p] # "blank"
  PROVE  Ready(e, p)
  BY DEF Ready, PapersIn

(* A person's questions, ...                                               *)
LEMMA AskedFits ==
  ASSUME NEW d \in DataRecords, NEW s, Fits(s, d), d.deedType \in {"sale", "mortgage"}, Goto(d, s)
  PROVE  data' \in DataRecords /\ Fits(step', data')
<1>1. s[1] \notin Opening
  BY DEF Fits, NoData
<1> QED BY <1>1, GotoFits

LEMMA NewReuse ==
  ASSUME NEW d, NEW p, NEW v \in {"declined", "none"}, Ready(d, p), p \in ReuseParties
  PROVE  LET e == [d EXCEPT !.reuse[p] = v] IN
         Ready(e, p) /\ e.answers = d.answers
<1> DEFINE e == [d EXCEPT !.reuse[p] = v]
<1>1. Whole(d) /\ d.reuse \in ColumnTypes.reuse /\ d \in DataRecords
  BY RecordsAre DEF ColumnNames, Ready
<1>2. /\ Whole(e) /\ e.reuse = [d.reuse EXCEPT ![p] = v]
      /\ \A c \in ColumnNames \ {"reuse"} : e[c] = d[c]
  BY <1>1 DEF Whole, ColumnNames
<1> HIDE DEF e
<1>3. e.reuse \in ColumnTypes.reuse
  BY <1>1, <1>2 DEF ColumnTypes
<1>4. e \in DataRecords
  BY <1>1, <1>2, <1>3, Recorded
<1>5. Ready(e, p) /\ e.answers = d.answers
  BY <1>2, <1>4, ReadyAfter DEF ColumnNames
<1> QED BY <1>5 DEF e

LEMMA ReuseDeclined ==
  ASSUME data \in DataRecords, Fits(step, data), DeclineReuse \/ EarlierGone
  PROVE  data' \in DataRecords /\ Fits(step', data')
<1>1. step[1] = "reuse"
  BY DEF DeclineReuse, EarlierGone, Talking
<1>2. PICK v \in {"declined", "none"} :
        Goto([data EXCEPT !.reuse[step[2]] = v], Ask(step[2], "Name"))
  BY DEF DeclineReuse, EarlierGone
<1> DEFINE e == [data EXCEPT !.reuse[step[2]] = v]
<1>3. step[2] \in ReuseParties /\ "Name" \notin data.answers[step[2]]
  BY <1>1 DEF Fits, Steps, Opening, Closing
<1>4. Ready(data, step[2])
  BY <1>1, PersonReady DEF PersonKinds
<1>5. Ready(e, step[2]) /\ e.answers = data.answers
  BY <1>3, <1>4, NewReuse
<1>6. Goto(e, Ask(step[2], "Name"))
  BY <1>2
<1> HIDE DEF e
<1>7. Fits(Ask(step[2], "Name"), e)
  BY <1>3, <1>5, NameFits
<1> QED BY <1>5, <1>6, <1>7, AskedFits DEF Ready

LEMMA CheckFits ==
  ASSUME NEW d, NEW p \in ReuseParties, Ready(d, p), NEW from \in Nat \ {0}, NEW C,
         C = ReuseChecks(d, p, from), C # {}
  PROVE  Fits(<<"check", p, CheckOrder[Min(C)]>>, d)
<1>1. Len(CheckOrder) = 9 /\ \A i \in 1..9 : CheckOrder[i] \in Fields \union {"Pan"}
  <2>1. /\ Len(CheckOrder) = 9 /\ CheckOrder[9] = "Pan"
        /\ \A i \in 1..8 : CheckOrder[i] = FieldOrder[i]
    BY DEF CheckOrder, FieldOrder
  <2> QED BY <2>1, FieldsAre
<1>2. C \in SUBSET Nat /\ C \subseteq 1..9
  BY <1>1 DEF ReuseChecks
<1>3. Min(C) \in 1..9
  BY <1>2, LeastOf
<1>4. PICK f \in Fields \union {"Pan"} : f = CheckOrder[Min(C)]
  BY <1>1, <1>3
<1>5. <<"check", p, f>> \in Steps
  BY StepsAbout
<1>6. Fits(<<"check", p, f>>, d)
  BY <1>5, PersonFits DEF PersonKinds
<1> QED BY <1>4, <1>6

LEMMA ReuseAccepted ==
  ASSUME data \in DataRecords, Fits(step, data), earlier \in EarlierRequests, AcceptReuse
  PROVE  data' \in DataRecords /\ Fits(step', data')
<1> DEFINE p == step[2]
           F == earlier.fields \ {"Pan"}
           v == IF "Pan" \in earlier.fields THEN "given" ELSE data.pan[p]
           e == [data EXCEPT !.answers[p] = @ \union F, !.pan[p] = v,
                   !.idDone = @ \union {p}, !.reuse[p] = "used"]
           checks == ReuseChecks(e, p, 1)
           s == IF earlier.old /\ checks # {} THEN <<"check", p, CheckOrder[Min(checks)]>>
                ELSE AfterId(e, p)
<1>1. step[1] = "reuse" /\ Goto(e, s)
  BY DEF AcceptReuse, Talking
<1>2. p \in ReuseParties /\ Ready(data, p)
  BY <1>1, PersonReady DEF Fits, Steps, Opening, Closing, PersonKinds
<1>3. F \in SUBSET Fields
  BY DEF EarlierRequests
<1>4. /\ Whole(data) /\ data.answers \in [People -> SUBSET Fields]
      /\ data.pan \in [People -> {"none", "given", "blank"}] /\ p \in People
      /\ data.idDone \in SUBSET People /\ data.reuse \in ColumnTypes.reuse
  BY <1>2, Typed, RecordsAre DEF Ready, ColumnTypes, ColumnNames
<1> HIDE DEF p, F
<1>5. /\ Whole(e) /\ e.answers = [data.answers EXCEPT ![p] = @ \union F]
      /\ e.pan = [data.pan EXCEPT ![p] = v]
      /\ e.idDone = data.idDone \union {p} /\ e.reuse = [data.reuse EXCEPT ![p] = "used"]
      /\ \A c \in ColumnNames \ {"answers", "pan", "idDone", "reuse"} : e[c] = data[c]
  BY <1>4 DEF Whole, ColumnNames
<1>6. v \in {"none", "given", "blank"} /\ (data.pan[p] # "blank" => v # "blank")
  BY <1>4
<1> HIDE DEF e, v
<1>7. /\ e.answers \in ColumnTypes.answers /\ e.pan \in ColumnTypes.pan
      /\ e.idDone \in ColumnTypes.idDone /\ e.reuse \in ColumnTypes.reuse
  <2>1. e.answers \in [People -> SUBSET Fields] /\ e.pan \in [People -> {"none", "given", "blank"}]
    BY <1>3, <1>4, <1>5, <1>6
  <2>2. e.idDone \in SUBSET People
    BY <1>4, <1>5
  <2>3. e.reuse \in ColumnTypes.reuse
    <3>1. data.reuse \in [ReuseParties -> {"unasked", "none", "offered", "declined", "used"}]
      BY <1>4 DEF ColumnTypes
    <3>2. e.reuse \in [ReuseParties -> {"unasked", "none", "offered", "declined", "used"}]
      BY <1>5, <3>1
    <3> QED BY <3>2 DEF ColumnTypes
  <2> QED BY <2>1, <2>2, <2>3 DEF ColumnTypes
<1>8. e \in DataRecords
  BY <1>5, <1>7, Recorded
<1>9. Ready(e, p)
  <2>1. /\ e.deedType = data.deedType /\ e.docs = data.docs /\ e.owner = data.owner
        /\ e.pan[p] = v
    BY <1>4, <1>5 DEF ColumnNames
  <2> QED BY <1>2, <1>6, <1>8, <2>1 DEF Ready, PapersIn
<1>10. Fits(s, e)
  <2> HIDE DEF checks
  <2>1. checks # {} => Fits(<<"check", p, CheckOrder[Min(checks)]>>, e)
    BY <1>2, <1>9, CheckFits DEF checks
  <2> QED BY <1>9, <2>1, AfterIdFits
<1> HIDE DEF s
<1> QED BY <1>1, <1>8, <1>9, <1>10, AskedFits DEF Ready

LEMMA ReuseChecked ==
  ASSUME data \in DataRecords, Fits(step, data), CheckReused
  PROVE  data' \in DataRecords /\ Fits(step', data')
<1> DEFINE p == step[2]
           checks == ReuseChecks(data, p, CheckIndex(step[3]) + 1)
           s == IF checks # {} THEN <<"check", p, CheckOrder[Min(checks)]>> ELSE AfterId(data, p)
<1>1. step[1] = "check" /\ Goto(data, s)
  BY DEF CheckReused, Talking
<1>2. p \in ReuseParties /\ step[3] \in Fields \union {"Pan"}
  BY <1>1 DEF Fits, Steps, Opening, Closing
<1>3. Ready(data, p)
  BY <1>1, PersonReady DEF PersonKinds
<1>4. CheckIndex(step[3]) + 1 \in Nat \ {0}
  <2>1. /\ Len(CheckOrder) = 9 /\ CheckOrder[9] = "Pan"
        /\ \A i \in 1..8 : CheckOrder[i] = FieldOrder[i]
    BY DEF CheckOrder, FieldOrder
  <2>2. \E i \in 1..9 : CheckOrder[i] = step[3]
    BY <1>2, <2>1, FieldsAre
  <2>3. DOMAIN CheckOrder = 1..9
    BY DEF CheckOrder, FieldOrder
  <2>4. CheckIndex(step[3]) \in 1..9
    BY <2>2, <2>3 DEF CheckIndex
  <2> QED BY <2>4
<1> HIDE DEF p
<1>5. Fits(s, data)
  <2> DEFINE from == CheckIndex(step[3]) + 1
  <2> HIDE DEF from, checks
  <2>1. checks # {} => Fits(<<"check", p, CheckOrder[Min(checks)]>>, data)
    BY <1>2, <1>3, <1>4, CheckFits DEF checks, from
  <2> QED BY <1>3, <2>1, AfterIdFits
<1> HIDE DEF s
<1> QED BY <1>1, <1>3, <1>5, AskedFits DEF Ready

-----------------------------------------------------------------------------
(* Photos and cards.                                                       *)
LEMMA StepAbout ==
  ASSUME Fits(step, data)
  PROVE  /\ step[1] = "photo" => step[2] \in People /\ step[3] \in Kinds
         /\ step[1] = "idOk" => step[2] \in People /\ step[3] \in {"aadhaar", "pan"}
         /\ step[1] = "ask" => step[2] \in People /\ step[3] \in Fields
  BY DEF Fits, Steps, Opening, Closing

(* A photo, whatever else it tells of the card, ...                        *)
LEMMA PhotoRecorded ==
  ASSUME NEW d, NEW p, Ready(d, p), NEW e, Whole(e),
         \A c \in ColumnNames \ {"photos", "aadhaarRead", "panRead", "unreadable", "idFiles"} :
           e[c] = d[c],
         \A c \in {"photos", "aadhaarRead", "panRead", "unreadable", "idFiles"} :
           e[c] \in ColumnTypes[c]
  PROVE  Ready(e, p) /\ SameAnswers(d, e)
<1>1. e \in DataRecords
  BY Recorded DEF Ready
<1>2. SameAnswers(d, e)
  BY <1>1 DEF SameAnswers, ColumnNames
<1> QED BY <1>2, StillReady

LEMMA PhotoTypes ==
  ASSUME NEW d \in DataRecords, NEW p \in People
  PROVE  /\ Whole(d) /\ d.photos \in ColumnTypes.photos /\ d.aadhaarRead \in ColumnTypes.aadhaarRead
         /\ d.panRead \in ColumnTypes.panRead /\ d.unreadable \in ColumnTypes.unreadable
         /\ d.idFiles \in ColumnTypes.idFiles
         /\ d.idFiles \union {p} \in ColumnTypes.idFiles
         /\ d.unreadable \union {p} \in ColumnTypes.unreadable
<1>1. Whole(d) /\ \A c \in ColumnNames : d[c] \in ColumnTypes[c]
  BY RecordsAre
<1>2. d.idFiles \in SUBSET People /\ d.unreadable \in SUBSET People
  BY <1>1 DEF ColumnTypes, ColumnNames
<1>3. /\ d.idFiles \union {p} \in ColumnTypes.idFiles
      /\ d.unreadable \union {p} \in ColumnTypes.unreadable
  BY <1>2 DEF ColumnTypes
<1> QED BY <1>1, <1>3 DEF ColumnNames

LEMMA PhotoPut ==
  ASSUME NEW d \in DataRecords, NEW p \in People, NEW k \in Kinds, NEW new,
         NEW v \in {"tried", "file", "later"}, new = [d.photos EXCEPT ![p][k] = v]
  PROVE  new \in ColumnTypes.photos
<1>1. d.photos \in [People -> [Kinds -> {"none", "tried", "file", "later"}]]
  BY PhotoTypes DEF ColumnTypes
<1>2. new \in [People -> [Kinds -> {"none", "tried", "file", "later"}]]
  BY <1>1
<1> QED BY <1>2 DEF ColumnTypes

LEMMA ReadFits ==
  ASSUME data \in DataRecords, Fits(step, data), PhotoRead
  PROVE  data' \in DataRecords /\ Fits(step', data')
<1> DEFINE p == step[2]
           k == step[3]
<1>1. step[1] = "photo"
  BY DEF PhotoRead, Talking
<1>2. p \in People /\ k \in Kinds /\ Ready(data, p)
  BY <1>1, StepAbout, PersonReady DEF PersonKinds
<1>3. PICK got \in ReadsOf(k) :
        ContinueAfterPhoto([Photo(Listed(data, p), p, k, "file") EXCEPT
               !.aadhaarRead[p] = @ \union got, !.panRead[p] = @ \/ k = "pan"], p)
  BY DEF PhotoRead
<1>4. got \in SUBSET {"Name", "Aadhaar", "Address"}
  BY DEF ReadsOf
<1> HIDE DEF p, k
<1> DEFINE e == [Photo(Listed(data, p), p, k, "file") EXCEPT
                   !.aadhaarRead[p] = @ \union got, !.panRead[p] = @ \/ k = "pan"]
<1>5. Whole(data)
  BY Typed
<1>6. /\ Whole(e) /\ e.photos = [data.photos EXCEPT ![p][k] = "file"]
      /\ e.aadhaarRead = [data.aadhaarRead EXCEPT ![p] = @ \union got]
      /\ e.panRead = [data.panRead EXCEPT ![p] = @ \/ k = "pan"]
      /\ e.unreadable = data.unreadable /\ e.idFiles = data.idFiles \union {p}
      /\ \A c \in ColumnNames \ {"photos", "aadhaarRead", "panRead", "unreadable", "idFiles"} :
           e[c] = data[c]
  BY <1>5 DEF Whole, ColumnNames, Photo, Listed
<1>7. ContinueAfterPhoto(e, p)
  BY <1>3
<1> HIDE DEF e
<1>8. e.photos \in ColumnTypes.photos
  BY <1>2, <1>6, PhotoPut
<1>9. e.aadhaarRead \in ColumnTypes.aadhaarRead
  BY <1>2, <1>4, <1>6, PhotoTypes DEF ColumnTypes
<1>10. e.panRead \in ColumnTypes.panRead
  <2>1. data.panRead \in [People -> BOOLEAN]
    BY <1>2, PhotoTypes DEF ColumnTypes
  <2> QED BY <1>2, <1>6, <2>1 DEF ColumnTypes
<1>11. e.unreadable \in ColumnTypes.unreadable /\ e.idFiles \in ColumnTypes.idFiles
  BY <1>2, <1>6, PhotoTypes DEF ColumnTypes
<1>12. Ready(e, p)
  BY <1>2, <1>6, <1>8, <1>9, <1>10, <1>11, PhotoRecorded
<1> QED BY <1>7, <1>12, ContinueFits

LEMMA LaterFits ==
  ASSUME data \in DataRecords, Fits(step, data), PhotoLater
  PROVE  data' \in DataRecords /\ Fits(step', data')
<1> DEFINE p == step[2]
           k == step[3]
           e == Photo(data, p, k, "later")
<1>1. step[1] = "photo" /\ ContinueAfterPhoto(e, p)
  BY DEF PhotoLater, Talking
<1>2. p \in People /\ k \in Kinds /\ Ready(data, p)
  BY <1>1, StepAbout, PersonReady DEF PersonKinds
<1>3. Whole(data)
  BY Typed
<1> HIDE DEF p, k
<1>4. /\ Whole(e) /\ e.photos = [data.photos EXCEPT ![p][k] = "later"]
      /\ \A c \in ColumnNames \ {"photos"} : e[c] = data[c]
  BY <1>3 DEF Whole, ColumnNames, Photo
<1> HIDE DEF e
<1>5. e.photos \in ColumnTypes.photos
  BY <1>2, <1>4, PhotoPut
<1>6. /\ e.aadhaarRead \in ColumnTypes.aadhaarRead /\ e.panRead \in ColumnTypes.panRead
      /\ e.unreadable \in ColumnTypes.unreadable /\ e.idFiles \in ColumnTypes.idFiles
  BY <1>2, <1>4, PhotoTypes DEF ColumnNames
<1>7. Ready(e, p)
  BY <1>2, <1>4, <1>5, <1>6, PhotoRecorded
<1> QED BY <1>1, <1>7, ContinueFits

(* ... a card that cannot be read, ...                                     *)
LEMMA UnreadFits ==
  ASSUME data \in DataRecords, Fits(step, data), PhotoUnread
  PROVE  data' \in DataRecords /\ Fits(step', data')
<1> DEFINE p == step[2]
           k == step[3]
           tried == Photo(Listed(data, p), p, k, "tried")
           given == [Photo(Listed(data, p), p, k, "file") EXCEPT !.unreadable = @ \union {p}]
<1>1. /\ step[1] = "photo"
      /\ (data' = tried /\ step' = step) \/ ContinueAfterPhoto(given, p)
  BY DEF PhotoUnread, Talking
<1>2. p \in People /\ k \in Kinds /\ Ready(data, p)
  BY <1>1, StepAbout, PersonReady DEF PersonKinds
<1>3. Whole(data)
  BY Typed
<1> HIDE DEF p, k
<1>4. /\ Whole(tried) /\ tried.photos = [data.photos EXCEPT ![p][k] = "tried"]
      /\ tried.idFiles = data.idFiles \union {p}
      /\ \A c \in ColumnNames \ {"photos", "idFiles"} : tried[c] = data[c]
  BY <1>3 DEF Whole, ColumnNames, Photo, Listed
<1>5. /\ Whole(given) /\ given.photos = [data.photos EXCEPT ![p][k] = "file"]
      /\ given.idFiles = data.idFiles \union {p}
      /\ given.unreadable = data.unreadable \union {p}
      /\ \A c \in ColumnNames \ {"photos", "unreadable", "idFiles"} : given[c] = data[c]
  BY <1>3 DEF Whole, ColumnNames, Photo, Listed
<1> HIDE DEF tried, given
<1>6. tried.photos \in ColumnTypes.photos /\ given.photos \in ColumnTypes.photos
  <2>1. tried.photos \in ColumnTypes.photos
    BY <1>2, <1>4, PhotoPut
  <2>2. given.photos \in ColumnTypes.photos
    BY <1>2, <1>5, PhotoPut
  <2> QED BY <2>1, <2>2
<1>7. /\ tried.aadhaarRead \in ColumnTypes.aadhaarRead /\ tried.panRead \in ColumnTypes.panRead
      /\ tried.unreadable \in ColumnTypes.unreadable /\ tried.idFiles \in ColumnTypes.idFiles
  <2>1. /\ tried.aadhaarRead = data.aadhaarRead /\ tried.panRead = data.panRead
        /\ tried.unreadable = data.unreadable /\ tried.idFiles = data.idFiles \union {p}
    BY <1>4 DEF ColumnNames
  <2>2. data \in DataRecords
    OBVIOUS
  <2> QED BY ONLY <1>2, <2>1, <2>2, PhotoTypes
<1>8. /\ given.aadhaarRead \in ColumnTypes.aadhaarRead /\ given.panRead \in ColumnTypes.panRead
      /\ given.unreadable \in ColumnTypes.unreadable /\ given.idFiles \in ColumnTypes.idFiles
  <2>1. /\ given.aadhaarRead = data.aadhaarRead /\ given.panRead = data.panRead
        /\ given.unreadable = data.unreadable \union {p} /\ given.idFiles = data.idFiles \union {p}
    BY <1>5 DEF ColumnNames
  <2>2. data \in DataRecords
    OBVIOUS
  <2> QED BY ONLY <1>2, <2>1, <2>2, PhotoTypes
<1>9. SameAnswers(data, tried)
  BY <1>2, <1>4, <1>6, <1>7, PhotoRecorded
<1>10. Ready(given, p)
  BY <1>2, <1>5, <1>6, <1>8, PhotoRecorded
<1>11. Fits(step, tried)
  BY <1>1, <1>9, StillFits DEF Opening
<1> QED BY <1>1, <1>9, <1>10, <1>11, ContinueFits DEF SameAnswers

LEMMA AgainFits ==
  ASSUME data \in DataRecords, Fits(step, data), PhotoAgain
  PROVE  data' \in DataRecords /\ Fits(step', data')
<1> DEFINE p == step[2]
           e == Listed(data, p)
<1>1. step[1] = "idOk" /\ data' = e /\ step' = step
  BY DEF PhotoAgain, Talking
<1>2. p \in People /\ Ready(data, p)
  BY <1>1, StepAbout, PersonReady DEF PersonKinds
<1>3. Whole(data)
  BY Typed
<1> HIDE DEF p
<1>4. /\ Whole(e) /\ e.idFiles = data.idFiles \union {p}
      /\ \A c \in ColumnNames \ {"idFiles"} : e[c] = data[c]
  BY <1>3 DEF Whole, ColumnNames, Listed
<1> HIDE DEF e
<1>5. /\ e.photos \in ColumnTypes.photos /\ e.aadhaarRead \in ColumnTypes.aadhaarRead
      /\ e.panRead \in ColumnTypes.panRead /\ e.unreadable \in ColumnTypes.unreadable
      /\ e.idFiles \in ColumnTypes.idFiles
  BY <1>2, <1>4, PhotoTypes DEF ColumnNames
<1>6. SameAnswers(data, e)
  BY <1>2, <1>4, <1>5, PhotoRecorded
<1>7. Fits(step, e)
  BY <1>1, <1>6, StillFits DEF Opening
<1> QED BY <1>1, <1>6, <1>7 DEF SameAnswers

(* ... and a card that was read.                                           *)
LEMMA CardRecorded ==
  ASSUME NEW d, NEW p, Ready(d, p), NEW e, Whole(e), e.confirmed \in ColumnTypes.confirmed,
         e.answers \in ColumnTypes.answers, e.pan \in ColumnTypes.pan,
         e.pan = d.pan \/ e.pan[p] # "blank",
         \A c \in ColumnNames \ {"confirmed", "answers", "pan"} : e[c] = d[c]
  PROVE  Ready(e, p)
<1>1. e \in DataRecords
  BY Recorded DEF Ready
<1>2. \A c \in {"deedType", "docs", "owner"} : e[c] = d[c]
  BY DEF ColumnNames
<1> QED BY <1>1, <1>2, ReadyAfter

LEMMA CardFits ==
  ASSUME data \in DataRecords, Fits(step, data), ConfirmCard
  PROVE  data' \in DataRecords /\ Fits(step', data')
<1> DEFINE p == step[2]
           card == step[3]
           asked == [data EXCEPT !.confirmed[p] = @ \union {card}]
           read == [asked EXCEPT !.answers[p] = @ \union data.aadhaarRead[p]]
           given == [asked EXCEPT !.pan[p] = "given"]
<1>1. step[1] = "idOk"
  BY DEF ConfirmCard, Talking
<1>2. ContinueAfterPhoto(asked, p) \/ ContinueAfterPhoto(read, p) \/ ContinueAfterPhoto(given, p)
  BY DEF ConfirmCard
<1>3. p \in People /\ card \in {"aadhaar", "pan"} /\ Ready(data, p)
  BY <1>1, StepAbout, PersonReady DEF PersonKinds
<1>4. Whole(data)
  BY Typed
<1> HIDE DEF p, card
<1> DEFINE confirmed == [data.confirmed EXCEPT ![p] = @ \union {card}]
           answers == [data.answers EXCEPT ![p] = @ \union data.aadhaarRead[p]]
           pan == [data.pan EXCEPT ![p] = "given"]
<1>5. /\ Whole(asked) /\ asked.confirmed = confirmed
      /\ asked.answers = data.answers /\ asked.pan = data.pan
      /\ \A c \in ColumnNames \ {"confirmed", "answers", "pan"} : asked[c] = data[c]
  BY <1>4 DEF Whole, ColumnNames
<1>6. /\ Whole(read) /\ read.confirmed = confirmed /\ read.answers = answers
      /\ read.pan = data.pan
      /\ \A c \in ColumnNames \ {"confirmed", "answers", "pan"} : read[c] = data[c]
  BY <1>4 DEF Whole, ColumnNames
<1>7. /\ Whole(given) /\ given.confirmed = confirmed
      /\ given.answers = data.answers /\ given.pan = pan
      /\ \A c \in ColumnNames \ {"confirmed", "answers", "pan"} : given[c] = data[c]
  BY <1>4 DEF Whole, ColumnNames
<1> HIDE DEF asked, read, given
<1>8. /\ data.confirmed \in [People -> SUBSET {"aadhaar", "pan"}]
      /\ data.answers \in [People -> SUBSET Fields]
      /\ data.pan \in [People -> {"none", "given", "blank"}]
      /\ data.aadhaarRead[p] \in SUBSET Fields
  <2>1. FieldOrder[1] = "Name" /\ FieldOrder[5] = "Aadhaar" /\ FieldOrder[8] = "Address"
    BY DEF FieldOrder
  <2>2. {"Name", "Aadhaar", "Address"} \subseteq Fields
    BY <2>1, FieldsAre
  <2> QED BY <1>3, <2>2, RecordsAre DEF ColumnTypes, ColumnNames
<1>9. /\ confirmed \in ColumnTypes.confirmed /\ answers \in ColumnTypes.answers
      /\ data.answers \in ColumnTypes.answers
  BY <1>3, <1>8 DEF ColumnTypes
<1>10. pan \in ColumnTypes.pan /\ data.pan \in ColumnTypes.pan /\ pan[p] # "blank"
  BY <1>3, <1>8 DEF ColumnTypes
<1> HIDE DEF confirmed, answers, pan
<1>11. Ready(asked, p)
  BY <1>3, <1>5, <1>9, <1>10, CardRecorded
<1>12. Ready(read, p)
  BY <1>3, <1>6, <1>9, <1>10, CardRecorded
<1>13. Ready(given, p)
  BY <1>3, <1>7, <1>9, <1>10, CardRecorded
<1> QED BY <1>2, <1>11, <1>12, <1>13, ContinueFits

-----------------------------------------------------------------------------
(* Typed answers, the amount and the PANs.                                 *)
LEMMA AnswerFits ==
  ASSUME data \in DataRecords, Fits(step, data), AnswerField
  PROVE  data' \in DataRecords /\ Fits(step', data')
<1> DEFINE p == step[2]
           f == step[3]
<1>1. step[1] = "ask" /\ p \in People /\ f \in Fields
  BY StepAbout DEF AnswerField, Talking
<1>2. PICK F \in {{f}, {"Name", "Relation", "FatherName"}} :
        LET e == [data EXCEPT !.answers[p] = @ \union F] IN
        f \in F /\ Goto(e, Advance(e, step))
  <2>1. CASE Goto([data EXCEPT !.answers[step[2]] = @ \union {step[3]}],
                  Advance([data EXCEPT !.answers[step[2]] = @ \union {step[3]}], step))
    BY <2>1
  <2>2. CASE /\ step[3] = "Name"
             /\ LET e == [data EXCEPT !.answers[step[2]] =
                            @ \union {"Name", "Relation", "FatherName"}] IN
                Goto(e, Advance(e, step))
    BY <2>2
  <2> QED BY <2>1, <2>2 DEF AnswerField
<1> DEFINE e == [data EXCEPT !.answers[p] = @ \union F]
<1>3. F \in SUBSET Fields
  <2>1. FieldOrder[1] = "Name" /\ FieldOrder[2] = "Relation" /\ FieldOrder[3] = "FatherName"
    BY DEF FieldOrder
  <2> QED BY <1>1, <2>1, FieldsAre
<1>4. step = Ask(p, f)
  BY <1>1 DEF Fits, Steps, Ask, Opening, Closing
<1>5. Ready(data, p)
  BY <1>1, PersonReady DEF PersonKinds
<1>6. data.deedType = "sale" => p = Buyer /\ Before(f) \subseteq data.answers[Buyer]
  BY <1>1 DEF Fits, SaleFits, PersonKinds
<1>7. f \in F /\ Goto(e, Advance(e, step))
  BY <1>2
<1> HIDE DEF p, f
<1>8. /\ e \in DataRecords /\ e.answers[p] = data.answers[p] \union F
      /\ \A c \in ColumnNames \ {"answers"} : e[c] = data[c]
  <2> DEFINE answers == [data.answers EXCEPT ![p] = @ \union F]
  <2>1. answers \in [People -> SUBSET Fields] /\ answers[p] = data.answers[p] \union F
    BY <1>1, <1>3, Typed
  <2>2. e = [data EXCEPT !.answers = answers]
    OBVIOUS
  <2> HIDE DEF answers, e
  <2> QED BY <2>1, <2>2, AnswersRecorded
<1> HIDE DEF e
<1>9. Ready(e, p) /\ e.deedType = data.deedType
  BY <1>5, <1>8, ReadyAfter DEF ColumnNames
<1>10. Fits(Advance(e, Ask(p, f)), e)
  BY <1>1, <1>6, <1>7, <1>8, <1>9, AdvanceFits
<1> QED BY <1>4, <1>7, <1>8, <1>9, <1>10, AskedFits DEF Ready

LEMMA NoEmailFits ==
  ASSUME data \in DataRecords, Fits(step, data), NoEmail
  PROVE  data' \in DataRecords /\ Fits(step', data')
  BY DEF NoEmail

(* Once the PAN is known, or a small sum needs none.                       *)
LEMMA AfterPanFits ==
  ASSUME NEW d \in DataRecords, d.deedType = "sale", Fields \subseteq d.answers[Buyer],
         d.tax # "none", d.pan[Buyer] = "given" \/ (d.pan[Buyer] = "blank" /\ d.tax = "low")
  PROVE  Fits(AfterPan(d), d)
<1>1. <<"SELLER_PAN">> \in Steps /\ <<"FINAL">> \in Steps
  BY StepsAlone DEF TaxKinds, Closing
<1>2. CASE d.tax = "tds" /\ d.sellerPan = "none"
  BY <1>1, <1>2 DEF AfterPan, Fits, SaleFits, TaxKinds, PersonKinds, Opening, Closing
<1>3. CASE ~ (d.tax = "tds" /\ d.sellerPan = "none")
  <2>1. TaxSettled(d)
    BY <1>3, Typed DEF TaxSettled
  <2> QED BY <1>1, <1>3, <2>1
       DEF AfterPan, Fits, SaleFits, TaxKinds, PersonKinds, Opening, Closing
<1> QED BY <1>2, <1>3

LEMMA AtTax ==
  ASSUME data \in DataRecords, Fits(step, data), step[1] \in TaxKinds
  PROVE  /\ data.deedType = "sale" /\ Fields \subseteq data.answers[Buyer]
         /\ data.pan[Buyer] # "blank" /\ Whole(data) /\ Buyer \in People
         /\ data.pan \in [People -> {"none", "given", "blank"}]
         /\ step[1] # "AMOUNT" => data.tax # "none"
         /\ step[1] = "SELLER_PAN" => data.tax = "tds" /\ data.pan[Buyer] = "given"
  BY Typed, PeopleAre
     DEF Fits, SaleFits, MortgageFits, TaxKinds, PaperKinds, PersonKinds, Opening, Closing

LEMMA AmountFits ==
  ASSUME data \in DataRecords, Fits(step, data), AnswerAmount
  PROVE  data' \in DataRecords /\ Fits(step', data')
<1>1. step[1] = "AMOUNT"
  BY DEF AnswerAmount, Talking
<1>2. PICK tax \in {"low", "pan", "tds"} :
        Goto([data EXCEPT !.tax = tax], AfterAmount([data EXCEPT !.tax = tax]))
  BY DEF AnswerAmount
<1> DEFINE e == [data EXCEPT !.tax = tax]
<1>3. /\ data.deedType = "sale" /\ Fields \subseteq data.answers[Buyer]
      /\ data.pan[Buyer] # "blank" /\ Whole(data) /\ Buyer \in People
      /\ data.pan \in [People -> {"none", "given", "blank"}]
  BY <1>1, AtTax DEF TaxKinds
<1>4. Whole(e) /\ e.tax = tax /\ \A c \in ColumnNames \ {"tax"} : e[c] = data[c]
  BY <1>3 DEF Whole, ColumnNames
<1>5. Goto(e, AfterAmount(e))
  BY <1>2
<1> HIDE DEF e
<1>6. e.tax \in ColumnTypes.tax
  BY <1>4 DEF ColumnTypes
<1>7. e \in DataRecords
  BY <1>4, <1>6, Recorded
<1>8. /\ e.deedType = "sale" /\ Fields \subseteq e.answers[Buyer] /\ e.tax # "none"
      /\ e.pan[Buyer] \in {"none", "given"}
  BY <1>3, <1>4 DEF ColumnNames
<1>9. <<"BUYER_PAN">> \in Steps
  BY StepsAlone DEF TaxKinds
<1>10. e.pan[Buyer] = "none" => Fits(<<"BUYER_PAN">>, e)
  BY <1>8, <1>9 DEF Fits, SaleFits, TaxKinds, PersonKinds, Opening, Closing
<1>11. e.pan[Buyer] = "given" => Fits(AfterPan(e), e)
  BY <1>7, <1>8, AfterPanFits
<1>12. Fits(AfterAmount(e), e)
  BY <1>8, <1>10, <1>11 DEF AfterAmount
<1> QED BY <1>5, <1>7, <1>8, <1>12, AskedFits

LEMMA BuyerPanFits ==
  ASSUME data \in DataRecords, Fits(step, data), AnswerBuyerPan
  PROVE  data' \in DataRecords /\ Fits(step', data')
<1>1. step[1] = "BUYER_PAN"
  BY DEF AnswerBuyerPan, Talking
<1>2. PICK pan \in {"given", "blank"} :
        LET e == [data EXCEPT !.pan[Buyer] = pan] IN
        (pan = "blank" => data.tax = "low") /\ Goto(e, AfterPan(e))
  BY DEF AnswerBuyerPan
<1> DEFINE new == [data.pan EXCEPT ![Buyer] = pan]
           e == [data EXCEPT !.pan = new]
<1>3. /\ data.deedType = "sale" /\ Fields \subseteq data.answers[Buyer]
      /\ Whole(data) /\ Buyer \in People /\ data.tax # "none"
      /\ data.pan \in [People -> {"none", "given", "blank"}]
  BY <1>1, AtTax DEF TaxKinds
<1>4. new \in [People -> {"none", "given", "blank"}] /\ new[Buyer] = pan
  BY <1>3
<1>5. Goto(e, AfterPan(e)) /\ (pan = "blank" => data.tax = "low")
  BY <1>2
<1> HIDE DEF new
<1>6. Whole(e) /\ e.pan = new /\ \A c \in ColumnNames \ {"pan"} : e[c] = data[c]
  BY <1>3 DEF Whole, ColumnNames
<1> HIDE DEF e
<1>7. e.pan \in ColumnTypes.pan
  BY <1>4, <1>6 DEF ColumnTypes
<1>8. e \in DataRecords
  BY <1>6, <1>7, Recorded
<1>9. /\ e.deedType = "sale" /\ Fields \subseteq e.answers[Buyer] /\ e.tax # "none"
      /\ e.pan[Buyer] = "given" \/ (e.pan[Buyer] = "blank" /\ e.tax = "low")
  BY <1>3, <1>4, <1>5, <1>6 DEF ColumnNames
<1>10. Fits(AfterPan(e), e)
  BY <1>8, <1>9, AfterPanFits
<1> QED BY <1>5, <1>8, <1>9, <1>10, AskedFits

LEMMA SellerPanFits ==
  ASSUME data \in DataRecords, Fits(step, data), AnswerSellerPan
  PROVE  data' \in DataRecords /\ Fits(step', data')
<1> DEFINE e == [data EXCEPT !.sellerPan = "given"]
<1>1. step[1] = "SELLER_PAN" /\ Goto(e, <<"FINAL">>)
  BY DEF AnswerSellerPan, Talking
<1>2. /\ data.deedType = "sale" /\ Fields \subseteq data.answers[Buyer] /\ Whole(data)
      /\ data.tax = "tds" /\ data.pan[Buyer] = "given"
  BY <1>1, AtTax DEF TaxKinds
<1>3. Whole(e) /\ e.sellerPan = "given" /\ \A c \in ColumnNames \ {"sellerPan"} : e[c] = data[c]
  BY <1>2 DEF Whole, ColumnNames
<1> HIDE DEF e
<1>4. e.sellerPan \in ColumnTypes.sellerPan
  BY <1>3 DEF ColumnTypes
<1>5. e \in DataRecords
  BY <1>3, <1>4, Recorded
<1>6. /\ e.deedType = "sale" /\ Fields \subseteq e.answers[Buyer] /\ e.tax = "tds"
      /\ e.pan[Buyer] = "given" /\ e.sellerPan = "given"
  BY <1>2, <1>3 DEF ColumnNames
<1>7. Fits(AfterPan(e), e)
  BY <1>5, <1>6, AfterPanFits
<1>8. AfterPan(e) = <<"FINAL">>
  BY <1>6 DEF AfterPan
<1> QED BY <1>1, <1>5, <1>6, <1>7, <1>8, AskedFits

-----------------------------------------------------------------------------
(* The registry's day, and the summary.                                    *)
LEMMA ClosingFits ==
  ASSUME NEW d, NEW s, Fits(s, d), s[1] \in Closing, NEW kind \in Closing
  PROVE  Fits(<<kind>>, d)
<1>1. <<kind>> \in Steps
  BY StepsAlone
<1> QED BY <1>1 DEF Fits, SaleFits, MortgageFits, PersonKinds, TaxKinds, PaperKinds, Opening,
    Closing

LEMMA RegistryFits ==
  ASSUME data \in DataRecords, Fits(step, data), AnswerRegistry
  PROVE  data' \in DataRecords /\ Fits(step', data')
<1>1. step[1] \in Closing /\ step' = RegistryNext(data')
  BY DEF AnswerRegistry, Talking, Closing
<1>2. Whole(data) /\ \A c \in ColumnNames : data[c] \in ColumnTypes[c]
  BY RecordsAre
<1>3. /\ Whole(data')
      /\ \A c \in ColumnNames \ {"regDate", "regAlt", "regTime", "geoTag"} : data'[c] = data[c]
      /\ data.regDate \in {"unasked", "unknown", "day"} =>
           data'.regDate \in {"unasked", "unknown", "day"}
      /\ data.regAlt \in {"unasked", "none", "day"} => data'.regAlt \in {"unasked", "none", "day"}
      /\ data.regTime \in {"unasked", "set"} => data'.regTime \in {"unasked", "set"}
      /\ data.geoTag \in BOOLEAN => data'.geoTag \in BOOLEAN
  BY <1>2 DEF AnswerRegistry, Whole, ColumnNames
<1>4. /\ data'.regDate \in ColumnTypes.regDate /\ data'.regAlt \in ColumnTypes.regAlt
      /\ data'.regTime \in ColumnTypes.regTime /\ data'.geoTag \in ColumnTypes.geoTag
  BY <1>2, <1>3 DEF ColumnTypes, ColumnNames
<1>5. data' \in DataRecords
  BY <1>3, <1>4, Recorded
<1>6. SameAnswers(data, data')
  BY <1>3, <1>5 DEF SameAnswers, ColumnNames
<1>7. PICK kind \in Closing : RegistryNext(data') = <<kind>>
  BY DEF RegistryNext, Closing
<1>8. Fits(<<kind>>, data)
  BY <1>1, ClosingFits
<1>9. <<kind>>[1] \notin Opening
  BY DEF Opening, Closing
<1> QED BY <1>1, <1>5, <1>6, <1>7, <1>8, <1>9, StillFits

(* Nothing is missing in a sale that got so far; what a mortgage lacks is  *)
(* asked.                                                                  *)
LEMMA NothingMissing ==
  ASSUME data \in DataRecords, Fits(step, data), Talking("FINAL"), data.deedType = "sale"
  PROVE  Missing(data) = {}
<1>1. Fields \subseteq data.answers[Buyer]
  BY DEF Talking, Fits, SaleFits, Closing
<1>2. Parties(data) = <<Buyer>>
  BY DEF Parties
<1>3. \A n \in DOMAIN Questions(<<Buyer>>) :
        Questions(<<Buyer>>)[n][3] \in data.answers[Questions(<<Buyer>>)[n][2]]
  BY <1>1, BuyersQuestions, FieldsAre DEF Ask
<1> QED BY <1>2, <1>3 DEF Missing, Unanswered

LEMMA SummaryFits ==
  ASSUME data \in DataRecords, Fits(step, data), ConfirmSummary, status' = "ACTIVE"
  PROVE  data' \in DataRecords /\ Fits(step', data')
<1>1. step[1] = "FINAL" /\ data.deedType \in {"sale", "mortgage"} /\ Talking("FINAL")
  BY DEF ConfirmSummary, Talking, Fits, Opening
<1>2. CASE Missing(data) # {}
  <2>1. data.deedType = "mortgage" /\ Parties(data) = MortgagePeople
    BY <1>1, <1>2, NothingMissing DEF Parties
  <2>2. PapersIn(data)
    BY <1>1, <2>1 DEF Fits, MortgageFits, PaperKinds
  <2> DEFINE T == Missing(data)
             s == Questions(MortgagePeople)[Min(T)]
  <2>3. T \in SUBSET Unanswered(data, Questions(MortgagePeople)) /\ T # {}
    BY <1>2, <2>1 DEF Missing
  <2>4. Goto(data, s)
    BY <1>2, <2>1 DEF ConfirmSummary
  <2> HIDE DEF T
  <2>5. Fits(s, data)
    BY <2>1, <2>2, <2>3, MortgageAsks
  <2> HIDE DEF s
  <2> QED BY <1>1, <2>4, <2>5, AskedFits
<1>3. CASE Missing(data) = {}
  <2>1. Goto(data, <<"FINAL">>)
    BY <1>3 DEF ConfirmSummary
  <2>2. Fits(<<"FINAL">>, data)
    BY <1>1, ClosingFits DEF Closing
  <2> QED BY <1>1, <2>1, <2>2, AskedFits
<1> QED BY <1>2, <1>3

(* A yes hands in what is complete.                                        *)
LEMMA SummarySubmits ==
  ASSUME data \in DataRecords, Fits(step, data), ConfirmSummary, status' # "ACTIVE"
  PROVE  SubmittedComplete' /\ data' = data /\ step' = step
<1>1. Talking("FINAL") /\ step[1] = "FINAL" /\ status = "ACTIVE"
  BY DEF ConfirmSummary, Talking
<1>2. Missing(data) = {} /\ RegistryNext(data) = <<"FINAL">> /\ UNCHANGED <<step, data>>
  BY <1>1 DEF ConfirmSummary
<1>3. CASE data.deedType = "sale"
  <2>1. Fields \subseteq data.answers[Buyer] /\ TaxSettled(data)
    BY <1>1, <1>3 DEF Fits, SaleFits, Closing
  <2>2. PartySet(data) = {Buyer}
    <3>1. Parties(data) = <<Buyer>>
      BY <1>3 DEF Parties
    <3> QED BY <3>1 DEF PartySet
  <2> QED BY <1>2, <1>3, <2>1, <2>2 DEF SubmittedComplete, PartySet, Parties,
       RegistryNext, TaxSettled, RequiredFields
<1>4. CASE data.deedType = "mortgage"
  <2>1. PapersIn(data)
    BY <1>1, <1>4 DEF Fits, MortgageFits, Closing, PaperKinds
  <2>2. \A p \in PartySet(data) : RequiredFields \subseteq data.answers[p]
    <3>1. Parties(data) = MortgagePeople
      BY <1>4 DEF Parties
    <3>2. ASSUME NEW i \in DOMAIN MortgagePeople, NEW f \in RequiredFields
          PROVE  f \in data.answers[MortgagePeople[i]]
      <4>1. f \in Fields
        BY DEF RequiredFields
      <4>2. PICK n \in DOMAIN Questions(MortgagePeople) :
              Questions(MortgagePeople)[n] = Ask(MortgagePeople[i], f)
        BY <4>1, QuestionsAre, PeopleAre
      <4>3. n \notin Unanswered(data, Questions(MortgagePeople))
        BY <1>2, <3>1, <4>2 DEF Missing, Ask
      <4> QED BY <4>2, <4>3 DEF Unanswered, Ask
    <3> QED BY <3>1, <3>2 DEF PartySet
  <2> QED BY <1>2, <1>4, <2>1, <2>2 DEF SubmittedComplete, PapersIn, PartySet, Parties, RegistryNext
<1>5. data.deedType \in {"sale", "mortgage"}
  BY <1>1 DEF Fits, Opening
<1> QED BY <1>2, <1>3, <1>4, <1>5

LEMMA EditFits ==
  ASSUME data \in DataRecords, Fits(step, data), EditSummary
  PROVE  data' \in DataRecords /\ Fits(step', data')
<1> DEFINE e == KeptOnEdit(data)
           p == IF data.deedType = "mortgage" THEN Mortgagor ELSE Buyer
           kept == {"deedType", "docs", "owner", "photos", "idFiles", "idDone", "unreadable",
                    "reuse", "regDate", "regAlt", "regTime", "geoTag"}
<1>1. step[1] = "FINAL" /\ data.deedType \in {"sale", "mortgage"} /\ Goto(e, Ask(p, "Name"))
  BY DEF EditSummary, Talking, Fits, Opening
<1>2. /\ Whole(e) /\ \A c \in kept : e[c] = data[c]
      /\ \A c \in ColumnNames \ kept : e[c] = NoData[c]
  <2>1. Whole(NoData) /\ Whole(data)
    BY NothingRecorded, RecordsAre
  <2>2. Whole(e)
    BY <2>1 DEF KeptOnEdit, Whole, ColumnNames
  <2>3. \A c \in kept : e[c] = data[c]
    BY <2>1 DEF KeptOnEdit, Whole, ColumnNames
  <2>4. \A c \in ColumnNames \ kept : e[c] = NoData[c]
    BY <2>1 DEF KeptOnEdit, Whole, ColumnNames
  <2> QED BY <2>2, <2>3, <2>4
<1>3. e.answers = NoData.answers /\ e.pan = NoData.pan /\ e.deedType = data.deedType
      /\ e.docs = data.docs /\ e.owner = data.owner
  BY <1>2 DEF ColumnNames
<1>4. \A c \in ColumnNames : e[c] = data[c] \/ e[c] \in ColumnTypes[c]
  BY <1>2, NothingRecorded, RecordsAre
<1> HIDE DEF e, kept
<1>5. e \in DataRecords
  BY <1>2, <1>4, Recorded
<1>6. p \in People
  BY PeopleAre
<1>7. e.answers[p] = {} /\ e.pan[p] = "none"
  BY <1>3, <1>6 DEF NoData
<1>8. Ready(e, p)
  BY <1>1, <1>3, <1>5, <1>6, <1>7 DEF Ready, Fits, MortgageFits, PapersIn, PaperKinds
<1> HIDE DEF p
<1>9. Fits(Ask(p, "Name"), e)
  BY <1>7, <1>8, NameFits
<1> QED BY <1>1, <1>3, <1>5, <1>9, AskedFits

LEMMA ConversingStarts == IntakeInit => Conversing
<1> SUFFICES ASSUME IntakeInit PROVE Conversing
  OBVIOUS
<1>1. <<"none">> \in Steps
  BY StepsAlone
<1>2. IntakeTypeOK
  BY <1>1, NothingRecorded DEF IntakeInit, IntakeTypeOK, Papers
<1> QED BY <1>2 DEF IntakeInit, Conversing, SubmittedComplete

(* While the conversation goes on, the next question fits as well.         *)
LEMMA NextFits ==
  ASSUME IntakeTypeOK, Fits(step, data), IntakeNext, status = "ACTIVE", status' = "ACTIVE"
  PROVE  data' \in DataRecords /\ Fits(step', data')
<1>1. data \in DataRecords /\ earlier \in EarlierRequests
  BY DEF IntakeTypeOK
<1>2. ~ FirstDocument /\ ~ End
  BY DEF FirstDocument, End
<1>3. CASE ChooseDeed
  <2>1. PICK deed \in {"sale", "mortgage", "other"} : StartDeed(data, deed)
    BY <1>3 DEF ChooseDeed
  <2>2. data = NoData
    BY <1>3 DEF ChooseDeed, Fits
  <2> QED BY <2>1, <2>2, DeedFits
<1>4. CASE AskAgainWhich
  <2>1. data' = data /\ step[1] \in Opening /\ step' \in {<<"CHOOSE">>, <<"OTHER_DESC">>}
    BY <1>4 DEF AskAgainWhich, Talking, Opening
  <2>2. data = NoData
    BY <2>1 DEF Fits
  <2>3. step' \in Steps /\ step'[1] \in Opening
    BY <2>1, StepsAlone DEF Opening
  <2> QED BY <1>1, <2>1, <2>2, <2>3 DEF Fits, NoData, Opening
<1>5. CASE ChangeDeed
  BY <1>5, DeedFits DEF ChangeDeed, StartDeed
<1>6. CASE AnswerPlot \/ NameFirstDoc \/ DocLater \/ ReceiveDoc \/ AnswerOwner
  BY <1>1, <1>6, PlotFits, PaperActionsFit
<1>7. CASE DeclineReuse \/ EarlierGone \/ AcceptReuse \/ CheckReused
  BY <1>1, <1>7, ReuseDeclined, ReuseAccepted, ReuseChecked
<1>8. CASE PhotoRead \/ PhotoUnread \/ PhotoLater \/ PhotoAgain \/ ConfirmCard
  BY <1>1, <1>8, ReadFits, UnreadFits, LaterFits, AgainFits, CardFits
<1>9. CASE AnswerField \/ NoEmail \/ AnswerAmount \/ AnswerBuyerPan \/ AnswerSellerPan
  BY <1>1, <1>9, AnswerFits, NoEmailFits, AmountFits, BuyerPanFits, SellerPanFits
<1>10. CASE AnswerRegistry \/ ConfirmSummary \/ EditSummary
  BY <1>1, <1>10, RegistryFits, SummaryFits, EditFits
<1> QED BY <1>2, <1>3, <1>4, <1>5, <1>6, <1>7, <1>8, <1>9, <1>10 DEF IntakeNext

LEMMA FlagTyped ==
  ASSUME NEW condition, Flag(condition)
  PROVE  needsStaff' \in BOOLEAN
  BY DEF Flag

(* What else a message changes keeps its type.                             *)
LEMMA RestTyped ==
  ASSUME IntakeTypeOK, IntakeNext, status = "ACTIVE" => Fits(step, data)
  PROVE  /\ status' \in {"none", "ACTIVE", "SUBMITTED", "over"} /\ paper' \in Papers
         /\ needsStaff' \in BOOLEAN /\ earlier' \in EarlierRequests /\ stored' \subseteq People
<1> USE DEF IntakeTypeOK
<1>1. ASSUME NEW d, StartSale(d) \/ (\E hint \in BOOLEAN : StartMortgage(d, hint)) \/ StartOther(d)
      PROVE  /\ status' \in {status, "SUBMITTED"} /\ needsStaff' \in BOOLEAN
             /\ UNCHANGED <<paper, earlier, stored>>
  <2>1. CASE StartSale(d)
    BY <2>1, FlagTyped DEF StartSale, Same
  <2>2. CASE \E hint \in BOOLEAN : StartMortgage(d, hint)
    BY <2>2 DEF StartMortgage, Same
  <2>3. CASE StartOther(d)
    BY <2>3 DEF StartOther
  <2> QED BY <1>1, <2>1, <2>2, <2>3
<1>2. CASE FirstDocument \/ End
  BY <1>2 DEF FirstDocument, End
<1>3. CASE ChooseDeed \/ ChangeDeed
  <2>1. \E d : StartSale(d) \/ (\E hint \in BOOLEAN : StartMortgage(d, hint)) \/ StartOther(d)
    BY <1>3 DEF ChooseDeed, ChangeDeed, StartDeed
  <2> QED BY <1>1, <2>1
<1>4. CASE AskAgainWhich \/ DeclineReuse \/ AcceptReuse \/ CheckReused \/ ConfirmCard
           \/ AnswerField \/ NoEmail \/ AnswerBuyerPan \/ AnswerSellerPan \/ AnswerRegistry
           \/ EditSummary \/ PhotoLater
  BY <1>4 DEF AskAgainWhich, DeclineReuse, AcceptReuse, CheckReused, ConfirmCard, AnswerField,
       NoEmail, AnswerBuyerPan, AnswerSellerPan, AnswerRegistry, EditSummary, PhotoLater, Same
<1>5. CASE AnswerPlot \/ NameFirstDoc \/ DocLater \/ AnswerOwner \/ AnswerAmount
  <2>1. \E condition : Flag(condition)
    BY <1>5 DEF AnswerPlot, NameFirstDoc, DocLater, AnswerOwner, AnswerAmount
  <2>2. UNCHANGED <<status, paper, earlier, stored>>
    BY <1>5 DEF AnswerPlot, NameFirstDoc, DocLater, AnswerOwner, AnswerAmount, Same
  <2> QED BY <2>1, <2>2, FlagTyped
<1>6. CASE ReceiveDoc
  BY <1>6, FlagTyped DEF ReceiveDoc
<1>7. CASE EarlierGone
  <2>1. earlier' = [earlier EXCEPT !.fields = {}] /\ UNCHANGED <<status, paper, needsStaff, stored>>
    BY <1>7 DEF EarlierGone
  <2> QED BY <2>1 DEF EarlierRequests
<1>8. CASE PhotoRead \/ PhotoUnread \/ PhotoAgain
  <2>1. step[2] \in People
    BY <1>8, StepAbout DEF PhotoRead, PhotoUnread, PhotoAgain, Talking
  <2>2. stored' = stored \union {step[2]} /\ needsStaff' \in {needsStaff, TRUE}
        /\ UNCHANGED <<status, paper, earlier>>
    BY <1>8 DEF PhotoRead, PhotoUnread, PhotoAgain, KeepFile
  <2> QED BY <2>1, <2>2
<1>9. CASE ConfirmSummary
  BY <1>9, FlagTyped DEF ConfirmSummary
<1> QED BY <1>2, <1>3, <1>4, <1>5, <1>6, <1>7, <1>8, <1>9 DEF IntakeNext

(* What ends the conversation.                                             *)
LEMMA EndFits ==
  ASSUME IntakeTypeOK, Fits(step, data), IntakeNext, status = "ACTIVE", status' # "ACTIVE"
  PROVE  step' \in Steps /\ data' \in DataRecords /\ SubmittedComplete' /\ status' # "none"
<1>1. ~ Same
  BY DEF Same
<1>2. \/ FirstDocument \/ ChooseDeed \/ ChangeDeed \/ ReceiveDoc \/ EarlierGone
      \/ PhotoRead \/ PhotoUnread \/ PhotoAgain \/ ConfirmSummary \/ End
  BY <1>1 DEF IntakeNext, AskAgainWhich, DeclineReuse, AcceptReuse, CheckReused, ConfirmCard,
       AnswerField, NoEmail, AnswerBuyerPan, AnswerSellerPan, AnswerRegistry, EditSummary,
       PhotoLater, AnswerPlot, NameFirstDoc, DocLater, AnswerOwner, AnswerAmount
<1>3. ChooseDeed \/ ChangeDeed \/ ConfirmSummary \/ End
  BY <1>2 DEF FirstDocument, ReceiveDoc, EarlierGone, PhotoRead, PhotoUnread, PhotoAgain
<1>4. ASSUME NEW d \in DataRecords, StartOther(d)
      PROVE  step' \in Steps /\ data' \in DataRecords /\ SubmittedComplete' /\ status' # "none"
  <2> DEFINE e == [d EXCEPT !.deedType = "other"]
  <2>1. step' = <<"FINAL">> /\ data' = e /\ status' = "SUBMITTED"
    BY <1>4 DEF StartOther
  <2>2. Whole(e) /\ e.deedType = "other" /\ \A c \in ColumnNames \ {"deedType"} : e[c] = d[c]
    BY Typed DEF Whole, ColumnNames
  <2> HIDE DEF e
  <2>3. e.deedType \in ColumnTypes.deedType
    BY <2>2 DEF ColumnTypes
  <2>4. e \in DataRecords
    BY <2>2, <2>3, Recorded
  <2>5. <<"FINAL">> \in Steps
    BY StepsAlone DEF Closing
  <2> QED BY <2>1, <2>2, <2>4, <2>5 DEF SubmittedComplete
<1>5. CASE ChooseDeed \/ ChangeDeed
  <2>1. StartOther(data) \/ StartOther(NoData)
    BY <1>1, <1>5 DEF ChooseDeed, ChangeDeed, StartDeed, StartSale, StartMortgage
  <2> QED BY <1>4, <2>1, NothingRecorded DEF IntakeTypeOK
<1>6. CASE ConfirmSummary
  <2>1. SubmittedComplete' /\ data' = data /\ step' = step
    BY <1>6, SummarySubmits DEF IntakeTypeOK
  <2>2. status' # "none"
    BY <1>6 DEF ConfirmSummary
  <2> QED BY <2>1, <2>2 DEF IntakeTypeOK
<1>7. CASE End
  BY <1>7 DEF End, SubmittedComplete, IntakeTypeOK
<1> QED BY <1>3, <1>5, <1>6, <1>7

LEMMA ConversingKept == Conversing /\ [IntakeNext]_intakeVars => Conversing'
<1> SUFFICES ASSUME Conversing, [IntakeNext]_intakeVars PROVE Conversing'
  OBVIOUS
<1>1. CASE UNCHANGED intakeVars
  BY <1>1 DEF intakeVars, Conversing, IntakeTypeOK, SubmittedComplete, PartySet, Parties, Fits,
       SaleFits, MortgageFits, TaxSettled, PapersIn, RegistryNext
<1>2. CASE IntakeNext
  <2>1. /\ status' \in {"none", "ACTIVE", "SUBMITTED", "over"} /\ paper' \in Papers
        /\ needsStaff' \in BOOLEAN /\ earlier' \in EarlierRequests /\ stored' \subseteq People
    BY <1>2, RestTyped DEF Conversing
  <2>2. CASE status = "none"
    <3>1. FirstDocument
      BY <1>2, <2>2 DEF IntakeNext, ChooseDeed, AskAgainWhich, ChangeDeed, AnswerPlot,
           NameFirstDoc, DocLater, ReceiveDoc, AnswerOwner, DeclineReuse, EarlierGone,
           AcceptReuse, CheckReused, PhotoRead, PhotoUnread, PhotoLater, PhotoAgain, ConfirmCard,
           AnswerField, NoEmail, AnswerAmount, AnswerBuyerPan, AnswerSellerPan, AnswerRegistry,
           ConfirmSummary, EditSummary, End, Talking
    <3>2. step' \in {<<"CONFIRM">>, <<"CHOOSE">>} /\ data' = NoData /\ status' = "ACTIVE"
      BY <2>2, <3>1 DEF FirstDocument, Conversing
    <3>3. step' \in Steps /\ step'[1] \in Opening
      BY <3>2, StepsAlone DEF Opening
    <3>4. Fits(step', data')
      BY <3>2, <3>3 DEF Fits, NoData, Opening
    <3> QED BY <2>1, <3>2, <3>3, <3>4, NothingRecorded
         DEF Conversing, IntakeTypeOK, SubmittedComplete
  <2>3. CASE status = "ACTIVE" /\ status' = "ACTIVE"
    <3>1. data' \in DataRecords /\ Fits(step', data')
      BY <1>2, <2>3, NextFits DEF Conversing
    <3>2. step' \in Steps
      BY <3>1 DEF Fits
    <3> QED BY <2>1, <2>3, <3>1, <3>2 DEF Conversing, IntakeTypeOK, SubmittedComplete
  <2>4. CASE status = "ACTIVE" /\ status' # "ACTIVE"
    <3>1. step' \in Steps /\ data' \in DataRecords /\ SubmittedComplete' /\ status' # "none"
      BY <1>2, <2>4, EndFits DEF Conversing
    <3> QED BY <2>1, <2>4, <3>1 DEF Conversing, IntakeTypeOK
  <2>5. status \in {"none", "ACTIVE"}
    BY <1>2 DEF IntakeNext, FirstDocument, ChooseDeed, AskAgainWhich, ChangeDeed, AnswerPlot,
         NameFirstDoc, DocLater, ReceiveDoc, AnswerOwner, DeclineReuse, EarlierGone,
         AcceptReuse, CheckReused, PhotoRead, PhotoUnread, PhotoLater, PhotoAgain, ConfirmCard,
         AnswerField, NoEmail, AnswerAmount, AnswerBuyerPan, AnswerSellerPan, AnswerRegistry,
         ConfirmSummary, EditSummary, End, Talking
  <2> QED BY <2>2, <2>3, <2>4, <2>5
<1> QED BY <1>1, <1>2

LEMMA ConversingAlways == IntakeSpec => []Conversing
  BY ConversingStarts, ConversingKept, PTL DEF IntakeSpec

(* The columns of a request keep their types, and the conversation is      *)
(* always at one of the questions of draft-intake, about a person, a paper *)
(* or a photo that its deed asks for.                                      *)
THEOREM IntakeTypesCorrect == IntakeSpec => []IntakeTypeOK
<1>1. Conversing => IntakeTypeOK
  BY DEF Conversing
<1> QED BY <1>1, ConversingAlways, PTL

(* confirmSummary hands in nothing that lacks an answer: however the        *)
(* customer got to the summary (photos read, an earlier request reused, a   *)
(* deed changed, a summary edited), every field the portal requires of      *)
(* every person, the tax details and the papers of the deed are there.      *)
THEOREM RequestsComplete == IntakeSpec => []SubmittedComplete
<1>1. Conversing => SubmittedComplete
  BY DEF Conversing
<1> QED BY <1>1, ConversingAlways, PTL

(* advance, afterId and mortgageNext skip what is known: a question about a *)
(* person is never put while its answer is there, whoever gave it.          *)
THEOREM AskedOnlyOnce == IntakeSpec => []AskedOnce
<1>1. Conversing => AskedOnce
  BY DEF Conversing, AskedOnce, Fits
<1> QED BY <1>1, ConversingAlways, PTL

-----------------------------------------------------------------------------
(* The run explores pipeline and conversation by one specification         *)
(* (MCIntake).                                                             *)

(* What the run explores is what the theorems are about: the pipeline and  *)
(* the conversation each behave as their own specifications say, whichever *)
(* of them moves.                                                          *)
THEOREM RequestPartsImplemented == RequestSpec => Spec /\ IntakeSpec
<1>1. RequestInit => Init /\ IntakeInit
  BY DEF RequestInit
<1>2. [RequestNext]_requestVars => [Next]_vars /\ [IntakeNext]_intakeVars
  BY DEF RequestNext, requestVars
<1> QED BY <1>1, <1>2, PTL DEF RequestSpec, Spec, IntakeSpec
=============================================================================
