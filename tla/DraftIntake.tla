----------------------------- MODULE DraftIntake -----------------------------
(***************************************************************************)
(* The conversation that turns a customer's paper into a draft request     *)
(* (draft-intake.service, with registry-flow): which question comes next,  *)
(* what an answer or a photo fills, when staff must look, when the request *)
(* is submitted. One message of the customer is one step: the lane of a    *)
(* number handles them one by one (WaInbound has the cases where not).     *)
(***************************************************************************)
EXTENDS Naturals, Sequences, SequencesExt

CONSTANTS
  Buyer,           \* the person a sale deed asks about
  MortgagePeople,  \* the people a mortgage deed asks about, in order
  PhotoKinds       \* person -> the photos asked of them, in order

Mortgagors == {MortgagePeople[i] : i \in DOMAIN MortgagePeople}
People == {Buyer} \union Mortgagors
KindsOf(p) == {PhotoKinds[p][i] : i \in DOMAIN PhotoKinds[p]}
Kinds == UNION {KindsOf(p) : p \in People}
Mortgagor == MortgagePeople[1]
ReuseParties == {Buyer, Mortgagor}

(* A person is asked about once: the buyer is no mortgagor. *)
ASSUME IntakeAssumption ==
  /\ MortgagePeople \in Seq(Mortgagors) /\ MortgagePeople # <<>>
  /\ PhotoKinds \in [People -> Seq({"aadhaarFront", "aadhaarBack", "pan", "passportPhoto"})]

(* personSteps, the questions about one person, in order.                  *)
FieldOrder ==
  <<"Name", "Relation", "FatherName", "MotherName", "Aadhaar", "Mobile", "Email", "Address">>
Fields == {FieldOrder[i] : i \in DOMAIN FieldOrder}
RequiredFields == Fields \ {"Relation"}     \* SAMPADA_REQUIRED_PARTY_FIELDS
CheckOrder == Append(FieldOrder, "Pan")     \* REUSE_CHECK_FIELDS

(* What the reader made of a paper; a bare deed is a sale deed whose       *)
(* property it could not make out.                                         *)
Papers == {"plotDeed", "houseDeed", "bareDeed", "sanctionLetter", "unclear", "unreadable"}
WithProperty == {"plotDeed", "houseDeed"}
SaleDeeds == WithProperty \union {"bareDeed"}
Docs == {"sanction", "registry", "transfer"}

VARIABLES
  status,      \* none, ACTIVE, SUBMITTED, or over (cancelled, or silent for 48 hours)
  step,        \* the question that waits for an answer, <<kind, ...>>
  data,        \* DraftIntake.data
  paper,       \* DraftIntake.deed: what the reader made of the property's paper
  needsStaff,
  earlier,     \* the customer's last submitted request
  stored       \* the people with ID photos in the bucket

intakeVars == <<status, step, data, paper, needsStaff, earlier, stored>>

-----------------------------------------------------------------------------

NoData ==
  [deedType |-> "none", docs |-> [r \in Docs |-> "none"], owner |-> "none",
   answers |-> [p \in People |-> {}], pan |-> [p \in People |-> "none"],
   sellerPan |-> "none", tax |-> "none",
   photos |-> [p \in People |-> [k \in Kinds |-> "none"]],
   aadhaarRead |-> [p \in People |-> {}], panRead |-> [p \in People |-> FALSE],
   confirmed |-> [p \in People |-> {}], unreadable |-> {}, idDone |-> {},
   idFiles |-> {}, reuse |-> [p \in ReuseParties |-> "unasked"],
   regDate |-> "unasked", regAlt |-> "unasked", regTime |-> "unasked", geoTag |-> FALSE]

DataRecords ==
  [deedType : {"none", "sale", "mortgage", "other"},
   docs : [Docs -> {"none", "file", "later"}], owner : {"none", "yes", "no", "unknown"},
   answers : [People -> SUBSET Fields], pan : [People -> {"none", "given", "blank"}],
   sellerPan : {"none", "given"}, tax : {"none", "low", "pan", "tds"},
   photos : [People -> [Kinds -> {"none", "tried", "file", "later"}]],
   aadhaarRead : [People -> SUBSET {"Name", "Aadhaar", "Address"}],
   panRead : [People -> BOOLEAN], confirmed : [People -> SUBSET {"aadhaar", "pan"}],
   unreadable : SUBSET People, idDone : SUBSET People,
   idFiles : SUBSET People,
   reuse : [ReuseParties -> {"unasked", "none", "offered", "declined", "used"}],
   regDate : {"unasked", "unknown", "day"}, regAlt : {"unasked", "none", "day"},
   regTime : {"unasked", "set"}, geoTag : BOOLEAN]

(* What copyParty finds: a request from before the e-mail was asked for    *)
(* lacks it; one that is older than a year is confirmed field by field.    *)
EarlierRequests ==
  [old : BOOLEAN, fields : {{}, (Fields \ {"Email"}) \union {"Pan"}}]
HasEarlier == earlier.fields # {}

Ask(p, f) == <<"ask", p, f>>

(* The questions a conversation can be at, and none.                       *)
Opening == {"CONFIRM", "CHOOSE", "OTHER_DESC"}
Closing == {"FINAL", "REG_DATE", "REG_ALT", "REG_TIME", "GEOTAG"}
Steps ==
  {<<kind>> : kind \in {"none", "M_FIRST_DOC", "M_OWNER", "AMOUNT", "BUYER_PAN", "SELLER_PAN"}
                        \union Opening \union Closing}
  \union ({"plot"} \X {"PLOT_BUILDING", "PLOT_CORNER", "PLOT_BOUNDARY"})
  \union ({"doc"} \X Docs)
  \union ({"ask"} \X People \X Fields)
  \union ({"reuse"} \X ReuseParties)
  \union ({"check"} \X ReuseParties \X (Fields \union {"Pan"}))
  \union ({"photo"} \X People \X Kinds)
  \union ({"idOk"} \X People \X {"aadhaar", "pan"})

IntakeInit ==
  /\ status = "none"
  /\ step = <<"none">>
  /\ data = NoData
  /\ paper = "unreadable"
  /\ needsStaff = FALSE
  /\ earlier \in EarlierRequests /\ (earlier.fields = {} => ~earlier.old)
  /\ stored = {}

-----------------------------------------------------------------------------
(* Which question comes next.                                              *)

(* partyPrefixes *)
Parties(d) ==
  CASE d.deedType = "mortgage" -> MortgagePeople
    [] d.deedType = "other" -> <<>>
    [] OTHER -> <<Buyer>>

(* One person after the other, each in the order of the fields.            *)
Questions(people) ==
  [n \in 1..(Len(people) * Len(FieldOrder)) |->
     Ask(people[((n - 1) \div Len(FieldOrder)) + 1], FieldOrder[((n - 1) % Len(FieldOrder)) + 1])]

(* The places of those without an answer.                                  *)
Unanswered(d, questions) ==
  {n \in DOMAIN questions : questions[n][3] \notin d.answers[questions[n][2]]}

AfterPan(d) ==
  IF d.tax = "tds" /\ d.sellerPan = "none" THEN <<"SELLER_PAN">> ELSE <<"FINAL">>

(* Faulty variant: the buyer's PAN is a question for large sums only. *)
PanForTds(d) ==
  IF d.pan[Buyer] = "none" /\ d.tax # "pan" THEN <<"BUYER_PAN">> ELSE AfterPan(d)

AfterAmount(d) == IF d.pan[Buyer] = "none" THEN <<"BUYER_PAN">> ELSE AfterPan(d)

(* Faulty variant: the next question, answered already or not. *)
NoSkip(d, from) ==
  LET all == Questions(Parties(d))
      later == {i \in DOMAIN all : i > 1 /\ all[i - 1] = from} IN
  IF later # {} THEN all[CHOOSE i \in later : TRUE]
  ELSE IF d.deedType = "mortgage" THEN <<"FINAL">> ELSE <<"AMOUNT">>

(* advance: the question after "from" that has no answer yet. *)
Advance(d, from) ==
  LET all == Questions(Parties(d))
      rest == {n \in Unanswered(d, all) : \E i \in 1..(n - 1) : all[i] = from} IN
  IF rest # {} THEN all[Min(rest)]
  ELSE IF d.deedType = "mortgage" THEN <<"FINAL">> ELSE <<"AMOUNT">>

(* mortgageNext: missing papers, the owner, the people.                    *)
MortgageNext(d) ==
  LET all == Questions(MortgagePeople)
      rest == Unanswered(d, all) IN
  CASE d.docs["sanction"] = "none" -> <<"doc", "sanction">>
    [] d.docs["sanction"] # "none" /\ d.docs["registry"] = "none" -> <<"doc", "registry">>
    [] d.docs["sanction"] # "none" /\ d.docs["registry"] # "none" /\ d.owner = "none" -> <<"M_OWNER">>
    [] d.docs["sanction"] # "none" /\ d.docs["registry"] # "none"
         /\ d.owner = "no" /\ d.docs["transfer"] = "none" -> <<"doc", "transfer">>
    [] OTHER -> IF rest # {} THEN all[Min(rest)] ELSE <<"FINAL">>

(* registryNext *)
RegistryNext(d) ==
  CASE d.regDate = "unasked" -> <<"REG_DATE">>
    [] d.regDate = "day" /\ d.regAlt = "unasked" -> <<"REG_ALT">>
    [] d.regDate = "day" /\ d.regAlt # "unasked" /\ d.regTime = "unasked" -> <<"REG_TIME">>
    [] OTHER -> IF d.geoTag THEN <<"FINAL">> ELSE <<"GEOTAG">>

LastAadhaar(p, k) ==
  /\ k \in {"aadhaarFront", "aadhaarBack"}
  /\ k = "aadhaarFront" => "aadhaarBack" \notin KindsOf(p)

(* idNext: photos in order, a card that was read is shown before the next. *)
ToShow(d, p, k) ==
  {card \in {"aadhaar", "pan"} \ d.confirmed[p] :
     \/ card = "aadhaar" /\ LastAadhaar(p, k) /\ d.aadhaarRead[p] # {}
     \/ card = "pan" /\ k = "pan" /\ d.panRead[p]}

StepsFor(d, p, k) ==
  IF d.photos[p][k] \in {"none", "tried"} THEN {<<"photo", p, k>>}
  ELSE {<<"idOk", p, card>> : card \in ToShow(d, p, k)}

PhotosLeft(d, p) == {i \in DOMAIN PhotoKinds[p] : StepsFor(d, p, PhotoKinds[p][i]) # {}}
PhotoStep(d, p) == CHOOSE s \in StepsFor(d, p, PhotoKinds[p][Min(PhotosLeft(d, p))]) : TRUE

(* afterId *)
AfterId(d, p) ==
  IF "Name" \notin d.answers[p] THEN Ask(p, "Name") ELSE Advance(d, Ask(p, "Name"))

(* nextReuseCheck among the fields that were copied. *)
ReuseChecks(d, p, from) ==
  {i \in from..Len(CheckOrder) :
     IF CheckOrder[i] = "Pan" THEN d.pan[p] = "given" ELSE CheckOrder[i] \in d.answers[p]}

CheckIndex(f) == CHOOSE i \in DOMAIN CheckOrder : CheckOrder[i] = f

-----------------------------------------------------------------------------
(* goto: before a person's first question comes the offer to reuse what an *)
(* earlier request knew, or the photos; before the summary, the registry.  *)

Person(s) == IF s[1] = "ask" /\ s[3] = "Name" THEN {s[2]} ELSE {}

WithOffer(d, s) ==
  LET new == {p \in Person(s) \intersect ReuseParties : p \notin d.idDone /\ d.reuse[p] = "unasked"} IN
  [d EXCEPT !.reuse = [p \in ReuseParties |->
     IF p \notin new THEN @[p] ELSE IF HasEarlier THEN "offered" ELSE "none"]]

Offers(d, s) ==
  HasEarlier /\ \E p \in Person(s) \intersect ReuseParties :
                  p \notin d.idDone /\ d.reuse[p] = "unasked"

Goto(d, s) ==
  IF s = <<"FINAL">> THEN data' = d /\ step' = RegistryNext(d)
  ELSE IF Offers(d, s) THEN data' = WithOffer(d, s) /\ step' = <<"reuse", s[2]>>
  ELSE LET known == WithOffer(d, s)
           todo == {p \in Person(s) : p \notin d.idDone} IN
       IF todo # {} /\ PhotosLeft(known, s[2]) # {}
         THEN data' = known /\ step' = PhotoStep(known, s[2])
         ELSE data' = [known EXCEPT !.idDone = @ \union todo] /\ step' = s

Talking(kind) == status = "ACTIVE" /\ step[1] = kind
Same == UNCHANGED <<status, paper, earlier, stored>>
Flag(condition) == needsStaff' = (needsStaff \/ condition)

-----------------------------------------------------------------------------
(* handleDocument, without a conversation.                                 *)
FirstDocument ==
  /\ status = "none"
  /\ \E read \in Papers :
       /\ paper' = read
       /\ step' = IF read \in WithProperty THEN <<"CONFIRM">> ELSE <<"CHOOSE">>
       /\ needsStaff' = (read = "unreadable")
  /\ status' = "ACTIVE"
  /\ UNCHANGED <<data, earlier, stored>>

(* startDeed; "hint": the customer spoke of a sanction letter.             *)
PaperIs(role, hint) ==
  CASE paper \in SaleDeeds /\ ~hint -> role = "registry"
    [] OTHER -> role = "sanction" /\ (paper = "sanctionLetter" \/ hint)

StartSale(d) ==
  /\ Same
  /\ Flag(paper \notin SaleDeeds)
  /\ Goto([d EXCEPT !.deedType = "sale"],
          IF paper = "plotDeed" THEN <<"plot", "PLOT_BUILDING">> ELSE Ask(Buyer, "Name"))

StartMortgage(d, hint) ==
  LET known == [d EXCEPT !.deedType = "mortgage",
                         !.docs = [r \in Docs |-> IF PaperIs(r, hint) THEN "file" ELSE @[r]]] IN
  /\ Same
  /\ UNCHANGED needsStaff
  /\ Goto(known, IF \E r \in Docs : PaperIs(r, hint) THEN MortgageNext(known) ELSE <<"M_FIRST_DOC">>)

StartOther(d) ==
  /\ data' = [d EXCEPT !.deedType = "other"]
  /\ step' = <<"FINAL">>
  /\ status' = "SUBMITTED"
  /\ needsStaff' = TRUE
  /\ UNCHANGED <<paper, earlier, stored>>

StartDeed(d, deed) ==
  \/ deed = "sale" /\ StartSale(d)
  \/ deed = "mortgage" /\ \E hint \in BOOLEAN : StartMortgage(d, hint)
  \/ deed = "other" /\ StartOther(d)

ChooseDeed ==
  /\ status = "ACTIVE" /\ step[1] \in Opening
  /\ \E deed \in {"sale", "mortgage", "other"} :
       /\ step[1] = "OTHER_DESC" => deed = "other"
       /\ StartDeed(data, deed)

AskAgainWhich ==
  /\ \/ Talking("CONFIRM") /\ step' = <<"CHOOSE">>
     \/ Talking("CHOOSE") /\ step' = <<"OTHER_DESC">>
  /\ Same /\ UNCHANGED <<data, needsStaff>>

(* smart: another deed than the one begun, before anybody was named. The   *)
(* new one starts from the documents alone.                                *)
ChoiceSteps == {"CONFIRM", "CHOOSE", "plot", "M_FIRST_DOC", "doc", "M_OWNER", "FINAL", "reuse", "idOk"}

ChangeDeed ==
  /\ status = "ACTIVE" /\ step[1] \in ChoiceSteps
  /\ \A i \in DOMAIN Parties(data) : "Name" \notin data.answers[Parties(data)[i]]
  /\ \E deed \in {"sale", "mortgage", "other"} \ {data.deedType} :
       \/ deed = "other" /\ StartOther(NoData)
       \/ deed = "sale" /\ StartSale(NoData)
       \/ deed = "mortgage" /\ \E hint \in BOOLEAN : StartMortgage(NoData, hint)

-----------------------------------------------------------------------------
(* Plot questions; a building, or not knowing, is for the staff.           *)
AnswerPlot ==
  /\ Talking("plot")
  /\ Same
  /\ \E none \in BOOLEAN : Flag(step[2] = "PLOT_BUILDING" /\ ~none)
  /\ Goto(data, CASE step[2] = "PLOT_BUILDING" -> <<"plot", "PLOT_CORNER">>
                  [] step[2] = "PLOT_CORNER" -> <<"plot", "PLOT_BOUNDARY">>
                  [] OTHER -> Ask(Buyer, "Name"))

(* Papers of a mortgage.                                                   *)
NameFirstDoc ==
  /\ Talking("M_FIRST_DOC")
  /\ \E role \in {"sanction", "registry", "neither"} :
       LET known == [data EXCEPT !.docs =
             [r \in Docs |-> IF r = role THEN "file" ELSE @[r]]] IN
       Flag(role = "registry") /\ Goto(known, MortgageNext(known))
  /\ Same

(* Faulty variant: a paper promised for later needs nobody's attention. *)
NotForStaff == FALSE

LaterIsForStaff == TRUE

DocLater ==
  /\ Talking("doc")
  /\ LET known == [data EXCEPT !.docs[step[2]] = "later"] IN Goto(known, MortgageNext(known))
  /\ Flag(LaterIsForStaff)
  /\ Same

(* receiveMortgageDoc: a sale deed sent for the sanction letter is the     *)
(* registry, and the property is read from it.                             *)
ReceiveDoc ==
  /\ Talking("doc")
  /\ \E read \in Papers :
       LET role == IF step[2] = "sanction" /\ read \in SaleDeeds THEN "registry" ELSE step[2]
           known == [data EXCEPT !.docs[role] = "file"] IN
       /\ paper' = IF role = "registry" /\ read \in SaleDeeds THEN read ELSE paper
       /\ Flag(role = "registry" /\ read \notin SaleDeeds)
       /\ Goto(known, MortgageNext(known))
  /\ UNCHANGED <<status, earlier, stored>>

AnswerOwner ==
  /\ Talking("M_OWNER")
  /\ \E owner \in {"yes", "no", "unknown"} :
       LET known == [data EXCEPT !.owner = owner] IN
       Flag(owner = "unknown") /\ Goto(known, MortgageNext(known))
  /\ Same

-----------------------------------------------------------------------------
(* A person's details from an earlier request (reuseAnswer, reuseCheck).   *)

DeclineReuse ==
  /\ Talking("reuse")
  /\ Same /\ UNCHANGED needsStaff
  /\ Goto([data EXCEPT !.reuse[step[2]] = "declined"], Ask(step[2], "Name"))

(* The earlier request was erased meanwhile. *)
EarlierGone ==
  /\ Talking("reuse")
  /\ earlier' = [earlier EXCEPT !.fields = {}]
  /\ Goto([data EXCEPT !.reuse[step[2]] = "none"], Ask(step[2], "Name"))
  /\ UNCHANGED <<status, paper, needsStaff, stored>>

AcceptReuse ==
  /\ Talking("reuse")
  /\ LET p == step[2]
         known == [data EXCEPT !.answers[p] = @ \union (earlier.fields \ {"Pan"}),
                     !.pan[p] = IF "Pan" \in earlier.fields THEN "given" ELSE @,
                     !.idDone = @ \union {p}, !.reuse[p] = "used"]
         checks == ReuseChecks(known, p, 1) IN
     Goto(known, IF earlier.old /\ checks # {} THEN <<"check", p, CheckOrder[Min(checks)]>>
                 ELSE AfterId(known, p))
  /\ Same /\ UNCHANGED needsStaff

CheckReused ==
  /\ Talking("check")
  /\ LET p == step[2]
         checks == ReuseChecks(data, p, CheckIndex(step[3]) + 1) IN
     Goto(data, IF checks # {} THEN <<"check", p, CheckOrder[Min(checks)]>> ELSE AfterId(data, p))
  /\ Same /\ UNCHANGED needsStaff

-----------------------------------------------------------------------------
(* Photos of the ID cards (receiveIdPhoto, idPhotoText, idConfirm).        *)

Photo(d, p, k, value) == [d EXCEPT !.photos[p][k] = value]
NextAfterPhoto(d, p) ==
  IF PhotosLeft(d, p) # {} THEN PhotoStep(d, p) ELSE AfterId(d, p)
(* afterId also marks the person's photos as done. *)
PhotosDone(d, p) ==
  IF PhotosLeft(d, p) # {} THEN d ELSE [d EXCEPT !.idDone = @ \union {p}]
ContinueAfterPhoto(d, p) == Goto(PhotosDone(d, p), NextAfterPhoto(d, p))

KeepFile(p) == stored' = stored \union {p}
Listed(d, p) == [d EXCEPT !.idFiles = @ \union {p}]

(* What a front or a back of an Aadhaar card can give. *)
ReadsOf(k) ==
  CASE k = "aadhaarFront" -> {{"Name", "Aadhaar"}, {"Name", "Aadhaar", "Address"}}
    [] k = "aadhaarBack" -> {{"Address"}}
    [] OTHER -> {{}}

PhotoRead ==
  /\ Talking("photo")
  /\ LET p == step[2]
         k == step[3] IN
     /\ KeepFile(p)
     /\ \E got \in ReadsOf(k) :
          ContinueAfterPhoto(
            [Photo(Listed(data, p), p, k, "file") EXCEPT
               !.aadhaarRead[p] = @ \union got, !.panRead[p] = @ \/ k = "pan"], p)
  /\ UNCHANGED <<status, paper, needsStaff, earlier>>

(* A card that cannot be read is asked for once more, then it is typed.    *)
PhotoUnread ==
  /\ Talking("photo") /\ step[3] # "passportPhoto"
  /\ LET p == step[2]
         k == step[3]
         listed == Listed(data, p) IN
     /\ KeepFile(p)
     /\ \/ /\ data.photos[p][k] = "none"
           /\ data' = Photo(listed, p, k, "tried")
           /\ UNCHANGED <<step, needsStaff>>
        \/ /\ data.photos[p][k] = "tried"
           /\ needsStaff' = TRUE
           /\ ContinueAfterPhoto([Photo(listed, p, k, "file") EXCEPT !.unreadable = @ \union {p}], p)
  /\ UNCHANGED <<status, paper, earlier>>

PhotoLater ==
  /\ Talking("photo")
  /\ ContinueAfterPhoto(Photo(data, step[2], step[3], "later"), step[2])
  /\ needsStaff' = TRUE
  /\ Same

(* A photo sent when a yes or no was due. *)
PhotoAgain ==
  /\ Talking("idOk")
  /\ KeepFile(step[2])
  /\ data' = Listed(data, step[2])
  /\ UNCHANGED <<status, step, paper, needsStaff, earlier>>

ConfirmCard ==
  /\ Talking("idOk")
  /\ LET p == step[2]
         card == step[3]
         asked == [data EXCEPT !.confirmed[p] = @ \union {card}] IN
     \/ ContinueAfterPhoto(asked, p)
     \/ /\ card = "aadhaar"
        /\ ContinueAfterPhoto([asked EXCEPT !.answers[p] = @ \union data.aadhaarRead[p]], p)
     \/ /\ card = "pan"
        /\ ContinueAfterPhoto([asked EXCEPT !.pan[p] = "given"], p)
  /\ Same /\ UNCHANGED needsStaff

-----------------------------------------------------------------------------
(* Typed answers, the amount and the PANs.                                 *)

AnswerField ==
  /\ Talking("ask")
  /\ LET p == step[2]
         known == [data EXCEPT !.answers[p] = @ \union {step[3]}]
         split == [data EXCEPT !.answers[p] = @ \union {"Name", "Relation", "FatherName"}] IN
     \/ Goto(known, Advance(known, step))
     \/ step[3] = "Name" /\ Goto(split, Advance(split, step))
  /\ Same /\ UNCHANGED needsStaff

(* "I have no e-mail": the staff hear of it, and it is asked again.        *)
NoEmail ==
  /\ Talking("ask") /\ step[3] = "Email"
  /\ needsStaff' = TRUE
  /\ Same /\ UNCHANGED <<data, step>>

(* handleAmount; without a guideline value the PAN is asked for.           *)
AnswerAmount ==
  /\ Talking("AMOUNT")
  /\ \E tax \in {"low", "pan", "tds"}, unknown \in BOOLEAN :
       LET known == [data EXCEPT !.tax = tax] IN
       /\ unknown => tax = "pan"
       /\ Flag(unknown)
       /\ Goto(known, AfterAmount(known))
  /\ Same

AnswerBuyerPan ==
  /\ Talking("BUYER_PAN")
  /\ \E pan \in {"given", "blank"} :
       LET known == [data EXCEPT !.pan[Buyer] = pan] IN
       /\ pan = "blank" => data.tax = "low"
       /\ Goto(known, AfterPan(known))
  /\ Same /\ UNCHANGED needsStaff

AnswerSellerPan ==
  /\ Talking("SELLER_PAN")
  /\ Goto([data EXCEPT !.sellerPan = "given"], <<"FINAL">>)
  /\ Same /\ UNCHANGED needsStaff

-----------------------------------------------------------------------------
(* registryAnswer, and the end of the conversation.                        *)

AnswerRegistry ==
  LET known(d) == data' = d /\ step' = RegistryNext(d) IN
  /\ \/ /\ Talking("REG_DATE")
        /\ \/ known([data EXCEPT !.regDate = "unknown", !.regAlt = "none"])
           \/ \E time \in {"unasked", "set"} :
                known([data EXCEPT !.regDate = "day",
                         !.regTime = IF time = "set" THEN "set" ELSE @])
     \/ /\ Talking("REG_ALT")
        /\ \E alt \in {"none", "day"} : known([data EXCEPT !.regAlt = alt])
     \/ Talking("REG_TIME") /\ known([data EXCEPT !.regTime = "set"])
     \/ Talking("GEOTAG") /\ known([data EXCEPT !.geoTag = TRUE])
  /\ Same /\ UNCHANGED needsStaff

(* firstMissingSampadaStep *)
Missing(d) ==
  LET all == Questions(Parties(d)) IN {n \in Unanswered(d, all) : all[n][3] \in RequiredFields}

(* "Yes" to the summary: what is missing is asked, else it is submitted.   *)
(* Names or fathers that differ between the cards are for the staff too.   *)
ConfirmSummary ==
  /\ Talking("FINAL")
  /\ IF Missing(data) # {}
       THEN Goto(data, Questions(Parties(data))[Min(Missing(data))]) /\ UNCHANGED <<status, needsStaff>>
       ELSE IF RegistryNext(data) # <<"FINAL">>
              THEN Goto(data, <<"FINAL">>) /\ UNCHANGED <<status, needsStaff>>
              ELSE /\ status' = "SUBMITTED"
                   /\ \E differ \in BOOLEAN : Flag(differ \/ data.unreadable # {})
                   /\ UNCHANGED <<step, data>>
  /\ UNCHANGED <<paper, earlier, stored>>

(* What "change" at the summary keeps.                                     *)
KeptOnEdit(d) ==
  [NoData EXCEPT !.deedType = d.deedType, !.docs = d.docs, !.owner = d.owner,
     !.photos = d.photos, !.idFiles = d.idFiles, !.idDone = d.idDone,
     !.unreadable = d.unreadable, !.reuse = d.reuse, !.regDate = d.regDate,
     !.regAlt = d.regAlt, !.regTime = d.regTime, !.geoTag = d.geoTag]

EditSummary ==
  /\ Talking("FINAL")
  /\ Goto(KeptOnEdit(data),
          Ask(IF data.deedType = "mortgage" THEN Mortgagor ELSE Buyer, "Name"))
  /\ Same /\ UNCHANGED needsStaff

(* The customer says "cancel", or active() no longer finds the request     *)
(* because it was silent for 48 hours.                                     *)
End ==
  /\ status = "ACTIVE"
  /\ status' = "over"
  /\ UNCHANGED <<step, data, paper, needsStaff, earlier, stored>>

IntakeNext ==
  \/ FirstDocument \/ ChooseDeed \/ AskAgainWhich \/ ChangeDeed
  \/ AnswerPlot \/ NameFirstDoc \/ DocLater \/ ReceiveDoc \/ AnswerOwner
  \/ DeclineReuse \/ EarlierGone \/ AcceptReuse \/ CheckReused
  \/ PhotoRead \/ PhotoUnread \/ PhotoLater \/ PhotoAgain \/ ConfirmCard
  \/ AnswerField \/ NoEmail \/ AnswerAmount \/ AnswerBuyerPan \/ AnswerSellerPan
  \/ AnswerRegistry \/ ConfirmSummary \/ EditSummary \/ End

IntakeSpec == IntakeInit /\ [][IntakeNext]_intakeVars

-----------------------------------------------------------------------------
(* Properties.                                                             *)

IntakeTypeOK ==
  /\ status \in {"none", "ACTIVE", "SUBMITTED", "over"}
  /\ step \in Steps
  /\ data \in DataRecords
  /\ paper \in Papers
  /\ needsStaff \in BOOLEAN
  /\ earlier \in EarlierRequests
  /\ stored \subseteq People

PartySet(d) == {Parties(d)[i] : i \in DOMAIN Parties(d)}

(* Whatever the customer sent, reused, skipped or changed: a request that  *)
(* is submitted has every answer that the portal, the tax rules and the    *)
(* papers of its deed ask for.                                             *)
SubmittedComplete ==
  status = "SUBMITTED" /\ data.deedType # "other" =>
    /\ \A p \in PartySet(data) : RequiredFields \subseteq data.answers[p]
    /\ RegistryNext(data) = <<"FINAL">>
    /\ data.deedType = "sale" =>
         /\ data.tax # "none"
         /\ data.tax \in {"pan", "tds"} => data.pan[Buyer] = "given"
         /\ data.tax = "tds" => data.sellerPan = "given"
    /\ data.deedType = "mortgage" =>
         /\ data.docs["sanction"] # "none" /\ data.docs["registry"] # "none"
         /\ data.owner = "no" => data.docs["transfer"] # "none"

(* ... and what the flow leaves for a member of staff to settle has marked *)
(* the request: a paper or photo promised for later, a card that could not *)
(* be read, an owner nobody knows, another deed than the two it knows, a   *)
(* sale for which no sale deed was sent.  One that was sent counts: of a   *)
(* bare deed, whose property is still to be found, startDeed tells nobody. *)
StaffWarned ==
  status = "SUBMITTED" /\ ~needsStaff =>
    /\ data.deedType # "other"
    /\ \A r \in Docs : data.docs[r] # "later"
    /\ data.owner # "unknown"
    /\ \A p \in PartySet(data), k \in Kinds : data.photos[p][k] # "later"
    /\ data.unreadable = {}
    /\ data.deedType = "sale" => paper \in SaleDeeds

(* A question is never put to a customer who answered it: in the same      *)
(* message as another, by a card that was read, or in an earlier request.  *)
AskedOnce ==
  status = "ACTIVE" /\ step[1] = "ask" => step[3] \notin data.answers[step[2]]

(* "Every ID file is listed for deletion after the request closes".        *)
IdFilesListed == stored \subseteq data.idFiles
=============================================================================
