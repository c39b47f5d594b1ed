------------------------------- MODULE Payroll -------------------------------
(***************************************************************************)
(* The salary sheet of one month (salary.service, attendance-jobs): it is  *)
(* computed anew whenever somebody looks, the owner's adjustments go into  *)
(* it, "FINAL" locks it, and the slips go out from the locked sheet. A     *)
(* step is one database statement; the owner's requests and the month-end  *)
(* job interleave. A line is what it was computed from: SalaryLine has the *)
(* computation.                                                            *)
(***************************************************************************)
EXTENDS Naturals

CONSTANTS
  People,      \* employees with a salary
  Calls,       \* slots for the owner's requests and the job
  MaxChanges,  \* bound: changes to attendance, leave and salaries
  MaxAdjusts   \* bound: adjustments

VARIABLES
  facts,      \* attendance, leave and salaries, as a version
  sheet,      \* the SalarySheet row; status "none": no row
  claimed,    \* the job's WaJobRun row for the month
  slips,      \* employee -> the line on the slip sent last, if any
  pc, local,  \* call -> its next statement, and what it holds
  adjusts,    \* how much of MaxAdjusts is used up
  straddled   \* has a call that read the unlocked sheet gone on past its locking?

vars == <<facts, sheet, claimed, slips, pc, local, adjusts, straddled>>

Adjustments == [People -> 0..MaxAdjusts]
NoAdjustments == [p \in People |-> 0]
Lines == [facts : 0..MaxChanges, adjusted : Adjustments]
NoLines == [facts |-> 0, adjusted |-> NoAdjustments]   \* the empty list, too
Sheets ==
  [status : {"none", "DRAFT", "FINAL"}, lines : Lines, adjustments : Adjustments]
Kinds == {"sheet", "monthEnd", "adjust", "finalize", "send"}
Locals ==
  [kind : Kinds, person : People, read : Sheets, lines : Lines]
AnyPerson == CHOOSE p \in People : TRUE
NoSheet ==
  [status |-> "none", lines |-> NoLines, adjustments |-> NoAdjustments]
NoLocals == [kind |-> "sheet", person |-> AnyPerson, read |-> NoSheet, lines |-> NoLines]

Init ==
  /\ facts = 0 /\ sheet = NoSheet /\ claimed = FALSE
  /\ slips = [p \in People |-> [sent |-> FALSE, line |-> NoLines]]
  /\ pc = [c \in Calls |-> "idle"] /\ local = [c \in Calls |-> NoLocals]
  /\ adjusts = 0 /\ straddled = FALSE

-----------------------------------------------------------------------------

At(c, point) == pc[c] = point
Go(c, point, l) == pc' = [pc EXCEPT ![c] = point] /\ local' = [local EXCEPT ![c] = l]
Finish(c) == Go(c, "idle", NoLocals)

(* Where a call begins: adjust looks at the row, the job at its claim. *)
FirstOf(kind) ==
  CASE kind = "adjust" -> "adjust.read"
    [] kind = "monthEnd" -> "job.find"
    [] OTHER -> "sheet.read"

Start(c, kind, p) ==
  /\ At(c, "idle")
  /\ kind = "adjust" => adjusts < MaxAdjusts
  /\ adjusts' = IF kind = "adjust" THEN adjusts + 1 ELSE adjusts
  /\ Go(c, FirstOf(kind), [NoLocals EXCEPT !.kind = kind, !.person = p])
  /\ UNCHANGED <<facts, sheet, claimed, slips, straddled>>

(* Somebody punches, a leave is decided, a salary is set. *)
FactsChange ==
  /\ facts < MaxChanges /\ facts' = facts + 1
  /\ UNCHANGED <<sheet, claimed, slips, pc, local, adjusts, straddled>>

Quietly == UNCHANGED <<facts, adjusts>>

(* once, of the job: the month is claimed before the sheet is made. *)
JobFinds(c) ==
  /\ At(c, "job.find")
  /\ IF claimed THEN Finish(c) ELSE Go(c, "job.create", local[c])
  /\ UNCHANGED <<sheet, claimed, slips, straddled>> /\ Quietly

JobClaims(c) ==
  /\ At(c, "job.create")
  /\ claimed' = TRUE
  /\ IF claimed THEN Finish(c) ELSE Go(c, "sheet.read", local[c])
  /\ UNCHANGED <<sheet, slips, straddled>> /\ Quietly

(* Faulty variant: a locked sheet is computed anew like any other. *)
NeverLocked(row) == FALSE

Locked(row) == row.status = "FINAL"

(* What send and finalize do with a locked sheet: a slip goes out. *)
AfterLocked(c) ==
  IF local[c].kind = "send"
  THEN Go(c, "send.deliver", [local[c] EXCEPT !.read = sheet])
  ELSE Finish(c)

(* sheetFor: a locked sheet is returned as it is, ... *)
ReadSheet(c) ==
  /\ At(c, "sheet.read")
  /\ IF Locked(sheet)
     THEN AfterLocked(c)
     ELSE Go(c, "sheet.compute", [local[c] EXCEPT !.read = sheet])
  /\ UNCHANGED <<sheet, claimed, slips, straddled>> /\ Quietly

(* ... another one is computed, ... *)
Compute(c) ==
  /\ At(c, "sheet.compute")
  /\ Go(c, "sheet.save", [local[c] EXCEPT
       !.lines = [facts |-> facts, adjusted |-> local[c].read.adjustments]])
  /\ UNCHANGED <<sheet, claimed, slips, straddled>> /\ Quietly

(* Faulty variant: a slip may go out from a draft. *)
FromDraft(kind) == IF kind = "send" THEN "send.deliver" ELSE "idle"

(* send refuses a draft. *)
AfterDraft(kind) == "idle"

(* ... and saved, unless the row is new with its lines only; then finalize *)
(* goes on to lock it.                                                     *)
SaveSheet(c) ==
  LET l == local[c] IN
  /\ At(c, "sheet.save")
  /\ sheet' = IF sheet.status = "none"
              THEN [NoSheet EXCEPT !.status = "DRAFT", !.lines = l.lines,
                                   !.adjustments = l.read.adjustments]
              ELSE [sheet EXCEPT !.lines = l.lines]
  /\ IF l.kind = "finalize" THEN Go(c, "finalize.save", l)
     ELSE IF AfterDraft(l.kind) = "idle" THEN Finish(c)
     ELSE Go(c, AfterDraft(l.kind), [l EXCEPT !.read.lines = l.lines])
  /\ UNCHANGED <<claimed, slips, straddled>> /\ Quietly

(* The calls that will write the sheet without looking at it again. *)
HoldsUnlocked(c) ==
  pc[c] \in {"sheet.compute", "sheet.save", "adjust.save", "finalize.save"}
Locking(c) == local[c].kind = "finalize" /\ HoldsUnlocked(c)

(* adjust: not on a locked sheet; the whole map is written back, and the   *)
(* sheet computed with it.                                                 *)
ReadForAdjust(c) ==
  /\ At(c, "adjust.read")
  /\ IF Locked(sheet) THEN Finish(c)
     ELSE Go(c, "adjust.save", [local[c] EXCEPT !.read = sheet])
  /\ UNCHANGED <<sheet, claimed, slips, straddled>> /\ Quietly

SaveAdjustment(c) ==
  LET l == local[c]
      map == [l.read.adjustments EXCEPT ![l.person] = adjusts]
  IN
  /\ At(c, "adjust.save")
  /\ sheet' = IF sheet.status = "none"
              THEN [NoSheet EXCEPT !.status = "DRAFT", !.adjustments = map]
              ELSE [sheet EXCEPT !.adjustments = map]
  /\ straddled' = (straddled \/ \E d \in Calls : Locking(d))
  /\ Go(c, "sheet.read", [l EXCEPT !.read = NoSheet])
  /\ UNCHANGED <<claimed, slips>> /\ Quietly

(* finalize locks the lines that it has computed. *)
SaveFinal(c) ==
  /\ At(c, "finalize.save")
  /\ sheet' = [sheet EXCEPT !.status = "FINAL", !.lines = local[c].lines]
  /\ straddled' = (straddled \/ \E d \in Calls \ {c} : HoldsUnlocked(d))
  /\ Finish(c)
  /\ UNCHANGED <<claimed, slips>> /\ Quietly

(* send: the slip goes out, or fails. (Who was sent one is also noted on   *)
(* the row, for the page that shows it.)                                   *)
Deliver(c, delivered) ==
  LET l == local[c] IN
  /\ At(c, "send.deliver")
  /\ slips' = IF delivered
              THEN [slips EXCEPT ![l.person] = [sent |-> TRUE, line |-> l.read.lines]]
              ELSE slips
  /\ Finish(c)
  /\ UNCHANGED <<sheet, claimed, straddled>> /\ Quietly

(* A statement fails, or the server restarts. *)
Dies(c) ==
  /\ ~At(c, "idle") /\ Finish(c)
  /\ UNCHANGED <<sheet, claimed, slips, straddled>> /\ Quietly

Next ==
  \/ FactsChange
  \/ \E c \in Calls :
       \/ \E kind \in Kinds, p \in People : Start(c, kind, p)
       \/ JobFinds(c) \/ JobClaims(c)
       \/ ReadSheet(c) \/ Compute(c) \/ SaveSheet(c)
       \/ ReadForAdjust(c) \/ SaveAdjustment(c) \/ SaveFinal(c)
       \/ \E delivered \in BOOLEAN : Deliver(c, delivered)
       \/ Dies(c)

Spec == Init /\ [][Next]_vars

-----------------------------------------------------------------------------

TypeOK ==
  /\ facts \in 0..MaxChanges /\ sheet \in Sheets /\ claimed \in BOOLEAN
  /\ slips \in [People -> [sent : BOOLEAN, line : Lines]]
  /\ pc \in [Calls ->
       {"idle", "job.find", "job.create", "sheet.read", "sheet.compute", "sheet.save",
        "adjust.read", "adjust.save", "finalize.save", "send.deliver"}]
  /\ local \in [Calls -> Locals]
  /\ adjusts \in 0..MaxAdjusts /\ straddled \in BOOLEAN

(* "FINAL once the owner locks it": no step changes the lines, the         *)
(* adjustments or the status of a locked sheet, whatever calls overlap, as *)
(* long as none has read the sheet unlocked and goes on past its locking.  *)
FinalStep == sheet.status = "FINAL" /\ ~straddled' => sheet' = sheet
FinalLocked == [][FinalStep]_vars

(* Under the same condition: a slip that went out states the line of the   *)
(* locked sheet, with every adjustment that is stored in it.               *)
SlipsTrue ==
  ~straddled => \A p \in People : slips[p].sent =>
    /\ sheet.status = "FINAL" /\ slips[p].line = sheet.lines
    /\ sheet.lines.adjusted = sheet.adjustments
=============================================================================
