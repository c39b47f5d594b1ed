----------------------------- MODULE DeedEditing -----------------------------
(***************************************************************************)
(* The body of one deed and everybody who writes to it: the editor pages   *)
(* that save as the author types (useAutoSaveDeed, DeedEditPage), the AI   *)
(* drafting, and the party's form (sample-deeds.service). Each of them     *)
(* keeps the body it overwrites as a numbered revision.                    *)
(*                                                                         *)
(* A step of the server is one database statement; the calls interleave    *)
(* and what they have read can be stale. A step of a page is the code      *)
(* between two awaits. Titles are left out: no revision depends on them.   *)
(***************************************************************************)
EXTENDS Naturals, FiniteSets, Sequences, SequencesExt

CONSTANTS
  Words,      \* what a body may say
  Editors,    \* pages that open the deed
  Slots,      \* slots for the server's calls
  Nobody,     \* no page, none of Editors
  MaxEdits,   \* bound: how often an author changes the text
  MaxOthers,  \* bound: calls of the AI drafting and the party's form
  MaxFaults   \* bound: calls that fail, or that the page gives up on

ASSUME NobodyAssumption == Nobody \notin Editors

(* A body may hold {{tokens}} for the party's details, or be filled in. *)
Texts == [words : Words, tokens : BOOLEAN]

VARIABLES
  live,       \* content of the DeedTemplate row
  revisions,  \* contents of the DeedTemplateRevision rows, by versionNo
  editor,     \* page -> what useAutoSaveDeed knows
  call,       \* slot -> the call it serves
  history,    \* the bodies the row has had, the present one last
  lastBy,     \* the page that wrote the row last, Nobody if another call did
  overlapped, \* has one call read the row while another was about to write it?
  unheard,    \* pages that gave up on a save, or left while it failed
  edits, others, faults   \* how much of the bounds is used up

deedVars ==
  <<live, revisions, editor, call, history, lastBy, overlapped, unheard,
    edits, others, faults>>

AnyText == CHOOSE t \in Texts : TRUE
NoDeedCall ==
  [kind |-> "none", at |-> "idle", by |-> Nobody, awaited |-> FALSE,
   text |-> AnyText, seen |-> AnyText, last |-> 0]
NoEditor ==
  [page |-> "closed", draft |-> AnyText, saved |-> AnyText, save |-> "none",
   debounce |-> FALSE, retry |-> FALSE]

DeedInit ==
  /\ live \in Texts
  /\ revisions = <<>>
  /\ editor = [e \in Editors |-> NoEditor]
  /\ call = [s \in Slots |-> NoDeedCall]
  /\ history = <<live>> /\ lastBy = Nobody /\ overlapped = FALSE /\ unheard = {}
  /\ edits = 0 /\ others = 0 /\ faults = 0

-----------------------------------------------------------------------------
(* The page.                                                               *)

Dirty(ed) == ed.page # "closed" /\ ed.draft # ed.saved

(* A request leaves for the server, for a page or for another caller.      *)
Send(s, kind, e, awaited, text) ==
  /\ call[s].at = "idle"
  /\ call' = [call EXCEPT ![s] =
       [NoDeedCall EXCEPT !.kind = kind, !.at = "read", !.by = e, !.awaited = awaited,
                      !.text = text]]

(* Faulty variant: a save is started while another one is in flight. *)
AnyTime(ed) == Dirty(ed)

(* run's first line. *)
MayRun(ed) == ed.save = "none" /\ Dirty(ed)

(* run: the page, timers as given, starts a save when there is need of one. *)
Run(e, ed) ==
  IF MayRun(ed)
  THEN /\ editor' = [editor EXCEPT ![e] = [ed EXCEPT !.save = "sent"]]
       /\ \E s \in Slots : Send(s, "save", e, TRUE, ed.draft)
  ELSE editor' = [editor EXCEPT ![e] = ed] /\ UNCHANGED call

serverSide == <<live, revisions, history, lastBy, overlapped>>
bounds == <<edits, others, faults>>

(* The page loads the deed, seeds the form from it and takes it for its    *)
(* baseline.                                                               *)
OpenPage(e) ==
  /\ editor[e].page = "closed"
  /\ editor' = [editor EXCEPT ![e] =
       [NoEditor EXCEPT !.page = "open", !.draft = live, !.saved = live]]
  /\ UNCHANGED <<serverSide, call, unheard, bounds>>

(* The author changes the text. The effect that follows clears the window  *)
(* and opens a new one if there is something to save.                      *)
Edit(e, text) ==
  /\ editor[e].page = "open" /\ edits < MaxEdits
  /\ text # editor[e].draft
  /\ edits' = edits + 1
  /\ editor' = [editor EXCEPT
       ![e].draft = text, ![e].debounce = text # editor[e].saved]
  /\ UNCHANGED <<serverSide, call, unheard, others, faults>>

DebounceFires(e) ==
  /\ editor[e].debounce
  /\ Run(e, [editor[e] EXCEPT !.debounce = FALSE])
  /\ UNCHANGED <<serverSide, unheard, bounds>>

RetryFires(e) ==
  /\ editor[e].retry
  /\ Run(e, [editor[e] EXCEPT !.retry = FALSE])
  /\ UNCHANGED <<serverSide, unheard, bounds>>

(* The Save button. *)
SaveNow(e) ==
  /\ editor[e].page = "open"
  /\ Run(e, [editor[e] EXCEPT !.debounce = FALSE, !.retry = FALSE])
  /\ UNCHANGED <<serverSide, unheard, bounds>>

(* The save has landed; "Saving..." stays up a moment, the page's lock with it. *)
Landed(e, s) ==
  /\ call[s].by = e /\ call[s].awaited /\ call[s].at = "answer"
  /\ editor' = [editor EXCEPT ![e].saved = call[s].text, ![e].save = "settling"]
  /\ call' = [call EXCEPT ![s] = NoDeedCall]
  /\ UNCHANGED <<serverSide, unheard, bounds>>

(* Faulty variant: what was typed meanwhile is left to its own timer. *)
NoRerun(e, ed) == editor' = [editor EXCEPT ![e] = ed] /\ UNCHANGED call

(* run's last lines, when a save is over. *)
RunAgain(e, ed) == Run(e, ed)

Settled(e) ==
  /\ editor[e].save = "settling"
  /\ RunAgain(e, [editor[e] EXCEPT !.save = "none"])
  /\ UNCHANGED <<serverSide, unheard, bounds>>

(* The catch of run. A timer set after the page was left still fires. *)
AfterFailure(ed) == [ed EXCEPT !.save = "none", !.retry = TRUE]

(* The page is left: the timers are cleared, and what no save is carrying  *)
(* goes out in a request nobody waits for.                                 *)
LeavePage(e) ==
  /\ editor[e].page = "open"
  /\ editor' = [editor EXCEPT ![e].page = "left", ![e].debounce = FALSE, ![e].retry = FALSE]
  /\ IF MayRun(editor[e])
     THEN \E s \in Slots : Send(s, "save", e, FALSE, editor[e].draft)
     ELSE UNCHANGED call
  /\ UNCHANGED <<serverSide, unheard, bounds>>

-----------------------------------------------------------------------------
(* The server.                                                             *)

(* A member of staff asks Claude for a draft, or the party sends the form. *)
Ask(s, kind) ==
  /\ others < MaxOthers
  /\ others' = others + 1
  /\ Send(s, kind, Nobody, FALSE, AnyText)
  /\ UNCHANGED <<serverSide, editor, unheard, edits, faults>>

AboutToWrite(c) == c.at \in {"claude", "last", "create", "write"}

Filled(text) == [text EXCEPT !.tokens = FALSE]

(* Where a call goes on after it has read the row, and with which text:    *)
(* update overwrites, and keeps a revision if the body changes; aiDraft    *)
(* waits for Claude; applyPartyFields returns if nothing is left to fill.  *)
AfterRead(c) ==
  LET read == [c EXCEPT !.seen = live] IN
  CASE c.kind = "save" /\ c.text # live -> [read EXCEPT !.at = "last"]
    [] c.kind = "save" /\ c.text = live -> [read EXCEPT !.at = "write"]
    [] c.kind = "aiDraft" -> [read EXCEPT !.at = "claude"]
    [] c.kind = "partyFields" /\ live.tokens ->
         [read EXCEPT !.at = "last", !.text = Filled(live)]
    [] OTHER -> NoDeedCall

Read(s) ==
  /\ call[s].at = "read"
  /\ call' = [call EXCEPT ![s] = AfterRead(@)]
  /\ overlapped' = (overlapped \/ \E z \in Slots \ {s} : AboutToWrite(call[z]))
  /\ UNCHANGED <<live, revisions, history, lastBy, editor, unheard, bounds>>

ClaudeAnswers(s, text) ==
  /\ call[s].at = "claude"
  /\ call' = [call EXCEPT ![s].at = "last", ![s].text = text]
  /\ UNCHANGED <<serverSide, editor, unheard, bounds>>

(* snapshotRevision: the number of the last revision, ... *)
ReadLast(s) ==
  /\ call[s].at = "last"
  /\ call' = [call EXCEPT ![s].at = "create", ![s].last = Len(revisions)]
  /\ UNCHANGED <<serverSide, editor, unheard, bounds>>

(* Faulty variant: the body about to be written is kept, not the old one. *)
NewBody(c) == c.text

Snapshot(c) == c.seen

(* ... and the row one past it, unless a row took the number meanwhile.    *)
CreateRevision(s) ==
  /\ call[s].at = "create" /\ call[s].last = Len(revisions)
  /\ revisions' = Append(revisions, Snapshot(call[s]))
  /\ call' = [call EXCEPT ![s].at = "write"]
  /\ UNCHANGED <<live, history, lastBy, overlapped, editor, unheard, bounds>>

Write(s) ==
  /\ call[s].at = "write"
  /\ live' = call[s].text
  /\ history' = IF live' = live THEN history ELSE Append(history, live')
  /\ lastBy' = call[s].by
  /\ call' = [call EXCEPT ![s] = IF @.awaited THEN [@ EXCEPT !.at = "answer"] ELSE NoDeedCall]
  /\ UNCHANGED <<revisions, overlapped, editor, unheard, bounds>>

(* The call throws, and the page that waits for it learns. *)
Throw(s) ==
  LET c == call[s] IN
  /\ call' = [call EXCEPT ![s] = NoDeedCall]
  /\ editor' = IF c.awaited THEN [editor EXCEPT ![c.by] = AfterFailure(@)] ELSE editor
  /\ unheard' = IF c.kind = "save" /\ ~c.awaited THEN unheard \union {c.by} ELSE unheard

NumberTaken(s) ==
  /\ call[s].at = "create" /\ call[s].last # Len(revisions)
  /\ Throw(s)
  /\ UNCHANGED <<serverSide, bounds>>

(* The database or Claude fails. *)
Fails(s) ==
  /\ AboutToWrite(call[s]) \/ call[s].at = "read"
  /\ faults < MaxFaults /\ faults' = faults + 1
  /\ Throw(s)
  /\ UNCHANGED <<serverSide, edits, others>>

(* The page gives up on a save: the answer is lost, or takes longer than   *)
(* the client waits. The server goes on with it.                           *)
GiveUp(s) ==
  /\ call[s].awaited
  /\ faults < MaxFaults /\ faults' = faults + 1
  /\ editor' = [editor EXCEPT ![call[s].by] = AfterFailure(@)]
  /\ call' = [call EXCEPT ![s] =
       IF @.at = "answer" THEN NoDeedCall ELSE [@ EXCEPT !.awaited = FALSE]]
  /\ unheard' = unheard \union {call[s].by}
  /\ UNCHANGED <<serverSide, edits, others>>

DeedNext ==
  \/ \E e \in Editors :
       \/ OpenPage(e) \/ DebounceFires(e) \/ RetryFires(e) \/ SaveNow(e) \/ Settled(e) \/ LeavePage(e)
       \/ \E text \in Texts : Edit(e, text)
       \/ \E s \in Slots : Landed(e, s)
  \/ \E s \in Slots :
       \/ \E kind \in {"aiDraft", "partyFields"} : Ask(s, kind)
       \/ Read(s) \/ ReadLast(s) \/ CreateRevision(s) \/ Write(s)
       \/ \E text \in Texts : ClaudeAnswers(s, text)
       \/ NumberTaken(s) \/ Fails(s) \/ GiveUp(s)

DeedSpec == DeedInit /\ [][DeedNext]_deedVars

-----------------------------------------------------------------------------

(* A page that waits for a save waits for one call, and no other call      *)
(* thinks so: inFlightRef says what is in flight.                          *)
DeedTypeOK ==
  /\ live \in Texts
  /\ revisions \in Seq(Texts) /\ history \in Seq(Texts)
  /\ editor \in [Editors ->
       [page : {"closed", "open", "left"}, draft : Texts, saved : Texts,
        save : {"none", "sent", "settling"}, debounce : BOOLEAN, retry : BOOLEAN]]
  /\ call \in [Slots ->
       [kind : {"none", "save", "aiDraft", "partyFields"},
        at : {"idle", "read", "claude", "last", "create", "write", "answer"},
        by : Editors \union {Nobody}, awaited : BOOLEAN,
        text : Texts, seen : Texts, last : Nat]]
  /\ lastBy \in Editors \union {Nobody} /\ overlapped \in BOOLEAN
  /\ unheard \subseteq Editors
  /\ \A e \in Editors :
       Cardinality({s \in Slots : call[s].awaited /\ call[s].by = e}) =
         IF editor[e].save = "sent" THEN 1 ELSE 0

(* A list without the entries that repeat the one before them. *)
Steps(list) ==
  LET upTo[i \in 0..Len(list)] ==
        IF i = 0 THEN <<>>
        ELSE IF i > 1 /\ list[i] = list[i - 1] THEN upTo[i - 1]
        ELSE Append(upTo[i - 1], list[i])
  IN upTo[Len(list)]

(* The history the staff sees is "every revision that preceded" the live   *)
(* body: as long as the calls come one after the other, the revisions and  *)
(* the row hold every body the deed ever had, in order, whatever fails.    *)
HistoryKept == ~overlapped => Steps(Append(revisions, live)) = history

(* The same, of calls that overlap. *)
HistoryComplete == ToSet(history) \subseteq ToSet(Append(revisions, live))

(* An edit is never forgotten: while the page is open and shows what is    *)
(* not saved, a save is running or a timer will start one.                 *)
DirtyIsPending ==
  \A e \in Editors :
    editor[e].page = "open" /\ Dirty(editor[e]) =>
      editor[e].save # "none" \/ editor[e].debounce \/ editor[e].retry

Quiet(e) ==
  /\ editor[e].save = "none" /\ ~editor[e].debounce /\ ~editor[e].retry
  /\ \A s \in Slots : call[s].by # e

(* No save is overtaken by an older one: when a page's saves are over and  *)
(* it has heard of all of them, and nobody wrote since, the row holds what *)
(* the page shows, or showed when it was left.                             *)
LastEditStands ==
  \A e \in Editors :
    Quiet(e) /\ lastBy = e /\ e \notin unheard => live = editor[e].draft

(* No edit is lost while somebody can still save it: neither forgotten nor *)
(* overtaken.                                                              *)
EditsKept == DirtyIsPending /\ LastEditStands
=============================================================================
