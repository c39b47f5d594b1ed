------------------------------ MODULE WaInbound ------------------------------
(***************************************************************************)
(* The WhatsApp messages of one customer number, from Meta's webhook to    *)
(* the bot's answer: duplicate suppression, the number's lane, the window  *)
(* in which quick texts are collected, and the handlers that answer.       *)
(*                                                                         *)
(* Node runs one callback at a time and switches at every await.  A step   *)
(* is the code between two awaits that matter.  Numbers have lanes,        *)
(* windows and draft requests of their own, so one number is enough.       *)
(***************************************************************************)
EXTENDS Integers, Sequences, FiniteSets, SequencesExt

CONSTANTS
  Texts,          \* texts, and voice notes heard as text
  Files,          \* photos and PDFs
  Others,         \* what is answered at once: buttons, voice notes not heard
  Settings,       \* which of them: is WA_DEBOUNCE_MS above zero?
  MaxDeliveries,  \* bound: how often Meta delivers one message
  MaxDbErrors,    \* bound: failures of the insert other than a duplicate key
  MaxCrashes      \* bound: restarts of the server

ASSUME InboundAssumption ==
  /\ Settings \subseteq BOOLEAN
  /\ MaxDeliveries \in Nat /\ MaxDbErrors \in Nat /\ MaxCrashes \in Nat
  /\ Texts \intersect Files = {} /\ Texts \intersect Others = {}
  /\ Files \intersect Others = {}
  /\ IsFiniteSet(Texts \union Files \union Others)

Msgs == Texts \union Files \union Others

VARIABLES
  debounced, \* the setting this server runs with
  due,       \* message -> deliveries Meta may still make
  recorded,  \* the rows of WaInboundMessage, in the order of their insertion
  lane,      \* deliveries waiting for their turn, the one in service first
  laneAt,    \* how far the delivery in service has come
  laneRun,   \* the handler run the lane waits for, 0 if none
  pending,   \* texts collected in the open window, << >> if no window is open
  runs,      \* handler runs, in the order of their start
  row,       \* messages whose answers DraftIntake.data holds
  dbErrors, crashes   \* how much of the two bounds is used up

vars ==
  <<debounced, due, recorded, lane, laneAt, laneRun, pending, runs, row,
    dbErrors, crashes>>

(* One run of a handler: the messages it answers, the statement it is at,  *)
(* the DraftIntake.data it has read, and whether it has saved.             *)
Run(msgs) == [msgs |-> msgs, at |-> "read", seen |-> {}, saved |-> FALSE]

RunRecords ==
  [msgs : Seq(Msgs), at : {"read", "save", "reply", "done", "lost"},
   seen : SUBSET Msgs, saved : BOOLEAN]

Init ==
  /\ debounced \in Settings
  /\ due = [m \in Msgs |-> MaxDeliveries]
  /\ recorded = << >>
  /\ lane = << >> /\ laneAt = "idle" /\ laneRun = 0
  /\ pending = << >>
  /\ runs = << >>
  /\ row = {}
  /\ dbErrors = 0 /\ crashes = 0

-----------------------------------------------------------------------------
(* The webhook.                                                            *)

(* Meta delivers a message, perhaps again.  The 200 goes out before any of *)
(* it is handled; the delivery takes its place in the number's lane.       *)
Receive(m) ==
  /\ due[m] > 0
  /\ due' = [due EXCEPT ![m] = @ - 1]
  /\ lane' = Append(lane, m)
  /\ UNCHANGED <<recorded, laneAt, laneRun, pending, runs, row, dbErrors, crashes>>

(* Faulty variant: the insert is an upsert, no duplicate is ever reported. *)
NeverDuplicate(m) == FALSE

(* The insert of the message id hits its primary key. *)
Duplicate(m) == Contains(recorded, m)

(* firstTime, false: the duplicate leaves the lane. *)
SkipDuplicate ==
  /\ laneAt = "idle" /\ lane # << >>
  /\ Duplicate(Head(lane))
  /\ lane' = Tail(lane)
  /\ UNCHANGED <<due, recorded, laneAt, laneRun, pending, runs, row, dbErrors, crashes>>

(* firstTime, true: the id is stored. *)
Record ==
  /\ laneAt = "idle" /\ lane # << >>
  /\ ~Duplicate(Head(lane))
  /\ recorded' = Append(recorded, Head(lane))
  /\ laneAt' = "routed"
  /\ UNCHANGED <<due, lane, laneRun, pending, runs, row, dbErrors, crashes>>

(* firstTime, any other database error: handled without being stored. *)
HandleUnrecorded ==
  /\ laneAt = "idle" /\ lane # << >>
  /\ dbErrors < MaxDbErrors
  /\ dbErrors' = dbErrors + 1
  /\ laneAt' = "routed"
  /\ UNCHANGED <<due, recorded, lane, laneRun, pending, runs, row, crashes>>

-----------------------------------------------------------------------------
(* handleMessage.                                                          *)

LeaveLane ==
  /\ lane' = Tail(lane)
  /\ laneAt' = "idle"
  /\ laneRun' = 0

(* The lane starts a handler run and waits for it. *)
Await(msgs, point) ==
  /\ runs' = Append(runs, Run(msgs))
  /\ laneRun' = Len(runs')
  /\ laneAt' = point
  /\ UNCHANGED lane

(* Faulty variant: a second text opens a window of its own. *)
OwnWindow(m) == <<m>>

(* Debouncer.push: a text joins the open window, or opens one. *)
Joined(m) == Append(pending, m)

Collect(m) ==
  /\ debounced
  /\ pending' = Joined(m)
  /\ LeaveLane
  /\ UNCHANGED runs

HandleText(m) ==
  \/ Collect(m)
  \/ ~debounced /\ Await(<<m>>, "handling") /\ UNCHANGED pending

(* Faulty variant: the texts of an open window wait for its timer. *)
FileFirst(m) == Await(<<m>>, "handling") /\ UNCHANGED pending

(* Debouncer.flushNow: texts sent just before the file come first. *)
HandleFile(m) ==
  IF pending = << >>
  THEN Await(<<m>>, "handling") /\ UNCHANGED pending
  ELSE Await(pending, "flushing") /\ pending' = << >>

Route ==
  LET m == Head(lane) IN
  /\ laneAt = "routed"
  /\ \/ m \in Texts  /\ HandleText(m)
     \/ m \in Files  /\ HandleFile(m)
     \/ m \in Others /\ Await(<<m>>, "handling") /\ UNCHANGED pending
  /\ UNCHANGED <<due, recorded, row, dbErrors, crashes>>

(* Faulty variant: an error in a run breaks the chain of promises. *)
Succeeded(i) == runs[i].at = "done" /\ runs[i].saved

(* Faulty variant: the lane does not wait for the run. *)
Started(i) == i \in DOMAIN runs

(* A run is over, well or badly: inLane swallows its errors. *)
Over(i) == runs[i].at = "done"

(* The awaited run is over: after a flush the file itself is handled, else *)
(* the next delivery has its turn.                                         *)
LaneResumes ==
  /\ laneRun # 0 /\ Over(laneRun)
  /\ \/ laneAt = "flushing" /\ Await(<<Head(lane)>>, "handling")
     \/ laneAt = "handling" /\ LeaveLane /\ UNCHANGED runs
  /\ UNCHANGED <<due, recorded, pending, row, dbErrors, crashes>>

(* What is left of the window once its timer has fired. *)
Closed == << >>

(* The window's timer: the batch runs, and nobody waits for it. *)
TimerFires ==
  /\ pending # << >>
  /\ runs' = Append(runs, Run(pending))
  /\ pending' = Closed
  /\ UNCHANGED <<due, recorded, lane, laneAt, laneRun, row, dbErrors, crashes>>

-----------------------------------------------------------------------------
(* A handler run: handleTexts, or the document branch of handleMessage.    *)

SetRun(i, run) == runs' = [runs EXCEPT ![i] = run]

(* DraftIntakeService.active: the customer's open request is read. *)
ReadRow(i) ==
  /\ runs[i].at = "read"
  /\ SetRun(i, [runs[i] EXCEPT !.at = "save", !.seen = row])
  /\ UNCHANGED <<due, recorded, lane, laneAt, laneRun, pending, row, dbErrors, crashes>>

(* Faulty variant: the new answers replace what was there. *)
OnlyNew(i) == ToSet(runs[i].msgs)

(* DraftIntake.data as goto writes it: the copy that was read, and the new *)
(* answers.                                                                *)
NewData(i) == runs[i].seen \union ToSet(runs[i].msgs)

(* DraftIntakeService.save. *)
SaveRow(i) ==
  /\ runs[i].at = "save"
  /\ ToSet(runs[i].msgs) \intersect Others = {}
  /\ row' = NewData(i)
  /\ SetRun(i, [runs[i] EXCEPT !.at = "reply", !.saved = TRUE])
  /\ UNCHANGED <<due, recorded, lane, laneAt, laneRun, pending, dbErrors, crashes>>

(* Answered without a save: a menu, a question asked again, or the apology *)
(* after an error on the way.                                              *)
SaveNothing(i) ==
  /\ runs[i].at = "save"
  /\ SetRun(i, [runs[i] EXCEPT !.at = "reply"])
  /\ UNCHANGED <<due, recorded, lane, laneAt, laneRun, pending, row, dbErrors, crashes>>

(* The replies go out (or cannot: the run ends all the same). *)
Reply(i) ==
  /\ runs[i].at = "reply"
  /\ SetRun(i, [runs[i] EXCEPT !.at = "done"])
  /\ UNCHANGED <<due, recorded, lane, laneAt, laneRun, pending, row, dbErrors, crashes>>

-----------------------------------------------------------------------------

(* The server restarts: lane, window and runs are in its memory only. *)
Crash ==
  /\ crashes < MaxCrashes
  /\ crashes' = crashes + 1
  /\ lane' = << >> /\ laneAt' = "idle" /\ laneRun' = 0
  /\ pending' = << >>
  /\ runs' = [i \in DOMAIN runs |->
       IF runs[i].at = "done" THEN runs[i] ELSE [runs[i] EXCEPT !.at = "lost"]]
  /\ UNCHANGED <<due, recorded, row, dbErrors>>

LaneStep == SkipDuplicate \/ Record \/ HandleUnrecorded \/ Route \/ LaneResumes

RunStep(i) == ReadRow(i) \/ SaveRow(i) \/ SaveNothing(i) \/ Reply(i)

Next ==
  /\ \/ \E m \in Msgs : Receive(m)
     \/ LaneStep
     \/ TimerFires
     \/ \E i \in DOMAIN runs : RunStep(i)
     \/ Crash
  /\ UNCHANGED debounced

Spec == Init /\ [][Next]_vars

(* A handler runs once for each stored id and once for each insert that    *)
(* failed, at most.                                                        *)
MaxRuns == Cardinality(Msgs) + MaxDbErrors

(* Callbacks and timers get their turn, and every call a handler awaits    *)
(* returns or times out.  Meta, failures and restarts owe nothing.         *)
Fairness ==
  /\ WF_vars(LaneStep /\ UNCHANGED debounced)
  /\ WF_vars(TimerFires /\ UNCHANGED debounced)
  /\ \A i \in 1..MaxRuns : WF_vars(i \in DOMAIN runs /\ RunStep(i) /\ UNCHANGED debounced)

FairSpec == Spec /\ Fairness

-----------------------------------------------------------------------------

(* The message in the lane's hands: recorded, and not yet in a window or   *)
(* in a run.                                                               *)
InHand == IF laneAt \in {"routed", "flushing"} THEN <<Head(lane)>> ELSE << >>

(* The messages the lane has taken up, in the order in which they are      *)
(* answered: those of each run, of the open window, and the one in hand.   *)
Batches ==
  [i \in 1..Len(runs) + 2 |->
    IF i <= Len(runs) THEN runs[i].msgs ELSE IF i = Len(runs) + 1 THEN pending ELSE InHand]

(* No message is in two places of the batches. *)
Once(batches) ==
  \A i, j \in DOMAIN batches :
    \A k \in DOMAIN batches[i], l \in DOMAIN batches[j] :
      batches[i][k] = batches[j][l] => i = j /\ k = l

RecordedBefore(m, n) ==
  \E a, b \in DOMAIN recorded : a < b /\ recorded[a] = m /\ recorded[b] = n

(* Earlier places of the batches have messages recorded earlier. *)
InOrder(batches) ==
  \A i, j \in DOMAIN batches :
    \A k \in DOMAIN batches[i], l \in DOMAIN batches[j] :
      /\ i < j \/ (i = j /\ k < l)
      /\ {batches[i][k], batches[j][l]} \intersect Others = {}
      => RecordedBefore(batches[i][k], batches[j][l])

Shapes ==
  /\ debounced \in Settings
  /\ due \in [Msgs -> 0..MaxDeliveries]
  /\ recorded \in Seq(Msgs) /\ lane \in Seq(Msgs) /\ pending \in Seq(Texts)
  /\ laneAt \in {"idle", "routed", "flushing", "handling"}
  /\ runs \in Seq(RunRecords) /\ laneRun \in 0..Len(runs)
  /\ row \subseteq Msgs
  /\ dbErrors \in 0..MaxDbErrors /\ crashes \in 0..MaxCrashes

(* The variables hold queues, runs and counters of these shapes; handlers  *)
(* run no more often than messages are stored and inserts fail.            *)
TypeOK == Shapes /\ Len(runs) <= MaxRuns

(* Unless an insert failed, no message is handled twice, whatever Meta     *)
(* delivers again and whenever the server restarts: a window's batch runs  *)
(* by its timer or by a file's flush, never by both.                       *)
HandledOnce == dbErrors = 0 => Once(Batches)

(* An id that is stored will never be handled again, so it must have been  *)
(* handed on: until the server restarts no stored message is forgotten.    *)
NoneForgotten ==
  crashes = 0 =>
    \A k \in DOMAIN recorded : \E i \in DOMAIN Batches : Contains(Batches[i], recorded[k])

(* "Texts sent just before the file come first": texts and files reach     *)
(* their handlers in the order in which the lane took them up.             *)
TakenInOrder == dbErrors = 0 => InOrder(Batches)

Running(i) == runs[i].at \in {"read", "save", "reply"}

(* "One number's messages run one after another, each to its own reply". *)
OneAfterAnother == \A i, j \in DOMAIN runs : Running(i) /\ Running(j) => i = j

(* What a handler has saved of a customer's answers is still there after   *)
(* every later handler has saved the whole of DraftIntake.data again.      *)
AnswersKept == \A i \in DOMAIN runs : runs[i].saved => ToSet(runs[i].msgs) \subseteq row

(* Without the window (WA_DEBOUNCE_MS=0) both of these hold: the handlers  *)
(* of a number never overlap, and no answer saved is overwritten.          *)
UnbatchedInTurn == ~debounced => OneAfterAnother /\ AnswersKept

Answered(m) == \E i \in DOMAIN runs : runs[i].at = "done" /\ Contains(runs[i].msgs, m)

(* A message that Meta has delivered is answered in the end, unless a      *)
(* restart comes first; after a restart the lane serves those that follow. *)
Delivered(m, c) == Contains(lane, m) /\ ~Contains(recorded, m) /\ crashes = c
Done(m, c) == Answered(m) \/ crashes > c
EveryMessageAnswered == \A m \in Msgs, c \in 0..MaxCrashes : Delivered(m, c) ~> Done(m, c)

(* A message waits in the window, in the lane's hand, or in a run.         *)
Waits(m) ==
  \/ Contains(pending, m) \/ Contains(InHand, m)
  \/ \E i \in DOMAIN runs : Running(i) /\ Contains(runs[i].msgs, m)

Stage(m) ==
  IF Answered(m) THEN "answered"
  ELSE IF Waits(m) THEN "waiting"
  ELSE IF Contains(recorded, m) THEN "lost" ELSE "new"

(* Lane, window, timers and flushes keep the promise that Mailbox makes of *)
(* a customer's number.                                                    *)
Box == INSTANCE Mailbox WITH
  stage    <- [m \in Msgs |-> Stage(m)],
  batched  <- debounced,
  restarts <- crashes,
  failures <- dbErrors

ImplementsMailbox == Box!Spec

=============================================================================
