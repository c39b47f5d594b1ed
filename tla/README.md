# Sampada in TLA+

Sampada is the working system of a deed-writing office in Madhya Pradesh: a NestJS API over
Postgres (`apps/api`), a React client (`apps/web`) and two pure packages (`packages/shared`,
`packages/naksha-render`). Organisations have members with roles; members write deeds; customers
talk to a WhatsApp bot that collects what a draft needs; the office sends the draft back for
checking, registers it and follows up; colony developers report sales; employees press IN and OUT
and are paid by it. This directory specifies the parts of it that are hard to test: what happens when
requests, webhooks, timers, browser tabs and restarts interleave, and two computations with many cases.

## 1. Inventory

Paths are below `src/apps/api/src`. "Row" means a Postgres row, "memory" state of the one Node process.

| Component | State | Operations | Hard behaviours | What makes it correct |
|---|---|---|---|---|
| **Members, roles, ownership** (`users`, `ownership-transfers`, guards in `auth`) | rows `User`, `Membership`, `OwnershipTransfer`, counter `nextEmployeeCode` | join, approve, reject, discontinue, restore, change role; nominate, cancel, accept a transfer | every handler reads before its transaction, transactions are READ COMMITTED, two copies of status and role | unique codes, copies in step, discontinued means locked out, one active owner |
| **Sessions and account links** (`auth`, `users/password-reset`, `invites`, `otp`) | tokenVersion, link rows, codes in memory | login, refresh, reset, invite, OTP | read, act, mark used in separate statements | a link works once, a revoked session stays revoked |
| **Organisations** (`organizations`, `platform`) | `Organization` row | signup, delete, restore, seed | the founder's transaction and the seeding are separate | every workspace gets the starters |
| **WhatsApp inbound** (`whatsapp/whatsapp.service`, `debouncer`) | rows `WaInboundMessage`; lanes and text windows in memory | receive, skip a duplicate, route, collect texts, flush, answer | redelivery, timers, restart, errors in a handler, callbacks nobody awaits | handled once, in order, everything answered |
| **Draft intake** (`draft-intake.service`, `intake-rules`, `registry-flow`) | `DraftIntake` row with a JSON column | a paper, a photo, a text: next question | a dozen branches, answers in any order, changes of mind | a submitted request is complete, nothing is asked twice |
| **Draft review and outbox** (`draft-review.service`, `wa-outbox.service`) | `data.draftReview`, `WaNotification` | send, resend, flush, reply | post first, store after; 24-hour window; column written whole | answers only to delivered drafts, corrections kept |
| **Request board** (`wa-requests.service`) | `DraftIntake` columns | status, dates, resend, erase | updates by staff race the bot and the jobs | notices in step with the row |
| **Scheduled messages** (`followup`, `registry-jobs`, `satisfaction`) | `FollowUp`, timestamps on `DraftIntake` and `WaContact` | plan, claim, send, recur, opt out, remind, rate | several instances, claims, stale dates, a crash after the claim | one message per occasion, none after STOP, none left behind |
| **Deeds** (`deeds`; client `useAutoSaveDeed`) | `DeedTemplate`, revisions; timers of a page | save as one types, draft by Claude, fill the party in | every writer reads, numbers a revision, writes | every overwritten body is in the history, no edit forgotten |
| **Starters** (`sample-deeds.setStarter`, `organizations.service`) | the starter and its copies | mark, unmark, seed a new workspace | found first, copied or deleted later | one copy each; work the withdrawal looks for stays |
| **Live presence** (`deed-presence.service`; client `useDeedPresence`) | rooms and subjects in memory | beat, leave, listen, sweep | lost, late and reordered beats, sleeping tabs | who is there is shown, who is gone is not |
| **Colony sales** (`colony.service`) | `ColonySale`, `ColonyPlot`, deeds | enter, take a text or paper, make a deed, cancel, import | two copies of "free", no transaction, a call dies midway | one sale with a deed per plot, one deed per sale as far as the calls allow, register in step |
| **Attendance and salary** (`attendance`) | records, the settings row, `SalarySheet` | press, save settings, compute, adjust, lock, send slips | read, compute, write without a condition; halves and fractions | one IN and OUT, locked stays locked, the pay adds up |
| **Call-backs, tasks, owner assistant, archive copies, front door** | rows, menus kept in the contact row | create, close, remind, classify | numbers drawn as maximum plus one | unique numbers, one reminder |
| **Tenant isolation, AI drafts, guideline, properties, statistics, drawings** | rows of their own, or none | mostly create, read, update, delete | - | - |

The components interact through the rows: the web client's requests, the webhook, the timers of the
text window and the jobs all read and write the same rows, and nothing is locked except by a unique
key, a conditional `updateMany`, or a transaction's own writes. The outbox calls Meta's Graph API; Meta
calls back with messages, which it delivers again when it likes. Presence alone lives in memory and is pushed to tabs.

## 2. Modules

| Module | Models | Kind |
|---|---|---|
| `OrgMembership`, `MemberLifecycle` | members, roles and ownership of one organisation; what it promises about each member | detailed, abstract |
| `WaInbound`, `Mailbox` | messages of one number, from webhook to answer; what a customer is promised about each message | detailed with fairness, abstract |
| `DraftIntake` | the conversation that collects a request | one message a step |
| `DraftReview` | the draft PDF of one request, from sending to the customer's answer | detailed |
| `FollowUps` | the follow-ups of one request and the daily job | detailed, with fairness |
| `RequestNotices` | registry reminder, packet, rating, feedback of one request | detailed |
| `DeedEditing` | the body of one deed: editor pages, Claude's drafting, the party's form | detailed |
| `Starters` | a starter deed and its copies | detailed |
| `DeedPresence` | who has a deed open | timed by ticks |
| `ColonySales` | the plots and sales of a colony | detailed |
| `Attendance` | a day's presses, and the settings row | detailed |
| `Payroll`, `SalaryLine` | the month's sheet; the computation of one line of it | detailed, algorithm |
| `OrgMembershipProofs`, `WaInboundProofs`, `DraftReviewProofs`, `ColonySalesProofs` | theorems about the module named | TLAPS |
| `IntakeProofs` | theorems about `DraftIntake`, and about `MCIntake` | TLAPS |
| `DeskProofs` | theorems about `FollowUps` and `RequestNotices`, and about `MCDesk` | TLAPS |
| `DeedsProofs` | theorems about `DeedEditing`, `Starters`, `DeedPresence` | TLAPS |
| `AttendanceProofs` | theorems about `Attendance`, `Payroll`, `SalaryLine`, and about `MCOffice` | TLAPS |
| `MCOrgMembership`, `MCDraftReview`, `MCDraftIntake` | symmetry, values of constants, the schedules of `OrgApart` (`Apart`) | model checking |
| `MCIntake`, `MCLive`, `MCDesk`, `MCOffice` | several modules, one run | model checking |

`DraftIntake` takes a customer's message as one step and `WaInbound` says which messages reach it and in what order; `DraftReview`,
`FollowUps` and `RequestNotices` are three views of one submitted request. `Payroll` keeps, for a line,
what it was computed from; `SalaryLine` is that computation.

The last four MC modules explore modules that share no state by one run each: `part` says which module
moves, the variables of the others keep a fixed value. The parts an MC module EXTENDS have their
properties checked under their own names. `FollowUps` in `MCLive` shares names with the
part extended beside it and is INSTANCEd; what is checked of it is restated as `part = "..." => ...`.

`MemberLifecycle` is the abstract side of a refinement: `OrgMembership` instantiates it with
`phase` the membership status and `access` the users with an honoured session, and the property
`ImplementsLifecycle` says that every interleaving of statements is one of its moves or a stutter.
`Mailbox` is the same for `WaInbound`: the stage of a message (new, waiting, answered, lost) is computed from lane,
window, runs and stored ids (`Stage`), and `ImplementsMailbox` says that every step takes one new message up, answers messages that wait
(several only if they are texts), is a restart, which loses what waits and nothing else, or changes no stage. After a
failed insert `Mailbox` promises nothing, as the code then handles a message it cannot recognise when it comes again.

Operators named as faulty variants (for instance `SameCounter` before `CounterAfter`) are used by
no action. Each is a plausible mistake in the code that the operator after it translates; put in its
place it must break the property that guards against it. `PROJECT.json` pairs them ("mutants"), and
its "map" gives, for every definition, the lines of the code.

Conventions. A handler is a sequence of database statements: `pc` (in `ColonySales` `stage`) is the
statement a request runs next and `local` (`held`) what it was asked and what it has read, which may
be stale. A statement outside a transaction is one step; in a transaction (READ COMMITTED here) each read
is a step and the writes appear together in the commit. A handler can stop after any statement. Some
properties hold only when calls do not get in each other's way: a history variable
(`overlap`, `overlapped`, `crossed`, `straddled`, `pressed`, `disturbed`, `uneven`, `interrupted`,
`rushed`, `mingled`, `unheard`) records that they did, no action reads it, and the property names it. It is
per plot or per person where the code's promise is, and says exactly where the promise ends.

### OrgMembership

The actions follow the handlers: `BeginSetStatus`, `ReadForStatus`, `CheckOwnerForStatus`, `CommitStatus` are
`setMemberStatus`; `BeginSetRole` to `CommitRole` are `adminUpdateUser`; and so on.
A session is `honoured` when its tokenVersion is the user's current one; the role claim
inside a token, profile fields and passwords are left out; user rows are used once (a deleted member
who signs up again is another user, as in the code); one organisation, because every query is scoped
to one; 7 days pass at any time (`Expire`), after which the record of a closed transfer no longer matters.
The state `deleted` stands for the missing rows of a rejected signup. The guards are evaluated when a
request starts, as the code does, so a request of a member discontinued meanwhile still runs to its end.

### WaInbound

One number, because lanes, windows and requests are per number. `lane` is the chain of promises of
`inLane`; `laneAt` tells whether its head has been recorded (`routed`), is waiting for the flush of
an open window (`flushing`) or for its own handler (`handling`). `pending` is the debouncer's entry.
`runs` are executions of a handler, each with the copy of `DraftIntake.data` it has read: `row` is
reduced to the set of messages whose answers it holds. `Crash` drops what is in memory and keeps the rows.
`debounced` is `WA_DEBOUNCE_MS > 0` (10 s by default; the repository's tests set it to 0). Left out: branches for the
owner's, the staff's and the colony companies' numbers, which pass through the same lane, and the text of replies.

### DraftIntake

`step` is the question that waits, `data` the JSON column reduced to which answers, photos and papers are there,
`paper` what the reader made of the property's paper; a `bareDeed` is a sale deed whose property it could not make out, which gets
no confirmation of the property (`WithProperty`) but counts as the sale deed wherever the code asks for one only (`SaleDeeds`). A text can answer the question, or several at
once, change the kind of deed, cancel, reuse what an earlier request said, or say "later";
a photo is read, unreadable, or waits for a yes. `Advance` asks the first question that has no answer, as
`goto` does. Values, validation messages, guideline amounts and the owner's alert are abstracted; `ReadsOf` says which fields a card may fill.

### DraftReview

One submitted request. Actors in `Slots` are the staff's HTTP requests and the bot's handler runs; a
step is one statement or one Graph API call. `window` is the 24-hour window; `delivered` is what
WhatsApp accepted, `status` what the `WaNotification` row says, and the two differ between the post
and the write. `review` is the JSON `draftReview`; handlers write it back from the copy they read.
`listed` and `noted` are the two places a correction can go. Left out: other message kinds, edits of
the staff note, the notice template (it delivers no PDF), the 7 days after which a PENDING draft is no longer flushed.

### FollowUps and RequestNotices

A member of staff or the customer (`Desk`) against instances of the job (`Jobs`). `FollowUps` has the planning
on DONE, the daily claim and what follows it, the successor of a yearly one, STOP and "yes", a handler that dies, and the
request erased. `silenced` are the rows nobody had claimed when STOP was stored. `RequestNotices` has the registry
reminder with its claim (any other date or time of the registry, or none, frees it again: `RegistryChanged`; `told` is what the last reminder told), the packet, the rating question a day after closing, the rating and the feedback, with `talk`
the conversation in the contact row. A year is one day of the model.

### DeedEditing, Starters, DeedPresence

A page's step is the code between two awaits: debounce and retry timers, the save that is in flight, the save
wanted meanwhile, the page left with a save under way, a page that gives up. A server's call reads the row, draws the next
revision number, creates the revision and writes the row. `history` is every body the row ever had. Titles are left out: no revision depends on them.
In `Starters` a copy is `edited`, or has something `hung` off it that the withdrawal looks for (five tables), or has `papers`, the uploaded source documents, for which it does not look. In `DeedPresence` time passes in ticks; a beat is in
time or `late`, or lost; `age` is how long a tab was not heard of; `Tick` waits for what is due at the moment.

### ColonySales, Attendance, Payroll, SalaryLine

`plots` and `sales` are the two places that say whether a plot is free; `deeds` counts the deeds made of a sale, up to two. Buyers, payments and the reading of papers are
abstracted to whether a call goes on. `Attendance` has the IN/OUT/FIELD press with its readings of place and network,
and the three writers of the one settings column. In `Payroll` attendance, leave and salaries are a version
number (`facts`), lines are what they were computed from, and who was sent a slip is noted in `slips` only. `SalaryLine` counts
the days of a month one by one, in hundredths of a day, to which the code rounds parts of a day; money is rounded as
`Math.round` does on the exact quotient, where the code's floating point could differ by the last bit.

## 3. Runs

| Run | Bounds | Shows |
|---|---|---|
| `OrgMembership` | 2 users, 2 requests at a time, 1 transfer | `CodesUnique`, `DiscontinuedLocksOut`, `ImplementsLifecycle` (refinement) under all interleavings |
| `OrgApart` | 2 users, both owners, 2 requests at a time, 2 transfers; requests that change a member or the owner, or a transfer, do not overlap between first read and commit | `OwnershipKept`, `RolesAgree`, `TransfersSettleOnce`, with everything else interleaved statement by statement |
| `OrgOwnerless` | as `OrgMembership` | **violated**: `AtLeastOneActiveOwner` |
| `Intake` | inbound: 2 texts, 1 file, each delivered up to twice, 2 restarts; conversation: buyer, mortgagor, 1 witness | `HandledOnce`, `NoneForgotten`, `TakenInOrder`; `SubmittedComplete`, `StaffWarned`, `AskedOnce` |
| `WaOverlap` | 1 text, 1 file | **violated**: `OneAfterAnother` |
| `IdFilesDropped` | as the conversation of `Intake` | **violated**: `IdFilesListed` |
| `DraftReview` | 2 drafts, 2 slots, 3 customer messages | `AnswersADelivery`, `CorrectionKept`, no deadlock |
| `DraftForgotten` | 1 draft, 1 slot, 1 message | **violated**: `DeliveryStartsWait` |
| `Live` | 2 texts, 1 file, 1 failed insert, 1 restart, window on and off; 1 follow-up, 1 job, 1 death | `MessagesAnswered`, `DueSettled` under fairness; `UnbatchedInTurn`, `ImplementsMailbox` (refinement) |
| `Desk` | 2 follow-ups, 1 handler, 2 jobs, 2 days, 4 updates; 1 plot, 2 calls, 2 sales | `PartsTyped`, `PostedOnce`, `StopHeard`, `PlannedWhenDone`, `NoticesInStep`, `ConversationKept`; `SoldBlocks`, `RegisterAgrees` |
| `Office` | deed: 2 pages, 2 calls, 2 edits, 1 other call, 1 fault; starter: 1 workspace, 2 calls, 3 marks; 2 calls, 1 person; month of 4 days; 1 tab | `PartsTyped`, `HistoryKept`, `EditsKept`, `WorkStaysUndisturbed`, `CopiesInStep`, `FinalLocked`, `SlipsTrue`, `PunchedOnce`, `SettingsKept`, `PayRight`, `BetterDayNeverCosts`, `BeatsRideOut`, `NoGhost`, `ScreensTrue` |
| `DeedHistoryLost` | as the deed of `Office` | **violated**: `HistoryComplete` |

Why the bounds are enough. Almost every race is between what one call has read and what another
writes, so two calls show it, and theorems lift the properties marked in section 5 to any number.
`OrgApart` starts with two owners, so that one may resign or be discontinued and the last may not, and with
two transfers, so that ownership moves on while an older one is there; logins, expiry and every statement outside the excluded windows cross with what
the other request does. In `Intake` two texts fill a window, the file
flushes it, a second delivery makes a duplicate at every stage, and two restarts let a message be lost and delivered
again; a failed insert is left to `Live`, as `HandledOnce` and `TakenInOrder` promise nothing after one. Two of a
mortgage's people are enough to go on from one to the next, and a card with a name, and one with a PAN, stand for the photos. In
`DraftReview` two drafts allow a reply to a draft that was replaced, and three messages an answer, a
flush and a second answer. In `Desk` two days let a day's job meet the rows of the day before and a yearly follow-up its successor, and
two sales of one plot are what its checks compare. An update of a request is
one form of the staff's page (status, registry or follow-up: `WhatsappRequestDetailPage.tsx`), and four of them close, reopen and close
a request around a change of its registry. In `Office` two pages and an AI draft give a revision three writers; three marks
are mark, unmark, mark; a month of four days has each pair of kinds of day beside others, and the salary of 7 rupees makes every rounding happen.
One tab runs with a beat of 2 ticks, 7 for silence and a sweep of 2, which keep the order of the code's 8, 25 and 5 seconds; tabs
do not touch each other except in `ScreensTrue`, which the theorem proves for any number.
Constants named `Max...` are the only bounds on counters.

Deadlock. `DraftReview` is checked for deadlock. The other systems really stop in their bounded instances: nothing is left
when there is nobody to act on, the sales are entered or the days are over, hence `CHECK_DEADLOCK FALSE`.

Symmetry is used in the safety runs with interchangeable constants. In `Desk` the runs of the job and the calls about
a colony, in `Office` the calls of the parts, are given the same model values, so that one permutation serves both. `Live` uses none.

Fairness (`Live` only). A step of the lane, the window's timer and each handler run are weakly
fair: Node runs every ready callback and timer, and a call that is awaited returns or fails. So is an instance's job:
its timer starts it again every minute. Meta's deliveries, the staff, failures and restarts are not fair.
`MessagesAnswered` lets go of a message when a restart comes first: the 200 has gone out
and only the message id is stored, so the code does not promise more.

## 4. Disagreements found

1. **An organisation can be left without an active owner** (`OrgOwnerless`). `acceptTransfer` re-reads
   both memberships in its transaction and its comment concludes that there are "never zero owners".
   The reads take no lock. If an administrator discontinues the nominee between those reads and the writes,
   the swap makes an INACTIVE member the owner. The claim holds as long as no two
   requests are between first read and commit of a member or the owner at once (`ChangesApart`: `OrgApart`, and a theorem), which a row lock at
   the first read would ensure.
   Likewise, two requests in flight can leave a transfer both cancelled and confirmed, or two open ones, and can set
   `User.role` and `Membership.role` apart; these claims are checked and proved under the same kind of condition.
2. **Messages of one number do not always run one after another** (`WaOverlap`). With the default
   window the batch runs from a timer, outside the lane: a photo's handler and a text batch
   interleave and one overwrites the other's answers. The tests run without the window, where the claim
   holds (`UnbatchedInTurn`).
3. **A draft sent by the resend button is never awaited** (`DraftForgotten`). The test "a PDF that went
   out after the customer wrote starts the wait" covers the flush only; the button posts the
   same row and leaves `awaiting` false, so the customer's "SAHI HAI" is an ordinary text.
4. **A photo can be left out of the list for deletion** (`IdFilesDropped`). "Every ID file is listed for deletion after the
   request closes"; changing the deed at a card that waits for its yes starts from a fresh data object and forgets the photos taken so far.
5. **The history of a deed can lack a body** (`DeedHistoryLost`). `aiDraft` keeps as the revision the copy it read before
   Claude answered; what an editor page saved meanwhile is overwritten and in no revision.

Met on the way. Three are not excluded, the properties say what the code does:

- **Papers do not keep a starter's copy.** `withdrawUnusedCopies` deletes a copy "only if nothing at all hangs off it"; its queries
  do not look for uploaded source documents (`DeedSourceDocument`), so a copy with nothing else is deleted and its papers name a deed that is gone.
  `UploadPaper` models it; `WorkStaysUndisturbed` is about edits and the five tables, and `CopiesInStep` says that such copies go.
- **A sale whose property nobody could read goes in unmarked.** `startDeed` marks a sale "no sale deed to read the property from" if the
  paper is no sale deed; a sale deed without a property passes (`bareDeed`). `StaffWarned` asks for a sale deed, not for its property.
- **Taking the registry's date away lets the reminder go out again**, as another date or time does: a job that had listed the row claims it anew
  and reminds of what it had read. `NoticesInStep` counts every such change.

Excluded by name in the properties: a partner who edits a copy, or hangs something off it, while a withdrawal is under way loses the work
(`disturbed`); two calls that make the deed of one sale at once make two deeds, and so does a call after one that died before the sale was marked
(`rushed`); a sale cancelled while its deed is made can leave a plot two sales with a deed (`interrupted`); a salary computation that began before
the sheet was locked can overwrite it (`straddled`); two presses at once can both be recorded (`pressed`).

## 5. Proofs

Eight modules prove theorems, for every value of the constants. TLC checked the
strengthenings on small instances first. No module with a theorem reaches a RECURSIVE operator.
What a theorem assumes of the constants is a named ASSUME of the module it is about (`OrgAssumption`, `InboundAssumption`, ...), which
TLC evaluates in the runs, or a hypothesis in the theorem itself.

`OrgMembershipProofs`, from `OrgAssumption` (the first owners are users, finitely many and at least one; the two "no ..." values are outside their sets):

- `TypeCorrect`: `[]TypeOK`. Inductive as `Shape`: `TypeOK`, that a request slot holds the
  arguments its statement needs (`Arguments`), and that a created transfer has two parties (`Parties`).
- `LockOutCorrect`: `[]DiscontinuedLocksOut`. A commit that sets a status is right only because
  a member once let in is never deleted or sent back to PENDING: `SettledTarget` carries that from the read to the commit.
- `CodesCorrect`: `[]CodesUnique`. A role change holds a code that it read before its transaction;
  `SeenCodes` says such a code is below the counter and in nobody else's row or hands.
- `LifecycleImplemented`: `ImplementsLifecycle`. Initial states map to initial states, and by
  the invariants above every step is a move of `MemberLifecycle` or leaves `phase` and `access` alone.
- `OwnershipStays` (`OwnershipKept`), `RolesStayInStep` (`RolesAgree`), `OneTransferAtATime` (`TransfersSettleOnce`), for any users, transfers and
  requests. Without a condition they are false (`OrgOwnerless`), so the first two assume `[]ChangesApart` (no two requests are between their
  first read and their commit of a member or the owner at once) and the third `[]TransfersApart` (the same about a transfer). Both are conditions on the
  schedule, met by every serial one and by many that are not; `OrgApart` explores just these. `MemberReads` says that what such a request
  has read is still so when it commits, `RowsInStep` that the rows agree between the statements; joining and approval, which write rows of their own, need no
  condition (`Signups`, `SignupMoves`). The number of owners is compared as the cardinality of a finite set that changes by one.

`WaInboundProofs`, from `InboundAssumption` (the kinds of message are disjoint and finitely many, the bounds are numbers): `InboundTypesCorrect` (`TypeOK`),
`HandledAtMostOnce` (`HandledOnce`), `NothingForgotten` (`NoneForgotten`), `TextsBeforeTheFile` (`TakenInOrder`), `OneAtATimeUnbatched` (`UnbatchedInTurn`),
`MailboxImplemented` (`ImplementsMailbox`).
`LaneInv` says what the lane, its head and the window may be at each point; `Counted` that no run, waiting text or message in hand lacks a row or a failed
insert of its own; `Tracked` that until an insert fails, the batches of the runs, the window and the lane's hand hold stored messages only, each once and in order;
`Alone` that without a window only the run the lane waits for is under way, and what it has read is what it will overwrite. A step moves whole batches,
and one lemma about such moves (`Rearranged`) serves all steps but the insert and the joining of the window.
For the refinement `OneKind` adds that a run has one message or texts only, and `OnePlace`, from `Tracked`, that a message is in one place: so a
reply answers its own batch and nothing that waits elsewhere (`MailStep`, one step per action).

`IntakeProofs`, about `DraftIntake`, for any people and photos asked of them:

- `StaffAreWarned` (`StaffWarned`), from no assumption at all: nothing that staff have to settle
  is in a request nobody was warned of, as far as the flow marks it (section 4). Inductive as `Warned`, which says it of every state of the conversation; `Alike`
  collects the steps that change nothing the staff settle.
- `RequestsComplete` (`SubmittedComplete`), `AskedOnlyOnce` (`AskedOnce`) and `IntakeTypesCorrect` (`IntakeTypeOK`), from `IntakeAssumption`:
  a mortgage has somebody to ask about, and the photos are of the four kinds. Neither property is inductive: that a yes to the summary hands in what is complete
  rests on every question having let through only what fits. `Conversing` says that the question a conversation is at fits what is known (`Fits`): a question about
  a person has no answer yet; in a sale everything asked before it has one (`Before`), the amount waits for the last field, a large sum for the PANs; in a mortgage the papers come first (`PapersIn`).
  `GotoFits` shows that the detours of `goto` (an offer, photos, the registry) lead from what fits to what fits, so that each action
  has only to show that it goes to such a question. A sale gets to the summary with nothing missing; a mortgage may not, and is asked.

`DraftReviewProofs`, from `MaxTexts \in Nat`: `ReviewTypeCorrect` (`TypeOK`), `AnswersCorrect` (`AnswersADelivery`) and `CorrectionsCorrect`
(`CorrectionKept`), for any drafts, handlers and messages. A review written back from a stale copy is harmless because what
any copy awaits was delivered before it was read (`Sound`, in each slot `SlotOK`), and what a row or a slot calls sent was
delivered (`SentOut`).

`DeskProofs`, about two modules:

- `FollowUps`, from `FollowUpAssumption` (jobs are no handlers, `NoId` is no follow-up, the bounds are numbers): `FollowUpTypesCorrect` (`TypeOK`), `NeverTwice`
  (`PostedOnce`), `StopIsHeard` (`StopHeard`), `PlansFollowTheRequest` (`PlannedWhenDone`), for any rows, handlers and instances. `Claims`: a claimed row is in
  one job's hands, was not posted before, and never becomes claimable again. `Hushed`: a job that holds a silenced row will see the STOP before
  it posts. `Serial`: while handlers follow one another, what the one under way has read is true and what it has still to write puts the plans in step.
- `RequestNotices`, from `NoticeAssumption` (the bounds are numbers): `NoticeTypesCorrect` (`NoticeTypeOK`), `NoticesStayInStep` (`NoticesInStep`), `ConversationHeld`
  (`ConversationKept`, an action property). `Counted` counts, with cardinalities, claims on their way to the customer
  and claims still free against the changes of the registry, however many instances run; `OneByOne` says what a worker knows at each statement
  while workers follow one another.

`DeedsProofs`, about three modules:

- `DeedEditing`, from `NobodyAssumption` (`Nobody` is no editor): `DeedTypesCorrect` (`DeedTypeOK`), `EditsStay` (`EditsKept`), for any pages, calls, texts and
  failures. `Awaits` says that a page that waits for a save waits for one call; `Follows` that a page that has heard of all its saves has one call under way at most
  (`Known`), and, if it wrote last, the row holds what the page takes for saved or will be told (`SavedLast`); `Pending` that a page with unsaved text has a timer or a save.
  `HistoryStays` (`HistoryKept`), for a history of any length: `HistoryInv` says that while no call reads the row as another is about to write it, one call at most is about
  to (`OneWriter`), and what it overwrites is what it has read and kept (`KeepsWhatItRead`); `StepsAppend` says what one more body adds to the recursive function `Steps`.
- `Starters`, from `StarterAssumption` (`MaxCopies` is a number): `StarterTypesCorrect` (`StarterTypeOK`), `WorkStaysCorrect` (`WorkStaysUndisturbed`), `CopiesStayInStep` (`CopiesInStep`), for any
  workspaces and calls. `Numbered`: copies are numbered as made; `Undisturbed`: what a withdrawal is about to delete has nothing on it that it looks for (`Candidate`);
  `InStep`: while no call crosses another, one call at most runs (`OneCall`), the workspaces it is to serve have no copy (`Decided`), nobody has two
  (`Single`), and a copy without such work, of a deed that is no starter, is about to be withdrawn (`Cleared`).
- `DeedPresence`, from `Pace` (a message in time takes less than a beat, and three beats and a message fit into the silence): `TwoBeatsMayDrop`, `GhostsGo`, `ScreensAreTrue`,
  for any number of tabs and any such pace. `Riding` relates the time since a tab was heard, the time to its next beat and the
  beats it missed; `Fresh` the time since it was heard and the time to the next sweep; `OpenWhenHeard` that a tab that counts as heard is open.

`ColonySalesProofs`, from `MaxSales \in Nat` and at least one plot, for any plots, calls and sales: `SoldPlotsBlock` (`SaleTypeOK` and `SoldBlocks`) and `RegisterStaysInStep` (`RegisterAgrees`).
`OneClaim` counts a sale as claimed from the moment a call is past its checks, so that two calls cannot both be about to make
a deed; `Sound` and `Standing` say that a call past its checks holds a sale of its plot that nobody cancelled. `OldInv` says that calls about a plot with an old deed
only get as far as a check that turns them away. `DeedInv` says that a sale got its deed once at most, and then is no draft or waits for its mark (`Single`), and that no call
past its checks holds a sale with a deed (`Undone`), while one call at a time may make a deed of its plot. `Tidy` is the register of one plot between calls, `Amid` what the one call under way has done to it so far;
calls about other plots leave both alone (`Apart`).

`AttendanceProofs`, about three modules:

- `Attendance`, from `AttendanceAssumption` (somebody is employed, gap and bounds are numbers): `AttendanceTypesCorrect` (`AttendanceTypeOK`), `PunchedOnceCorrect` (`PunchedOnce`), `SettingsKeptCorrect`
  (`SettingsKept`), for any requests. `PressesApart`: for somebody whose presses never overlapped, what the press has decided still holds when it writes. `WritersApart`: the
  same of the writers of the settings row.
- `Payroll`, from `Bounds` (somebody is employed, the bounds are numbers): `PayrollTypeCorrect`, `FinalCorrect` (`FinalLocked`) and `SlipsCorrect` (`SlipsTrue`).
  As long as nobody straddles the locking, no call holds an unlocked copy of a locked sheet (`Unlocked`, `NewSheet`, `OnlyFinalize`), the
  locked lines have every stored adjustment (`LockingInStep`, `LockedInStep`) and whoever delivers has read them (`Delivering`).
- `SalaryLine`, from `TermsInRange` (salaries and extras are naturals, a late day costs no more than a day:
  `packages/shared/src/attendance.ts`): `LineTypeCorrect`, `PayCorrect` (`PayRight`), `BetterDayCorrect` (`BetterDayNeverCosts`), for months of any length (the latter from two days on). The
  arithmetic rests on lemmas about products and `\div` of naturals: they are naturals and grow with their operands.

What the runs explore. `MCDesk`, `MCIntake` and `MCOffice` explore several components by one specification. `DeskPartsImplemented` (`DeskProofs`),
`RequestPartsImplemented` (`IntakeProofs`) and `OfficePartsImplemented` (`AttendanceProofs`) prove that such a specification implements that of each of its
components, so the theorems above hold of what the runs explore; `DeskTyped` and `OfficeTyped` conclude their `PartsTyped`
from the type theorems of the components.

Only model-checked: the liveness properties `MessagesAnswered` and `DueSettled`; every other property of a passing run is a theorem (`OwnershipKept`, `RolesAgree`, `TransfersSettleOnce` under the condition on schedules that their runs have). Out of the prover's reach and left to TLC: liveness under fairness, ENABLED, and
the library's induction theorems, which take an operator; `SetInduction` of `DeedsProofs` is induction without one, and `LeastOf` of `IntakeProofs` takes the least of a set of places
where an induction over a list would do. No backend proves that a string is in `STRING`, so the questions have a set of their own (`Steps`).
The types of `OrgMembership`, `WaInbound`, `DraftIntake` and `DraftReview` are proved, and not run.

## 6. Not modelled

- Sessions behind `honoured` (tokenVersion, refresh), reset links, invites, OTP: one row and one actor each.
- The deletion of ID photos 90 days after closing, and archive copies; the lead nudge; call-backs, tasks, owner assistant, staff mode: numbers drawn as
  maximum plus one with a retry and reminders claimed by an update, patterns that `ColonySales`, `FollowUps` and `RequestNotices` show, with one owner as the only user.
- Leave requests, holidays, the attendance reports and reminders, and the status of one day (a function of its records).
- The rest of colonies (project setup, going live, reading of papers), of deeds (titles, party members, uploaded
  documents, plans) and of the board (assignment, register numbers); the party form's live highlights.
- The front door: classification of texts and menus. Tenant isolation: a rewriting of queries, which every module assumes.
- AI drafting and archive risk, guideline rates, properties, health, statistics, number formatting, drawings, and the
  screens of the web client: no state that interleaves, and unit tests reach them.

"components" in `PROJECT.json` lists every part with its status, "hazards" what is hard to test, with the properties that cover it or why none does.

## 7. Plan

Done, in order: members and ownership; the inbound pipeline; draft review; follow-ups and notices; the conversation;
deeds, starters and presence; attendance and salary; colony sales. Next, if the project is taken further:

1. `Sessions`: tokenVersion, access and refresh tokens and links, refining `honoured`.
2. Tasks and the owner assistant; the retention job against a reopened request; staff-note edits in `DraftReview`.

## 8. Running

    tlc -config OrgMembership.cfg MCOrgMembership
    tlc -config Intake.cfg MCIntake
    tlapm OrgMembershipProofs.tla

`PROJECT.json` names the module of each .cfg. With two workers the longest runs (`Office`, `OrgMembership`, `Intake`, `Desk`) take one to three minutes.
