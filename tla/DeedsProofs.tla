---------------------------- MODULE DeedsProofs ----------------------------
(***************************************************************************)
(* What goes on around the deeds.  DeedPresence, for any number of tabs    *)
(* and any pace that leaves room for three beats: who is in the room, for  *)
(* how long, and who sees it.  Starters, for any number of workspaces,     *)
(* copies and calls of the staff: what a withdrawal leaves, and how many   *)
(* copies a workspace holds.  DeedEditing, for any number of pages, calls, *)
(* texts, edits and failures: that no page forgets an edit, no older save  *)
(* overtakes a newer one, and the revisions keep every body the deed had.  *)
(*                                                                         *)
(* Of Starters, Numbered holds whatever interleaves, Undisturbed says what *)
(* a withdrawal has found, InStep what the calls know as long as none      *)
(* crosses another.  Of DeedEditing, Awaits says what every page waits     *)
(* for, Follows what a page that has heard of all its saves knows of them, *)
(* and KeepsWhatItRead what a call about to write has read and kept.       *)
(***************************************************************************)
EXTENDS DeedEditing, DeedPresence, Starters, FiniteSetTheorems, WellFoundedInduction, TLAPS

(* How long a tab may have been unheard of when its next beat is due.      *)
Due(dropped) ==
  IF dropped = 0 THEN Beat ELSE IF dropped = 1 THEN 2 * Beat ELSE 3 * Beat

(* Its next beat is due in time, or on its way since it was due.           *)
Riding(t) ==
  t \in heard /\ missed[t] <= 2 =>
    /\ t \in room
    /\ \/ age[t] + beatIn[t] <= Due(missed[t])
       \/ /\ t \in beat /\ wait[t] + beatIn[t] = Beat
          /\ age[t] + beatIn[t] <= Due(missed[t]) + Beat

(* The time is up at a sweep or before the next one.                       *)
Fresh(t) == t \in room => age[t] + sweepIn <= Stale + Sweep

OpenWhenHeard(t) == t \in heard => mode[t] = "open"

PresenceInv ==
  /\ PresenceTypeOK /\ ScreensTrue
  /\ \A t \in Tabs : Riding(t) /\ Fresh(t) /\ OpenWhenHeard(t)

-----------------------------------------------------------------------------
(* The pace, as the provers use it.                                        *)
LEMMA PaceFacts ==
  /\ Beat \in Nat /\ Stale \in Nat /\ Sweep \in Nat /\ Delay \in Nat
  /\ Sweep > 0 /\ Delay < Beat /\ 3 * Beat + Delay <= Stale
BY Pace DEF Pace

(* Nobody is there at first.                                               *)
LEMMA PresenceStarts == PresenceInit => PresenceInv
<1> SUFFICES ASSUME PresenceInit PROVE PresenceInv
  OBVIOUS
<1>1. PresenceTypeOK
  <2>1. 0 \in 0..Beat /\ 0 \in 0..Delay /\ 0 \in 0..3 /\ Sweep \in 0..Sweep
    BY PaceFacts
  <2>2. {} \in SUBSET Tabs
    OBVIOUS
  <2>3. /\ beatIn \in [Tabs -> 0..Beat] /\ missed \in [Tabs -> 0..3]
        /\ wait \in [Tabs -> 0..Delay] /\ age \in [Tabs -> Nat]
    BY <2>1 DEF PresenceInit
  <2>4. /\ shown \in [Tabs -> SUBSET Tabs]
        /\ mode \in [Tabs -> {"unopened", "open", "asleep", "closed"}]
    BY <2>2 DEF PresenceInit
  <2> QED BY <2>1, <2>3, <2>4 DEF PresenceInit, PresenceTypeOK
<1>2. ScreensTrue /\ \A t \in Tabs : Riding(t) /\ Fresh(t) /\ OpenWhenHeard(t)
  BY DEF PresenceInit, ScreensTrue, Riding, Fresh, OpenWhenHeard
<1> QED BY <1>1, <1>2 DEF PresenceInv

(* What a tab does leaves room and screens alone, and its beats due in     *)
(* time.                                                                   *)
LEMMA TabKeeps ==
  ASSUME PresenceInv, NEW t \in Tabs,
         Open(t) \/ SendBeat(t) \/ MoveCaret(t) \/ Leave(t) \/ Sleep(t) \/ Wake(t)
           \/ BeatLate(t) \/ Lose(t)
  PROVE  PresenceInv'
<1> USE PaceFacts DEF PresenceInv, PresenceTypeOK
<1>1. UNCHANGED server
  BY DEF Open, SendBeat, MoveCaret, Leave, Sleep, Wake, BeatLate, Lose
<1>2. ScreensTrue' /\ \A u \in Tabs : Fresh(u)'
  BY <1>1 DEF server, screens, ScreensTrue, Fresh
<1>3. CASE Open(t)
  <2>1. PresenceTypeOK' /\ \A u \in Tabs : OpenWhenHeard(u)'
    BY <1>1, <1>3 DEF Open, Post, server, screens, tabVars, mailVars, OpenWhenHeard
  <2>2. ASSUME NEW u \in Tabs PROVE Riding(u)'
    BY <1>1, <1>3 DEF Open, Post, server, screens, tabVars, mailVars, Riding, OpenWhenHeard
  <2> QED BY <1>2, <2>1, <2>2
<1>4. CASE SendBeat(t)
  <2>1. PresenceTypeOK' /\ \A u \in Tabs : OpenWhenHeard(u)'
    BY <1>1, <1>4 DEF SendBeat, Post, server, screens, tabVars, mailVars, OpenWhenHeard
  <2>2. ASSUME NEW u \in Tabs PROVE Riding(u)'
    BY <1>1, <1>4 DEF SendBeat, Post, server, screens, tabVars, mailVars, Riding, OpenWhenHeard, Due
  <2> QED BY <1>2, <2>1, <2>2
<1>5. CASE MoveCaret(t)
  <2>1. PresenceTypeOK' /\ \A u \in Tabs : OpenWhenHeard(u)'
    BY <1>1, <1>5 DEF MoveCaret, Post, server, screens, tabVars, mailVars, OpenWhenHeard
  <2>2. ASSUME NEW u \in Tabs PROVE Riding(u)'
    BY <1>1, <1>5 DEF MoveCaret, Post, server, screens, tabVars, mailVars, Riding, OpenWhenHeard
  <2> QED BY <1>2, <2>1, <2>2
<1>6. CASE Leave(t)
  <2>1. PresenceTypeOK' /\ \A u \in Tabs : OpenWhenHeard(u)'
    BY <1>1, <1>6 DEF Leave, Post, server, screens, tabVars, mailVars, OpenWhenHeard
  <2>2. ASSUME NEW u \in Tabs PROVE Riding(u)'
    BY <1>1, <1>6 DEF Leave, Post, server, screens, tabVars, mailVars, Riding, OpenWhenHeard
  <2> QED BY <1>2, <2>1, <2>2
<1>7. CASE Sleep(t)
  <2>1. PresenceTypeOK' /\ \A u \in Tabs : OpenWhenHeard(u)'
    BY <1>1, <1>7 DEF Sleep, Post, server, screens, tabVars, mailVars, OpenWhenHeard
  <2>2. ASSUME NEW u \in Tabs PROVE Riding(u)'
    BY <1>1, <1>7 DEF Sleep, Post, server, screens, tabVars, mailVars, Riding, OpenWhenHeard
  <2> QED BY <1>2, <2>1, <2>2
<1>8. CASE Wake(t)
  <2>1. PresenceTypeOK' /\ \A u \in Tabs : OpenWhenHeard(u)'
    BY <1>1, <1>8 DEF Wake, Post, server, screens, tabVars, mailVars, OpenWhenHeard
  <2>2. ASSUME NEW u \in Tabs PROVE Riding(u)'
    BY <1>1, <1>8 DEF Wake, Post, server, screens, tabVars, mailVars, Riding, OpenWhenHeard
  <2> QED BY <1>2, <2>1, <2>2
<1>9. CASE BeatLate(t)
  <2>1. PresenceTypeOK' /\ \A u \in Tabs : OpenWhenHeard(u)'
    BY <1>1, <1>9 DEF BeatLate, Post, server, screens, tabVars, mailVars, OpenWhenHeard
  <2>2. ASSUME NEW u \in Tabs PROVE Riding(u)'
    BY <1>1, <1>9 DEF BeatLate, Post, server, screens, tabVars, mailVars, Riding, OpenWhenHeard, Due
  <2> QED BY <1>2, <2>1, <2>2
<1>10. CASE Lose(t)
  <2>1. PresenceTypeOK' /\ \A u \in Tabs : OpenWhenHeard(u)'
    BY <1>1, <1>10 DEF Lose, Post, server, screens, tabVars, mailVars, OpenWhenHeard
  <2>2. ASSUME NEW u \in Tabs PROVE Riding(u)'
    BY <1>1, <1>10 DEF Lose, Post, server, screens, tabVars, mailVars, Riding, OpenWhenHeard
  <2> QED BY <1>2, <2>1, <2>2
<1> QED BY <1>3, <1>4, <1>5, <1>6, <1>7, <1>8, <1>9, <1>10

(* A beat that arrives, in time or late.                                   *)
LEMMA ArrivalKeeps ==
  ASSUME PresenceInv, NEW t \in Tabs, BeatArrives(t)
  PROVE  PresenceInv'
<1> USE PaceFacts DEF PresenceInv, PresenceTypeOK
<1>1. Touch(t) /\ beat' \in {beat, beat \ {t}} /\ late' \subseteq late
  BY DEF BeatArrives
<1>2. PresenceTypeOK'
  BY <1>1 DEF Touch, Shown
<1>3. ScreensTrue'
  BY <1>1 DEF ScreensTrue, Touch, Shown
<1>4. ASSUME NEW u \in Tabs PROVE Fresh(u)' /\ OpenWhenHeard(u)'
  BY <1>1 DEF Touch, Fresh, OpenWhenHeard
<1>5. ASSUME NEW u \in Tabs PROVE Riding(u)'
  BY <1>1 DEF Touch, Riding, Due
<1> QED BY <1>2, <1>3, <1>4, <1>5

(* A tab that says it leaves.                                              *)
LEMMA FarewellKeeps ==
  ASSUME PresenceInv, NEW t \in Tabs, LeaveArrives(t)
  PROVE  PresenceInv'
<1> USE PaceFacts DEF PresenceInv, PresenceTypeOK, LeaveArrives
<1>1. PresenceTypeOK'
  <2>1. age' \in [Tabs -> Nat] /\ hasSubject' \in BOOLEAN
    OBVIOUS
  <2>2. room' \subseteq Tabs /\ shown' \in [Tabs -> SUBSET Tabs]
    BY DEF Shown
  <2> QED BY <2>1, <2>2
<1>2. ScreensTrue'
  BY DEF ScreensTrue, Shown
<1>3. ASSUME NEW u \in Tabs PROVE Fresh(u)' /\ OpenWhenHeard(u)'
  BY DEF Fresh, OpenWhenHeard
<1>4. ASSUME NEW u \in Tabs PROVE Riding(u)'
  BY DEF Riding
<1> QED BY <1>1, <1>2, <1>3, <1>4

(* A tab whose beats ride on is never among the silent ones.               *)
LEMMA RidingIsHeard ==
  ASSUME PresenceInv, NEW t \in Tabs, t \in heard, missed[t] <= 2
  PROVE  t \in room /\ ~Silent(age[t])
BY PaceFacts DEF PresenceInv, PresenceTypeOK, Riding, Due, Silent

(* The sweep takes the silent tabs and shows it.                           *)
LEMMA SweepKeeps ==
  ASSUME PresenceInv, DoSweep
  PROVE  PresenceInv'
<1> DEFINE gone == {t \in room : Silent(age[t])}
<1> USE PaceFacts DEF PresenceInv, PresenceTypeOK
<1>1. /\ room' = room \ gone /\ sweepIn' = Sweep /\ shown' = ShownAfter(gone)
      /\ age' = [t \in Tabs |-> IF t \in gone THEN 0 ELSE age[t]]
      /\ hasRoom' \in BOOLEAN /\ hasSubject' \in BOOLEAN
      /\ UNCHANGED <<tabVars, mailVars, listening>>
  BY DEF DoSweep, client, RoomLeft
<1> HIDE DEF gone
<1>2. gone \subseteq Tabs
  BY DEF gone
<1>3. PresenceTypeOK'
  BY <1>1, <1>2 DEF ShownAfter, Shown, tabVars, mailVars
<1>4. ScreensTrue'
  BY <1>1, <1>2 DEF ScreensTrue, ShownAfter, Shown
<1>5. ASSUME NEW t \in Tabs PROVE Fresh(t)' /\ OpenWhenHeard(t)'
  BY <1>1 DEF Fresh, OpenWhenHeard, Silent, gone, tabVars
<1>6. ASSUME NEW t \in Tabs PROVE Riding(t)'
  <2>1. t \in heard /\ missed[t] <= 2 => t \in room' /\ age'[t] = age[t]
    BY <1>1, RidingIsHeard DEF gone
  <2> QED BY <1>1, <2>1 DEF Riding, tabVars, mailVars
<1> QED BY <1>3, <1>4, <1>5, <1>6

(* Listening, and not any more.                                            *)
LEMMA ListeningKeeps ==
  ASSUME PresenceInv, NEW t \in Tabs, Listen(t) \/ Disconnect(t)
  PROVE  PresenceInv'
<1> USE DEF PresenceInv, PresenceTypeOK, Listen, Disconnect, client, tabVars, mailVars
<1>1. PresenceTypeOK'
  OBVIOUS
<1>2. ScreensTrue'
  BY DEF ScreensTrue
<1>3. ASSUME NEW u \in Tabs PROVE Riding(u)' /\ Fresh(u)' /\ OpenWhenHeard(u)'
  BY DEF Riding, Fresh, OpenWhenHeard
<1> QED BY <1>1, <1>2, <1>3

(* A restart forgets everybody.                                            *)
LEMMA RestartKeeps ==
  ASSUME PresenceInv, Restart
  PROVE  PresenceInv'
<1>1. PresenceTypeOK'
  <2>1. {} \in SUBSET Tabs /\ Sweep \in 0..Sweep
    BY PaceFacts
  <2>2. shown' \in [Tabs -> SUBSET Tabs]
    BY <2>1 DEF Restart
  <2>3. age' \in [Tabs -> Nat]
    BY DEF Restart
  <2> QED BY <2>1, <2>2, <2>3 DEF PresenceInv, PresenceTypeOK, Restart, mailVars
<1>2. ScreensTrue' /\ \A t \in Tabs : Riding(t)' /\ Fresh(t)' /\ OpenWhenHeard(t)'
  BY DEF Restart, ScreensTrue, Riding, Fresh, OpenWhenHeard
<1> QED BY <1>1, <1>2 DEF PresenceInv

(* A tick brings every beat nearer by what the tabs grow older.            *)
LEMMA TickKeeps ==
  ASSUME PresenceInv, Tick
  PROVE  PresenceInv'
<1> USE PaceFacts DEF PresenceInv, PresenceTypeOK, Tick, screens
<1>1. PresenceTypeOK'
  <2>1. \A t \in Tabs : beatIn'[t] \in 0..Beat /\ wait'[t] \in 0..Delay /\ age'[t] \in Nat
    OBVIOUS
  <2> QED BY <2>1
<1>2. ScreensTrue'
  BY DEF ScreensTrue
<1>3. ASSUME NEW u \in Tabs PROVE Fresh(u)' /\ OpenWhenHeard(u)'
  BY DEF Fresh, OpenWhenHeard
<1>4. ASSUME NEW u \in Tabs PROVE Riding(u)'
  BY DEF Riding, OpenWhenHeard, Due
<1> QED BY <1>1, <1>2, <1>3, <1>4

(* Every step keeps the invariant.                                         *)
LEMMA PresenceKept == PresenceInv /\ [PresenceNext]_presenceVars => PresenceInv'
<1> SUFFICES ASSUME PresenceInv, [PresenceNext]_presenceVars PROVE PresenceInv'
  OBVIOUS
<1>1. CASE UNCHANGED presenceVars
  BY <1>1 DEF presenceVars, client, server, tabVars, mailVars, screens, PresenceInv,
    PresenceTypeOK, ScreensTrue, Riding, Fresh, OpenWhenHeard
<1>2. CASE PresenceNext
  BY <1>2, TabKeeps, ArrivalKeeps, FarewellKeeps, SweepKeeps, ListeningKeeps, RestartKeeps,
    TickKeeps DEF PresenceNext
<1> QED BY <1>1, <1>2

(* So it always holds.                                                     *)
LEMMA PresenceAlways == PresenceSpec => []PresenceInv
BY PresenceStarts, PresenceKept, PTL DEF PresenceSpec

-----------------------------------------------------------------------------
(* "Two dropped beats still don't drop the cursor" (useDeedPresence.ts):   *)
(* an open tab that was heard of stays in the room until a third beat in a *)
(* row fails to arrive in time.                                            *)
THEOREM TwoBeatsMayDrop == PresenceSpec => []BeatsRideOut
<1>1. PresenceInv => BeatsRideOut
  BY DEF PresenceInv, PresenceTypeOK, Riding, BeatsRideOut
<1> QED BY <1>1, PresenceAlways, PTL

(* A tab that went silent is in the room no longer than the time it is     *)
(* given and one sweep.                                                    *)
THEOREM GhostsGo == PresenceSpec => []NoGhost
<1>1. ASSUME PresenceInv, NEW t \in room PROVE age[t] <= Stale + Sweep
  <2>1. t \in Tabs /\ age[t] \in Nat /\ sweepIn \in Nat /\ age[t] + sweepIn <= Stale + Sweep
    BY <1>1, PaceFacts DEF PresenceInv, Fresh, PresenceTypeOK
  <2> QED BY <2>1, PaceFacts
<1>2. PresenceInv => NoGhost
  BY <1>1 DEF NoGhost
<1> QED BY <1>2, PresenceAlways, PTL

(* Whoever listens is shown exactly the tabs in the room.                  *)
THEOREM ScreensAreTrue == PresenceSpec => []ScreensTrue
<1>1. PresenceInv => ScreensTrue
  BY DEF PresenceInv
<1> QED BY <1>1, PresenceAlways, PTL

-----------------------------------------------------------------------------
(* Starters.                                                               *)

(* What holds however the calls interleave: the ids of copies are never    *)
(* given twice, no copy is made for a workspace there is not, and a call   *)
(* that is over has left nothing behind.                                   *)
Numbered ==
  /\ \A c, d \in copies : c.org = d.org /\ c.nr = d.nr => c = d
  /\ \A c \in copies : c.nr <= made[c.org] /\ org[c.org] # "absent"
  /\ \A s \in Staff : \A o \in staff[s].orgs : org[o] # "absent"
  /\ \A o \in Seeding : org[o] # "absent"
  /\ \A s \in Staff : staff[s].at = "idle" => staff[s] = NoCall

(* As long as nobody edits the candidates of a withdrawal or hangs         *)
(* anything off them, they are what it found.                              *)
Undisturbed ==
  ~disturbed =>
    /\ ~lost
    /\ \A s \in Staff : \A c \in copies : In(c, staff[s].copies) =>
         /\ staff[s].at \in {"find work", "delete"} => ~c.edited
         /\ staff[s].at = "delete" => ~c.hung

Marking == {"find targets", "create"}
Withdrawing == {"find copies", "find work", "delete"}

(* What the calls know as long as none crosses another: one call runs at a *)
(* time, and no workspace is being seeded meanwhile; ...                   *)
OneCall == (\A s, t \in Busy : s = t) /\ (Busy # {} => Seeding = {})

(* ... the flag is what the call has set it to, or the seeding has read,   *)
(* and the workspaces that are to get a copy have none; ...                *)
Decided ==
  /\ \A s \in Staff : /\ staff[s].at \in Marking => marked
                      /\ staff[s].at \in Withdrawing => ~marked
                      /\ \A o \in staff[s].orgs : WithoutCopy(o)
  /\ \A o \in Seeding : WithoutCopy(o) /\ (signup[o] = "create" => marked)

Single == \A c, d \in copies : c.org = d.org => c = d

(* ... a copy nobody edited or hung anything off, of a deed that is no     *)
(* starter, is about to be withdrawn.                                      *)
Leaving(c) ==
  \/ \E s \in Staff : staff[s].at = "find copies"
  \/ \E s \in Staff : staff[s].at \in Withdrawing /\ In(c, staff[s].copies)
Cleared == ~marked => \A c \in copies : c.edited \/ c.hung \/ Leaving(c)

InStep == ~crossed => OneCall /\ Decided /\ Single /\ Cleared

-----------------------------------------------------------------------------
(* Starters: the types, and the ids of copies.                             *)

StarterCalls ==
  [at : {"idle"} \union Marking \union Withdrawing, orgs : SUBSET Orgs, copies : SUBSET Copies]

(* In is about the ids alone.                                              *)
LEMMA SameId == \A c, set : In(c, set) <=> \E d \in set : d.org = c.org /\ d.nr = c.nr
  BY DEF In, IdsOf

LEMMA NoCallTyped == NoCall \in StarterCalls
  BY DEF NoCall, StarterCalls

(* The copies a statement makes.                                           *)
NewCopy(o) == [org |-> o, nr |-> made[o] + 1, edited |-> FALSE, hung |-> FALSE,
               papers |-> FALSE]

LEMMA CopiesMade ==
  ASSUME StarterTypeOK, NEW orgs \in SUBSET Orgs, CopyInto(orgs)
  PROVE  /\ made' \in [Orgs -> 0..MaxCopies]
         /\ \A o \in Orgs : made[o] \in Nat /\ made[o] <= made'[o]
         /\ \A o \in orgs : made'[o] = made[o] + 1
         /\ copies' = copies \union {NewCopy(o) : o \in orgs}
         /\ copies' \subseteq Copies
<1>1. \A o \in Orgs : made[o] \in 0..MaxCopies /\ made[o] \in Nat
  <2>1. made \in [Orgs -> 0..MaxCopies]
    BY DEF StarterTypeOK
  <2> QED BY <2>1, StarterAssumption
<1>2. \A o \in Orgs : made'[o] = IF o \in orgs THEN made[o] + 1 ELSE made[o]
  BY DEF CopyInto
<1>3. \A o \in orgs : made[o] < MaxCopies
  BY DEF CopyInto
<1>4. made' \in [Orgs -> 0..MaxCopies]
  <2>1. \A o \in Orgs : (IF o \in orgs THEN made[o] + 1 ELSE made[o]) \in 0..MaxCopies
    BY <1>1, <1>3, StarterAssumption
  <2> QED BY <2>1 DEF CopyInto
<1>5. copies' = copies \union {NewCopy(o) : o \in orgs}
  BY <1>2 DEF CopyInto, NewCopy
<1>6. \A o \in orgs : NewCopy(o) \in Copies
  <2> SUFFICES ASSUME NEW o \in orgs PROVE NewCopy(o) \in Copies
    OBVIOUS
  <2>1. made[o] + 1 \in 1..MaxCopies /\ o \in Orgs /\ FALSE \in BOOLEAN
    BY <1>1, <1>3, StarterAssumption
  <2> QED BY <2>1, Zenon DEF NewCopy, Copies
<1>7. copies' \subseteq Copies
  BY <1>5, <1>6 DEF StarterTypeOK
<1>8. /\ \A o \in Orgs : made[o] \in Nat /\ made[o] <= made'[o]
      /\ \A o \in orgs : made'[o] = made[o] + 1
  BY <1>1, <1>2
<1> QED BY <1>4, <1>5, <1>7, <1>8

(* A call of the staff that goes on.                                       *)
LEMMA CallGoes ==
  ASSUME StarterTypeOK, NEW s \in Staff, NEW next, Goes(s, next)
  PROVE  /\ staff'[s] = next
         /\ \A t \in Staff \ {s} : staff'[t] = staff[t]
         /\ next \in StarterCalls => staff' \in [Staff -> StarterCalls]
  BY DEF StarterTypeOK, Goes, StarterCalls, Marking, Withdrawing

LEMMA StarterStarts == StarterInit => StarterTypeOK
<1> SUFFICES ASSUME StarterInit PROVE StarterTypeOK
  OBVIOUS
<1>1. staff \in [Staff -> StarterCalls]
  BY NoCallTyped DEF StarterInit
<1>2. made \in [Orgs -> 0..MaxCopies]
  BY StarterAssumption DEF StarterInit
<1> QED BY <1>1, <1>2 DEF StarterInit, StarterTypeOK, StarterCalls, Marking, Withdrawing

StaffStep(s) ==
  \/ Mark(s) \/ FindTargets(s) \/ CreateCopies(s)
  \/ Unmark(s) \/ FindCopies(s) \/ FindWork(s) \/ DeleteCopies(s) \/ CallDies(s)
SignupStep(o) == SignUp(o) \/ FindStarters(o) \/ Seed(o)
PartnerStep(c) == EditCopy(c) \/ HangOff(c) \/ UploadPaper(c) \/ RemoveCopy(c)

LEMMA StarterSplit ==
  ASSUME [StarterNext]_starterVars
  PROVE  \/ \E s \in Staff : StaffStep(s)
         \/ \E o \in Orgs : SignupStep(o)
         \/ \E c \in copies : PartnerStep(c)
         \/ UNCHANGED starterVars
  BY DEF StarterNext, StaffStep, SignupStep, PartnerStep

LEMMA StaffTyped ==
  ASSUME StarterTypeOK, NEW s \in Staff, StaffStep(s)
  PROVE  StarterTypeOK'
<1>1. /\ staff[s] \in StarterCalls /\ NoCall \in StarterCalls /\ staff[s].orgs \subseteq Orgs
      /\ staff[s].copies \subseteq Copies
  BY NoCallTyped DEF StarterTypeOK, StarterCalls, Marking, Withdrawing
<1>2. \A at \in Marking \union Withdrawing, orgs \in SUBSET Orgs, set \in SUBSET Copies :
        /\ [NoCall EXCEPT !.at = at] \in StarterCalls
        /\ [NoCall EXCEPT !.at = at, !.orgs = orgs] \in StarterCalls
        /\ [NoCall EXCEPT !.at = at, !.copies = set] \in StarterCalls
  BY DEF NoCall, StarterCalls
<1>3. PICK next \in StarterCalls : Goes(s, next)
  <2>1. CASE Mark(s)
    BY <1>2, <2>1 DEF Mark, Marking
  <2>2. CASE FindTargets(s)
    <3>1. {o \in Orgs : org[o] = "owned" /\ WithoutCopy(o)} \in SUBSET Orgs
      OBVIOUS
    <3> QED BY <1>2, <2>2, <3>1 DEF FindTargets, Marking
  <2>3. CASE Unmark(s)
    BY <1>2, <2>3 DEF Unmark, Withdrawing
  <2>4. CASE FindCopies(s)
    <3>1. {c \in copies : ~c.edited} \in SUBSET Copies
      BY DEF StarterTypeOK
    <3> QED BY <1>2, <2>4, <3>1 DEF FindCopies, Withdrawing
  <2>5. CASE FindWork(s)
    <3>1. Unused(staff[s].copies) \in SUBSET Copies
      BY DEF StarterTypeOK, Unused
    <3> QED BY <1>2, <2>5, <3>1 DEF FindWork, Withdrawing
  <2>6. CASE CreateCopies(s) \/ DeleteCopies(s) \/ CallDies(s)
    BY <1>1, <2>6 DEF CreateCopies, DeleteCopies, CallDies
  <2> QED BY <2>1, <2>2, <2>3, <2>4, <2>5, <2>6 DEF StaffStep
<1>4. staff' \in [Staff -> StarterCalls]
  BY <1>3, CallGoes
<1>5. copies' \subseteq Copies /\ made' \in [Orgs -> 0..MaxCopies]
  BY <1>1, CopiesMade DEF StaffStep, Mark, FindTargets, CreateCopies, Unmark, FindCopies,
    FindWork, DeleteCopies, CallDies, StarterTypeOK
<1>6. /\ UNCHANGED <<org, signup>> /\ marked' \in BOOLEAN /\ crossed' \in BOOLEAN
      /\ disturbed' \in BOOLEAN /\ lost' \in BOOLEAN
  BY DEF StaffStep, Mark, FindTargets, CreateCopies, Unmark, FindCopies,
    FindWork, DeleteCopies, CallDies, StarterTypeOK
<1> QED BY <1>4, <1>5, <1>6 DEF StarterTypeOK, StarterCalls, Marking, Withdrawing

LEMMA SignupTyped ==
  ASSUME StarterTypeOK, NEW o \in Orgs, SignupStep(o)
  PROVE  StarterTypeOK'
<1>1. copies' \subseteq Copies /\ made' \in [Orgs -> 0..MaxCopies]
  <2>1. {o} \in SUBSET Orgs
    OBVIOUS
  <2> QED BY <2>1, CopiesMade DEF SignupStep, SignUp, FindStarters, Seed, StarterTypeOK
<1>2. org' \in [Orgs -> {"absent", "owned", "ownerless"}]
  BY DEF SignupStep, SignUp, FindStarters, Seed, StarterTypeOK
<1>3. signup' \in [Orgs -> {"none", "find starters", "create"}]
  BY DEF SignupStep, SignUp, FindStarters, Seed, StarterTypeOK
<1>4. UNCHANGED <<marked, staff, disturbed, lost>> /\ crossed' \in BOOLEAN
  BY DEF SignupStep, SignUp, FindStarters, Seed, StarterTypeOK
<1> QED BY <1>1, <1>2, <1>3, <1>4 DEF StarterTypeOK

(* What the partner does to one copy; its id is kept.                      *)
SameWork(c, worked) == worked.edited = c.edited /\ worked.hung = c.hung
LEMMA PartnerTyped ==
  ASSUME StarterTypeOK, NEW c \in copies, PartnerStep(c)
  PROVE  /\ StarterTypeOK'
         /\ UNCHANGED <<marked, org, made, staff, signup, marks, crossed, lost>>
         /\ \E worked \in Copies :
              /\ worked.org = c.org /\ worked.nr = c.nr
              /\ worked.edited \/ worked.hung \/ SameWork(c, worked)
              /\ \/ copies' = copies \ {c} /\ disturbed' = disturbed
                 \/ /\ copies' = (copies \ {c}) \union {worked}
                    /\ WorkOn(c, worked) \/ (SameWork(c, worked) /\ disturbed' = disturbed)
<1>1. c \in Copies
  BY DEF StarterTypeOK
<1>2. CASE RemoveCopy(c)
  BY <1>1, <1>2 DEF RemoveCopy, StarterTypeOK, SameWork
<1>3. ASSUME NEW worked \in Copies, WorkOn(c, worked) PROVE StarterTypeOK'
  BY <1>3 DEF WorkOn, StarterTypeOK
<1>4. CASE EditCopy(c)
  <2>1. /\ [c EXCEPT !.edited = TRUE] \in Copies /\ [c EXCEPT !.edited = TRUE].org = c.org
        /\ [c EXCEPT !.edited = TRUE].nr = c.nr /\ [c EXCEPT !.edited = TRUE].edited
        /\ [c EXCEPT !.edited = TRUE].hung = c.hung
    BY <1>1 DEF Copies
  <2>2. WorkOn(c, [c EXCEPT !.edited = TRUE])
    BY <1>4 DEF EditCopy
  <2> HIDE DEF EditCopy
  <2>3. /\ copies' = (copies \ {c}) \union {[c EXCEPT !.edited = TRUE]}
        /\ UNCHANGED <<marked, org, made, staff, signup, marks, crossed, lost>>
    BY <2>2 DEF WorkOn
  <2> QED BY <1>3, <2>1, <2>2, <2>3
<1>5. CASE HangOff(c)
  <2>1. /\ [c EXCEPT !.hung = TRUE] \in Copies /\ [c EXCEPT !.hung = TRUE].org = c.org
        /\ [c EXCEPT !.hung = TRUE].nr = c.nr /\ [c EXCEPT !.hung = TRUE].hung
        /\ [c EXCEPT !.hung = TRUE].edited = c.edited
    BY <1>1 DEF Copies
  <2>2. WorkOn(c, [c EXCEPT !.hung = TRUE])
    BY <1>5 DEF HangOff
  <2>3. /\ copies' = (copies \ {c}) \union {[c EXCEPT !.hung = TRUE]}
        /\ UNCHANGED <<marked, org, made, staff, signup, marks, crossed, lost>>
    BY <2>2 DEF WorkOn
  <2> QED BY <1>3, <2>1, <2>2, <2>3
<1>6. CASE UploadPaper(c)
  <2> DEFINE filed == [c EXCEPT !.papers = TRUE]
  <2>1. /\ filed \in Copies /\ filed.org = c.org /\ filed.nr = c.nr
        /\ SameWork(c, filed)
    BY <1>1 DEF Copies, SameWork
  <2>2. /\ copies' = (copies \ {c}) \union {filed}
        /\ UNCHANGED <<marked, org, made, staff, signup, marks, crossed, disturbed, lost>>
    BY <1>6 DEF UploadPaper
  <2> HIDE DEF filed
  <2>3. StarterTypeOK'
    BY <2>1, <2>2 DEF StarterTypeOK
  <2> QED BY <2>1, <2>2, <2>3
<1> QED BY <1>2, <1>4, <1>5, <1>6 DEF PartnerStep

LEMMA StarterTyped == StarterTypeOK /\ [StarterNext]_starterVars => StarterTypeOK'
<1> SUFFICES ASSUME StarterTypeOK, [StarterNext]_starterVars PROVE StarterTypeOK'
  OBVIOUS
<1>1. CASE UNCHANGED starterVars
  BY <1>1 DEF starterVars, StarterTypeOK
<1> QED BY <1>1, StarterSplit, StaffTyped, SignupTyped, PartnerTyped

-----------------------------------------------------------------------------
(* Starters: what holds however the calls interleave.                      *)

(* What each statement of a call leaves in its slot.                       *)
LEMMA CallMoves ==
  ASSUME StarterTypeOK, NEW s \in Staff, StaffStep(s)
  PROVE  /\ \A t \in Staff \ {s} : staff'[t] = staff[t]
         /\ Mark(s) => /\ staff'[s].at = "find targets" /\ staff'[s].orgs = {}
                       /\ staff'[s].copies = {}
         /\ FindTargets(s) =>
              /\ staff'[s].at = "create" /\ staff'[s].copies = {}
              /\ staff'[s].orgs = {o \in Orgs : org[o] = "owned" /\ WithoutCopy(o)}
         /\ Unmark(s) => /\ staff'[s].at = "find copies" /\ staff'[s].orgs = {}
                         /\ staff'[s].copies = {}
         /\ FindCopies(s) => /\ staff'[s].at = "find work" /\ staff'[s].orgs = {}
                             /\ staff'[s].copies = {c \in copies : ~c.edited}
         /\ FindWork(s) => /\ staff'[s].at = "delete" /\ staff'[s].orgs = {}
                           /\ staff'[s].copies = Unused(staff[s].copies)
         /\ CreateCopies(s) \/ DeleteCopies(s) \/ CallDies(s) =>
              staff'[s] = NoCall
<1>1. \A t \in Staff \ {s} : staff'[t] = staff[t]
  BY CallGoes DEF StaffStep, Mark, FindTargets, CreateCopies, Unmark, FindCopies,
    FindWork, DeleteCopies, CallDies
<1>2. ASSUME Mark(s)
      PROVE  /\ staff'[s].at = "find targets" /\ staff'[s].orgs = {}
             /\ staff'[s].copies = {}
  <2>1. staff'[s] = [NoCall EXCEPT !.at = "find targets"]
    BY <1>2, CallGoes DEF Mark
  <2> QED BY <2>1 DEF NoCall
<1>3. ASSUME FindTargets(s)
      PROVE  /\ staff'[s].at = "create" /\ staff'[s].copies = {}
             /\ staff'[s].orgs = {o \in Orgs : org[o] = "owned" /\ WithoutCopy(o)}
  <2> DEFINE targets == {o \in Orgs : org[o] = "owned" /\ WithoutCopy(o)}
  <2>1. staff'[s] = [NoCall EXCEPT !.at = "create", !.orgs = targets]
    BY <1>3, CallGoes DEF FindTargets
  <2> HIDE DEF targets
  <2>2. staff'[s].at = "create" /\ staff'[s].copies = {} /\ staff'[s].orgs = targets
    BY <2>1 DEF NoCall
  <2> QED BY <2>2 DEF targets
<1>4. ASSUME Unmark(s)
      PROVE  /\ staff'[s].at = "find copies" /\ staff'[s].orgs = {}
             /\ staff'[s].copies = {}
  <2>1. staff'[s] = [NoCall EXCEPT !.at = "find copies"]
    BY <1>4, CallGoes DEF Unmark
  <2> QED BY <2>1 DEF NoCall
<1>5. ASSUME FindCopies(s)
      PROVE  /\ staff'[s].at = "find work" /\ staff'[s].orgs = {}
             /\ staff'[s].copies = {c \in copies : ~c.edited}
  <2> DEFINE found == {c \in copies : ~c.edited}
  <2>1. staff'[s] = [NoCall EXCEPT !.at = "find work", !.copies = found]
    BY <1>5, CallGoes DEF FindCopies
  <2> HIDE DEF found
  <2>2. staff'[s].at = "find work" /\ staff'[s].orgs = {} /\ staff'[s].copies = found
    BY <2>1 DEF NoCall
  <2> QED BY <2>2 DEF found
<1>6. ASSUME FindWork(s)
      PROVE  /\ staff'[s].at = "delete" /\ staff'[s].orgs = {}
             /\ staff'[s].copies = Unused(staff[s].copies)
  <2>1. staff'[s] = [NoCall EXCEPT !.at = "delete", !.copies = Unused(staff[s].copies)]
    BY <1>6, CallGoes DEF FindWork
  <2> QED BY <2>1 DEF NoCall
<1>7. CreateCopies(s) \/ DeleteCopies(s) \/ CallDies(s) => staff'[s] = NoCall
  BY CallGoes DEF CreateCopies, DeleteCopies, CallDies
<1> QED BY <1>1, <1>2, <1>3, <1>4, <1>5, <1>6, <1>7

(* New copies have ids of their own.                                       *)
LEMMA CopiesNumbered ==
  ASSUME StarterTypeOK, Numbered, NEW orgs \in SUBSET Orgs, CopyInto(orgs),
         UNCHANGED org, \A o \in orgs : org[o] # "absent"
  PROVE  /\ \A c, d \in copies' : c.org = d.org /\ c.nr = d.nr => c = d
         /\ \A c \in copies' : c.nr <= made'[c.org] /\ org'[c.org] # "absent"
<1>1. /\ \A o \in Orgs : made[o] \in Nat /\ made[o] <= made'[o] /\ made'[o] \in Nat
      /\ \A o \in orgs : made'[o] = made[o] + 1
      /\ copies' = copies \union {NewCopy(o) : o \in orgs}
  <2>1. made' \in [Orgs -> 0..MaxCopies]
    BY CopiesMade
  <2>2. \A o \in Orgs : made'[o] \in Nat
    BY <2>1, StarterAssumption
  <2> QED BY <2>2, CopiesMade
<1>2. \A o : NewCopy(o).org = o /\ NewCopy(o).nr = made[o] + 1
  BY DEF NewCopy
<1>3. \A c \in copies : c.org \in Orgs /\ c.nr \in Nat
  <2>1. \A c \in copies : c.org \in Orgs /\ c.nr \in 1..MaxCopies
    BY DEF StarterTypeOK, Copies
  <2> QED BY <2>1, StarterAssumption
<1>4. \A c \in copies : c.nr <= made[c.org] /\ org[c.org] # "absent"
  BY DEF Numbered
<1>5. \A c \in copies' : c.nr <= made'[c.org] /\ org'[c.org] # "absent"
  BY <1>1, <1>2, <1>3, <1>4
<1>6. ASSUME NEW c \in copies', NEW d \in copies', c.org = d.org, c.nr = d.nr
      PROVE  c = d
  <2>1. CASE c \in copies /\ d \in copies
    BY <1>6, <2>1 DEF Numbered
  <2>2. CASE c \in copies /\ d \notin copies
    BY <1>1, <1>2, <1>3, <1>4, <1>6, <2>2
  <2>3. CASE c \notin copies /\ d \in copies
    BY <1>1, <1>2, <1>3, <1>4, <1>6, <2>3
  <2>4. CASE c \notin copies /\ d \notin copies
    BY <1>1, <1>2, <1>6, <2>4
  <2> QED BY <2>1, <2>2, <2>3, <2>4
<1> QED BY <1>5, <1>6

LEMMA NumberedStarts == StarterInit => Numbered
  BY DEF StarterInit, Numbered, Seeding, NoCall

LEMMA StaffNumbered ==
  ASSUME StarterTypeOK, Numbered, NEW s \in Staff, StaffStep(s)
  PROVE  Numbered'
<1>1. UNCHANGED <<org, signup>>
  BY DEF StaffStep, Mark, FindTargets, CreateCopies, Unmark, FindCopies,
    FindWork, DeleteCopies, CallDies
<1>2. \A o \in Seeding' : org'[o] # "absent"
  BY <1>1 DEF Numbered, Seeding
<1>3. /\ \A c, d \in copies' : c.org = d.org /\ c.nr = d.nr => c = d
      /\ \A c \in copies' : c.nr <= made'[c.org] /\ org'[c.org] # "absent"
  <2>1. CASE CreateCopies(s)
    <3>1. CopyInto(staff[s].orgs) /\ staff[s].orgs \in SUBSET Orgs
      BY <2>1 DEF CreateCopies, StarterTypeOK
    <3>2. \A o \in staff[s].orgs : org[o] # "absent"
      BY DEF Numbered
    <3> QED BY <1>1, <3>1, <3>2, CopiesNumbered
  <2>2. CASE ~CreateCopies(s)
    <3>1. copies' \subseteq copies /\ made' = made
      BY <2>2 DEF StaffStep, Mark, FindTargets, Unmark, FindCopies,
        FindWork, DeleteCopies, CallDies
    <3> QED BY <1>1, <3>1 DEF Numbered
  <2> QED BY <2>1, <2>2
<1>4. /\ \A o \in staff'[s].orgs : org[o] # "absent"
      /\ staff'[s].at = "idle" => staff'[s] = NoCall
  <2>1. NoCall.orgs = {}
    BY DEF NoCall
  <2> QED BY <2>1, CallMoves DEF StaffStep
<1>5. \A t \in Staff : \A o \in staff'[t].orgs : org'[o] # "absent"
  BY <1>1, <1>4, CallMoves DEF Numbered
<1>6. \A t \in Staff : staff'[t].at = "idle" => staff'[t] = NoCall
  BY <1>4, CallMoves DEF Numbered
<1> QED BY <1>2, <1>3, <1>5, <1>6 DEF Numbered

LEMMA SignupNumbered ==
  ASSUME StarterTypeOK, Numbered, NEW o \in Orgs, SignupStep(o)
  PROVE  Numbered'
<1>1. /\ UNCHANGED staff
      /\ \A p \in Orgs : org[p] # "absent" => org'[p] # "absent"
      /\ \A p \in Seeding' : p \in Seeding \/ org'[p] # "absent"
  BY DEF SignupStep, SignUp, FindStarters, Seed, StarterTypeOK, Seeding
<1>2. /\ \A c, d \in copies' : c.org = d.org /\ c.nr = d.nr => c = d
      /\ \A c \in copies' : c.nr <= made'[c.org] /\ org'[c.org] # "absent"
  <2>1. CASE CopyInto({o}) /\ Seed(o)
    <3>1. org' = org /\ o \in Seeding
      BY <2>1 DEF Seed, Seeding
    <3>2. org[o] # "absent" /\ {o} \in SUBSET Orgs
      BY <3>1 DEF Numbered
    <3> QED BY <2>1, <3>1, <3>2, CopiesNumbered
  <2>2. CASE UNCHANGED <<copies, made>>
    <3>1. \A c \in copies : c.org \in Orgs
      BY DEF StarterTypeOK, Copies
    <3> QED BY <1>1, <2>2, <3>1 DEF Numbered
  <2> QED BY <2>1, <2>2 DEF SignupStep, SignUp, FindStarters, Seed
<1>3. \A s \in Staff : \A p \in staff[s].orgs : p \in Orgs
  BY DEF StarterTypeOK
<1>4. \A s \in Staff : \A p \in staff'[s].orgs : org'[p] # "absent"
  BY <1>1, <1>3 DEF Numbered
<1>5. \A p \in Seeding' : org'[p] # "absent"
  BY <1>1 DEF Numbered, Seeding
<1> QED BY <1>1, <1>2, <1>4, <1>5 DEF Numbered

LEMMA PartnerNumbered ==
  ASSUME StarterTypeOK, Numbered, NEW c \in copies, PartnerStep(c)
  PROVE  Numbered'
<1>1. UNCHANGED <<org, made, staff, signup>>
  BY PartnerTyped
<1>2. PICK worked \in Copies :
        /\ worked.org = c.org /\ worked.nr = c.nr
        /\ copies' \subseteq (copies \ {c}) \union {worked}
  BY PartnerTyped
<1>3. \A d, e \in copies' : d.org = e.org /\ d.nr = e.nr => d = e
  BY <1>2 DEF Numbered
<1>4. \A d \in copies' : d.nr <= made'[d.org] /\ org'[d.org] # "absent"
  BY <1>1, <1>2 DEF Numbered
<1> QED BY <1>1, <1>3, <1>4 DEF Numbered, Seeding

LEMMA NumberedKept ==
  StarterTypeOK /\ Numbered /\ [StarterNext]_starterVars => Numbered'
<1> SUFFICES ASSUME StarterTypeOK, Numbered, [StarterNext]_starterVars PROVE Numbered'
  OBVIOUS
<1>1. CASE UNCHANGED starterVars
  BY <1>1 DEF starterVars, Numbered, Seeding
<1> QED BY <1>1, StarterSplit, StaffNumbered, SignupNumbered, PartnerNumbered

-----------------------------------------------------------------------------
(* Starters: the candidates of a withdrawal nobody disturbs.               *)

(* What a withdrawal does to one candidate.                                *)
Candidate(s, c) ==
  In(c, staff[s].copies) => /\ staff[s].at \in {"find work", "delete"} => ~c.edited
                            /\ staff[s].at = "delete" => ~c.hung

LEMMA StaffUndisturbed ==
  ASSUME StarterTypeOK, Numbered, Undisturbed, NEW s \in Staff, StaffStep(s)
  PROVE  Undisturbed'
<1>0. disturbed' = disturbed
  BY DEF StaffStep, Mark, FindTargets, CreateCopies, Unmark, FindCopies, FindWork,
    DeleteCopies, CallDies
<1> SUFFICES ASSUME ~disturbed'
             PROVE  ~lost' /\ \A t \in Staff : \A c \in copies' : Candidate(t, c)'
  BY DEF Undisturbed, Candidate
<1>1. ~lost /\ \A t \in Staff : \A c \in copies : Candidate(t, c)
  BY <1>0 DEF Undisturbed, Candidate
<1>2. \A c \in copies' : c \in copies \/ (~c.edited /\ ~c.hung)
  <2>1. CASE CreateCopies(s)
    <3>1. CopyInto(staff[s].orgs) /\ staff[s].orgs \in SUBSET Orgs
      BY <2>1 DEF CreateCopies, StarterTypeOK
    <3> QED BY <3>1, CopiesMade DEF NewCopy
  <2> QED BY <2>1 DEF StaffStep, Mark, FindTargets, Unmark, FindCopies, FindWork,
        DeleteCopies, CallDies
<1>3. ASSUME NEW t \in Staff \ {s}, NEW c \in copies' PROVE Candidate(t, c)'
  <2>1. staff'[t] = staff[t]
    BY CallMoves
  <2> QED BY <1>1, <1>2, <2>1 DEF Candidate
<1>4. ASSUME NEW c \in copies' PROVE Candidate(s, c)'
  <2>1. CASE Mark(s) \/ FindTargets(s) \/ Unmark(s)
    BY <2>1, CallMoves DEF Candidate
  <2>2. CASE CreateCopies(s) \/ DeleteCopies(s) \/ CallDies(s)
    <3>1. NoCall.at = "idle"
      BY DEF NoCall
    <3> QED BY <2>2, <3>1, CallMoves DEF Candidate
  <2>3. CASE FindCopies(s)
    <3>1. /\ copies' = copies /\ staff'[s].at = "find work"
          /\ staff'[s].copies = {d \in copies : ~d.edited}
      BY <2>3, CallMoves DEF FindCopies
    <3>2. ASSUME In(c, staff'[s].copies) PROVE ~c.edited
      <4>1. PICK d \in staff'[s].copies : d.org = c.org /\ d.nr = c.nr
        BY <3>2, SameId
      <4> QED BY <3>1, <4>1 DEF Numbered
    <3> QED BY <3>1, <3>2 DEF Candidate
  <2>4. CASE FindWork(s)
    <3>1. /\ copies' = copies /\ staff[s].at = "find work" /\ staff'[s].at = "delete"
          /\ staff'[s].copies = {d \in copies : In(d, staff[s].copies) /\ ~d.hung}
      BY <2>4, CallMoves DEF FindWork, Unused
    <3>2. ASSUME In(c, staff'[s].copies) PROVE ~c.edited /\ ~c.hung
      <4>1. PICK d \in staff'[s].copies : d.org = c.org /\ d.nr = c.nr
        BY <3>2, SameId
      <4>2. d = c
        BY <3>1, <4>1 DEF Numbered
      <4> QED BY <1>1, <3>1, <4>1, <4>2 DEF Candidate
    <3> QED BY <3>1, <3>2 DEF Candidate
  <2> QED BY <2>1, <2>2, <2>3, <2>4 DEF StaffStep
<1>5. ~lost'
  <2>1. CASE DeleteCopies(s)
    BY <1>1, <2>1 DEF DeleteCopies, Candidate
  <2> QED BY <1>1, <2>1 DEF StaffStep, Mark, FindTargets, CreateCopies, Unmark, FindCopies,
        FindWork, CallDies
<1> QED BY <1>3, <1>4, <1>5

LEMMA SignupUndisturbed ==
  ASSUME StarterTypeOK, Undisturbed, NEW o \in Orgs, SignupStep(o)
  PROVE  Undisturbed'
<1>1. UNCHANGED <<staff, disturbed, lost>>
  BY DEF SignupStep, SignUp, FindStarters, Seed
<1>2. \A c \in copies' : c \in copies \/ (~c.edited /\ ~c.hung)
  <2>1. CASE CopyInto({o})
    <3>1. {o} \in SUBSET Orgs
      OBVIOUS
    <3> QED BY <2>1, <3>1, CopiesMade DEF NewCopy
  <2> QED BY <2>1 DEF SignupStep, SignUp, FindStarters, Seed
<1> QED BY <1>1, <1>2 DEF Undisturbed

LEMMA PartnerUndisturbed ==
  ASSUME StarterTypeOK, Undisturbed, NEW c \in copies, PartnerStep(c)
  PROVE  Undisturbed'
<1>1. UNCHANGED <<staff, lost>>
  BY PartnerTyped
<1>2. CASE copies' = copies \ {c} /\ disturbed' = disturbed
  BY <1>1, <1>2 DEF Undisturbed
<1>3. ASSUME NEW worked \in Copies, worked.org = c.org, worked.nr = c.nr,
             copies' = (copies \ {c}) \union {worked}, WorkOn(c, worked)
      PROVE  Undisturbed'
  <2> SUFFICES ASSUME ~disturbed'
               PROVE  ~lost' /\ \A s \in Staff : \A d \in copies' : Candidate(s, d)'
    BY DEF Undisturbed, Candidate
  <2>1. /\ ~disturbed
        /\ \A s \in Staff : In(c, staff[s].copies) =>
             staff[s].at \notin {"find work", "delete"}
    BY <1>3 DEF WorkOn
  <2>2. ~lost /\ \A s \in Staff : \A d \in copies : Candidate(s, d)
    BY <2>1 DEF Undisturbed, Candidate
  <2>3. \A set : In(worked, set) <=> In(c, set)
    BY <1>3, SameId
  <2>4. \A s \in Staff : Candidate(s, worked)'
    BY <1>1, <2>1, <2>3 DEF Candidate
  <2>5. \A s \in Staff : \A d \in copies : Candidate(s, d)'
    BY <1>1, <2>2 DEF Candidate
  <2> QED BY <1>1, <1>3, <2>2, <2>4, <2>5
<1>4. ASSUME NEW worked \in Copies, worked.org = c.org, worked.nr = c.nr,
             copies' = (copies \ {c}) \union {worked}, SameWork(c, worked),
             disturbed' = disturbed
      PROVE  Undisturbed'
  <2>1. \A set : In(worked, set) <=> In(c, set)
    BY <1>4, SameId
  <2> QED BY <1>1, <1>4, <2>1 DEF Undisturbed, SameWork
<1> QED BY <1>2, <1>3, <1>4, PartnerTyped

LEMMA UndisturbedKept ==
  StarterTypeOK /\ Numbered /\ Undisturbed /\ [StarterNext]_starterVars => Undisturbed'
<1> SUFFICES ASSUME StarterTypeOK, Numbered, Undisturbed, [StarterNext]_starterVars
             PROVE  Undisturbed'
  OBVIOUS
<1>1. CASE UNCHANGED starterVars
  BY <1>1 DEF starterVars, Undisturbed
<1> QED BY <1>1, StarterSplit, StaffUndisturbed, SignupUndisturbed, PartnerUndisturbed

-----------------------------------------------------------------------------
(* Starters: the calls one after the other.                                *)

(* Copies are made for workspaces without one.                             *)
LEMMA CopiesSingle ==
  ASSUME StarterTypeOK, Single, NEW orgs \in SUBSET Orgs, CopyInto(orgs),
         \A o \in orgs : WithoutCopy(o)
  PROVE  /\ Single'
         /\ \A o : o \notin orgs /\ WithoutCopy(o) => WithoutCopy(o)'
<1>1. copies' = copies \union {NewCopy(o) : o \in orgs}
  BY CopiesMade
<1>2. \A o : NewCopy(o).org = o
  BY DEF NewCopy
<1>3. ASSUME NEW c \in copies', NEW d \in copies', c.org = d.org PROVE c = d
  <2>1. CASE c \in copies /\ d \in copies
    BY <1>3, <2>1 DEF Single
  <2>2. CASE c \in copies /\ d \notin copies
    BY <1>1, <1>2, <1>3, <2>2 DEF WithoutCopy
  <2>3. CASE c \notin copies /\ d \in copies
    BY <1>1, <1>2, <1>3, <2>3 DEF WithoutCopy
  <2>4. CASE c \notin copies /\ d \notin copies
    BY <1>1, <1>2, <1>3, <2>4
  <2> QED BY <2>1, <2>2, <2>3, <2>4
<1>4. ASSUME NEW o, o \notin orgs, WithoutCopy(o) PROVE WithoutCopy(o)'
  BY <1>1, <1>2, <1>4 DEF WithoutCopy
<1> QED BY <1>3, <1>4 DEF Single

LEMMA InStepStarts == StarterInit => InStep
<1> SUFFICES ASSUME StarterInit PROVE OneCall /\ Decided /\ Single /\ Cleared
  BY DEF InStep
<1>1. Busy = {} /\ Seeding = {} /\ copies = {}
  BY DEF StarterInit, Busy, Seeding, NoCall
<1>2. \A s \in Staff : staff[s].at = "idle" /\ staff[s].orgs = {}
  BY DEF StarterInit, NoCall
<1> QED BY <1>1, <1>2 DEF OneCall, Decided, Single, Cleared, Marking, Withdrawing

(* A call begins, nothing else being under way.                            *)
LEMMA CallBegins ==
  ASSUME StarterTypeOK, Numbered, InStep, NEW s \in Staff, Mark(s) \/ Unmark(s), ~crossed'
  PROVE  OneCall' /\ Decided' /\ Single' /\ Cleared'
<1>1. ~crossed /\ Busy = {} /\ Seeding = {} /\ UNCHANGED <<copies, signup>>
  BY DEF Mark, Unmark
<1>2. OneCall /\ Decided /\ Single /\ Cleared
  BY <1>1 DEF InStep
<1>3. \A t \in Staff \ {s} : staff'[t] = staff[t] /\ staff'[t].at = "idle"
  <2>1. \A t \in Staff : staff[t].at = "idle"
    BY <1>1 DEF Busy
  <2>2. StaffStep(s)
    BY DEF StaffStep
  <2>3. \A t \in Staff \ {s} : staff'[t] = staff[t]
    BY <2>2, CallMoves
  <2> QED BY <2>1, <2>3
<1>4. \A t \in Staff \ {s} : staff'[t].orgs = {}
  BY <1>1, <1>3 DEF Busy, Numbered, NoCall
<1>5. staff'[s].orgs = {}
  BY CallMoves DEF StaffStep
<1>6. \/ staff'[s].at = "find targets" /\ marked' = TRUE
      \/ staff'[s].at = "find copies" /\ marked' = FALSE
  BY CallMoves DEF StaffStep, Mark, Unmark
<1>7. Seeding' = {} /\ Single'
  BY <1>1, <1>2 DEF Seeding, Single
<1>8. OneCall'
  BY <1>3, <1>7 DEF OneCall, Busy
<1>9. Decided'
  BY <1>3, <1>4, <1>5, <1>6, <1>7 DEF Decided, Marking, Withdrawing
<1>10. Cleared'
  BY <1>6 DEF Cleared, Leaving
<1> QED BY <1>7, <1>8, <1>9, <1>10

(* A call goes on, and is the only one.                                    *)
LEMMA CallContinues ==
  ASSUME StarterTypeOK, Numbered, InStep, ~crossed, NEW s \in Staff, StaffStep(s),
         ~(Mark(s) \/ Unmark(s) \/ CallDies(s))
  PROVE  OneCall' /\ Decided' /\ Single' /\ Cleared'
<1>1. OneCall /\ Decided /\ Single /\ Cleared
  BY DEF InStep
<1>2. s \in Busy /\ UNCHANGED <<signup, marked>>
  BY DEF StaffStep, FindTargets, CreateCopies, FindCopies, FindWork, DeleteCopies, Busy
<1>3. \A t \in Staff \ {s} : /\ staff'[t] = staff[t] /\ staff[t].at = "idle"
                             /\ staff[t] = NoCall
  BY <1>1, <1>2, CallMoves DEF Busy, OneCall, Numbered
<1>4. NoCall.at = "idle" /\ NoCall.orgs = {}
  BY DEF NoCall
<1>5. Seeding' = {} /\ OneCall'
  <2>1. Seeding' = {}
    BY <1>1, <1>2 DEF OneCall, Seeding
  <2> QED BY <1>3, <2>1 DEF OneCall, Busy
<1>6. CASE FindTargets(s)
  <2>1. /\ copies' = copies /\ staff[s].at = "find targets" /\ staff'[s].at = "create"
        /\ \A o \in staff'[s].orgs : WithoutCopy(o)
    BY <1>6, CallMoves DEF FindTargets
  <2>2. marked
    BY <1>1, <2>1 DEF Decided, Marking
  <2>3. Decided'
    BY <1>2, <1>3, <1>4, <1>5, <2>1, <2>2 DEF Decided, WithoutCopy, Marking, Withdrawing
  <2> QED BY <1>1, <1>2, <1>5, <2>1, <2>2, <2>3 DEF Single, Cleared
<1>7. CASE CreateCopies(s)
  <2>1. /\ staff[s].at = "create" /\ staff'[s] = NoCall
        /\ CopyInto(staff[s].orgs) /\ staff[s].orgs \in SUBSET Orgs
    BY <1>7, CallMoves DEF CreateCopies, StarterTypeOK
  <2>2. marked /\ \A o \in staff[s].orgs : WithoutCopy(o)
    BY <1>1, <2>1 DEF Decided, Marking
  <2>3. Single'
    BY <1>1, <2>1, <2>2, CopiesSingle
  <2>4. Decided'
    BY <1>2, <1>3, <1>4, <1>5, <2>1, <2>2 DEF Decided, Marking, Withdrawing
  <2> QED BY <1>2, <1>5, <2>2, <2>3, <2>4 DEF Cleared
<1>8. CASE FindCopies(s)
  <2>1. /\ copies' = copies /\ staff[s].at = "find copies" /\ staff'[s].at = "find work"
        /\ staff'[s].orgs = {} /\ staff'[s].copies = {c \in copies : ~c.edited}
    BY <1>8, CallMoves DEF FindCopies
  <2>2. ~marked
    BY <1>1, <2>1 DEF Decided, Withdrawing
  <2>3. Decided'
    BY <1>2, <1>3, <1>4, <1>5, <2>1, <2>2 DEF Decided, Marking, Withdrawing
  <2>4. \A c \in copies : c.edited \/ In(c, staff'[s].copies)
    BY <2>1, SameId
  <2> QED BY <1>1, <1>5, <2>1, <2>3, <2>4 DEF Single, Cleared, Leaving, Withdrawing
<1>9. CASE FindWork(s)
  <2>1. /\ copies' = copies /\ staff[s].at = "find work" /\ staff'[s].at = "delete"
        /\ staff'[s].orgs = {}
        /\ staff'[s].copies = {c \in copies : In(c, staff[s].copies) /\ ~c.hung}
    BY <1>9, CallMoves DEF FindWork, Unused
  <2>2. ~marked
    BY <1>1, <2>1 DEF Decided, Withdrawing
  <2>3. Decided'
    BY <1>2, <1>3, <1>4, <1>5, <2>1, <2>2 DEF Decided, Marking, Withdrawing
  <2>4. \A c \in copies : c.edited \/ c.hung \/ In(c, staff[s].copies)
    BY <1>1, <1>3, <2>1, <2>2 DEF Cleared, Leaving, Withdrawing
  <2>5. \A c \in copies : c.edited \/ c.hung \/ In(c, staff'[s].copies)
    BY <2>1, <2>4, SameId
  <2> QED BY <1>1, <1>5, <2>1, <2>3, <2>5 DEF Single, Cleared, Leaving, Withdrawing
<1>10. CASE DeleteCopies(s)
  <2>1. /\ copies' = {c \in copies : ~In(c, staff[s].copies)} /\ staff[s].at = "delete"
        /\ staff'[s] = NoCall
    BY <1>10, CallMoves DEF DeleteCopies
  <2>2. ~marked
    BY <1>1, <2>1 DEF Decided, Withdrawing
  <2>3. Decided'
    BY <1>2, <1>3, <1>4, <1>5, <2>1, <2>2 DEF Decided, Marking, Withdrawing
  <2>4. \A c \in copies : c.edited \/ c.hung \/ In(c, staff[s].copies)
    BY <1>1, <1>3, <2>1, <2>2 DEF Cleared, Leaving, Withdrawing
  <2> QED BY <1>1, <1>5, <2>1, <2>3, <2>4 DEF Single, Cleared
<1> QED BY <1>6, <1>7, <1>8, <1>9, <1>10 DEF StaffStep

LEMMA StaffInStep ==
  ASSUME StarterTypeOK, Numbered, InStep, NEW s \in Staff, StaffStep(s)
  PROVE  InStep'
<1> SUFFICES ASSUME ~crossed' PROVE OneCall' /\ Decided' /\ Single' /\ Cleared'
  BY DEF InStep
<1>1. CASE Mark(s) \/ Unmark(s)
  BY <1>1, CallBegins
<1>2. CASE ~(Mark(s) \/ Unmark(s))
  <2>1. ~CallDies(s)
    BY DEF CallDies
  <2>2. crossed' = crossed
    BY <1>2, <2>1 DEF StaffStep, FindTargets, CreateCopies, FindCopies, FindWork,
      DeleteCopies
  <2>3. ~crossed
    BY <2>2, Zenon
  <2> QED BY <1>2, <2>1, <2>3, CallContinues
<1> QED BY <1>1, <1>2

(* A workspace that signs up is seeded, no call being under way.           *)
LEMMA SignupInStep ==
  ASSUME StarterTypeOK, Numbered, InStep, NEW o \in Orgs, SignupStep(o)
  PROVE  InStep'
<1> SUFFICES ASSUME ~crossed' PROVE OneCall' /\ Decided' /\ Single' /\ Cleared'
  BY DEF InStep
<1>1. ~crossed /\ UNCHANGED <<marked, staff>>
  <2>1. UNCHANGED <<marked, staff>>
    BY DEF SignupStep, SignUp, FindStarters, Seed
  <2>2. crossed' = crossed \/ crossed' = (crossed \/ Busy # {})
    BY DEF SignupStep, SignUp, FindStarters, Seed
  <2>3. ~crossed
    BY <2>2, Zenon
  <2> QED BY <2>1, <2>3
<1>2. OneCall /\ Decided /\ Single /\ Cleared
  BY <1>1 DEF InStep
<1>3. Busy = {} /\ Busy' = {}
  <2>1. CASE SignUp(o)
    BY <1>1, <2>1 DEF SignUp, Busy
  <2>2. CASE FindStarters(o) \/ Seed(o)
    <3>1. o \in Seeding
      BY <2>2 DEF FindStarters, Seed, Seeding
    <3> QED BY <1>1, <1>2, <3>1 DEF OneCall, Busy
  <2> QED BY <2>1, <2>2 DEF SignupStep
<1>4. OneCall'
  BY <1>3 DEF OneCall
<1>5. \A s \in Staff : staff'[s].at = "idle" /\ staff'[s].orgs = {}
  BY <1>1, <1>3 DEF Busy, Numbered, NoCall
<1>6. ASSUME \A p \in Seeding' : WithoutCopy(p)' /\ (signup'[p] = "create" => marked)
      PROVE  Decided'
  BY <1>1, <1>5, <1>6 DEF Decided, Marking, Withdrawing
<1>7. CASE SignUp(o)
  <2>1. copies' = copies /\ org[o] = "absent" /\ signup' = [signup EXCEPT ![o] = "find starters"]
    BY <1>7 DEF SignUp
  <2>2. \A p : WithoutCopy(p) => WithoutCopy(p)'
    BY <2>1 DEF WithoutCopy
  <2>3. WithoutCopy(o)
    BY <2>1 DEF Numbered, WithoutCopy
  <2>4. \A p \in Seeding' : p = o \/ (p \in Seeding /\ signup'[p] = signup[p])
    BY <2>1 DEF Seeding, StarterTypeOK
  <2>5. signup'[o] = "find starters"
    BY <2>1 DEF StarterTypeOK
  <2>6. Decided'
    BY <1>2, <1>6, <2>2, <2>3, <2>4, <2>5 DEF Decided
  <2> QED BY <1>1, <1>2, <1>4, <2>1, <2>6 DEF Single, Cleared, Leaving
<1>8. CASE FindStarters(o)
  <2>1. /\ copies' = copies /\ signup[o] = "find starters"
        /\ signup' = [signup EXCEPT ![o] = IF marked THEN "create" ELSE "none"]
    BY <1>8 DEF FindStarters
  <2>2. \A p : WithoutCopy(p) => WithoutCopy(p)'
    BY <2>1 DEF WithoutCopy
  <2>3. \A p \in Seeding' : /\ p \in Seeding
                            /\ signup'[p] = "create" => signup[p] = "create" \/ marked
    BY <2>1 DEF Seeding, StarterTypeOK
  <2>4. Decided'
    BY <1>2, <1>6, <2>2, <2>3 DEF Decided
  <2> QED BY <1>1, <1>2, <1>4, <2>1, <2>4 DEF Single, Cleared, Leaving
<1>9. CASE Seed(o)
  <2>1. signup[o] = "create" /\ signup' = [signup EXCEPT ![o] = "none"] /\ o \in Seeding
    BY <1>9 DEF Seed, Seeding
  <2>2. marked /\ WithoutCopy(o)
    BY <1>2, <2>1 DEF Decided
  <2>3. \A p \in Seeding' : p \in Seeding /\ p # o /\ signup'[p] = signup[p]
    BY <2>1 DEF Seeding, StarterTypeOK
  <2>4. Single' /\ \A p : p # o /\ WithoutCopy(p) => WithoutCopy(p)'
    <3>1. CASE CopyInto({o})
      <4>1. {o} \in SUBSET Orgs /\ \A p \in {o} : WithoutCopy(p)
        BY <2>2
      <4>2. Single' /\ \A p : p \notin {o} /\ WithoutCopy(p) => WithoutCopy(p)'
        BY <1>2, <3>1, <4>1, CopiesSingle
      <4> QED BY <4>2
    <3>2. CASE UNCHANGED <<copies, made>>
      BY <1>2, <3>2 DEF Single, WithoutCopy
    <3> QED BY <1>9, <3>1, <3>2 DEF Seed
  <2>5. Decided'
    BY <1>2, <1>6, <2>3, <2>4 DEF Decided
  <2> QED BY <1>1, <1>4, <2>2, <2>4, <2>5 DEF Cleared
<1> QED BY <1>7, <1>8, <1>9 DEF SignupStep

(* What the partner does to a copy leaves a copy worked on, or none, or    *)
(* one with as much work as before.                                        *)
LEMMA PartnerInStep ==
  ASSUME StarterTypeOK, Numbered, InStep, NEW c \in copies, PartnerStep(c)
  PROVE  InStep'
<1> SUFFICES ASSUME ~crossed' PROVE OneCall' /\ Decided' /\ Single' /\ Cleared'
  BY DEF InStep
<1>1. UNCHANGED <<marked, staff, signup, crossed>>
  BY PartnerTyped
<1>2. OneCall /\ Decided /\ Single /\ Cleared
  BY <1>1 DEF InStep
<1>3. PICK worked \in Copies :
        /\ worked.org = c.org /\ worked.nr = c.nr
        /\ worked.edited \/ worked.hung \/ SameWork(c, worked)
        /\ copies' \subseteq (copies \ {c}) \union {worked}
  BY PartnerTyped
<1>4. OneCall' /\ Seeding' = Seeding
  BY <1>1, <1>2 DEF OneCall, Busy, Seeding
<1>5. \A o : WithoutCopy(o) => WithoutCopy(o)'
  BY <1>3 DEF WithoutCopy
<1>6. Decided'
  BY <1>1, <1>2, <1>4, <1>5 DEF Decided
<1>7. Single'
  BY <1>2, <1>3 DEF Single
<1>8. Cleared'
  <2>1. \A set : In(worked, set) <=> In(c, set)
    BY <1>3, SameId
  <2>2. Leaving(c) => Leaving(worked)'
    BY <1>1, <2>1 DEF Leaving
  <2>3. \A d \in copies : Leaving(d) => Leaving(d)'
    BY <1>1 DEF Leaving
  <2> QED BY <1>1, <1>2, <1>3, <2>2, <2>3 DEF Cleared, SameWork
<1> QED BY <1>4, <1>6, <1>7, <1>8

LEMMA InStepKept == StarterTypeOK /\ Numbered /\ InStep /\ [StarterNext]_starterVars => InStep'
<1> SUFFICES ASSUME StarterTypeOK, Numbered, InStep, [StarterNext]_starterVars PROVE InStep'
  OBVIOUS
<1>1. CASE UNCHANGED starterVars
  BY <1>1 DEF starterVars, InStep, OneCall, Decided, Single, Cleared, Leaving, Busy, Seeding,
    WithoutCopy
<1> QED BY <1>1, StarterSplit, StaffInStep, SignupInStep, PartnerInStep

-----------------------------------------------------------------------------
(* Starters: what always holds.                                            *)

StarterInv == StarterTypeOK /\ Numbered /\ Undisturbed /\ InStep

LEMMA StartersAlways == StarterSpec => []StarterInv
<1>1. StarterInit => StarterInv
  <2>1. StarterInit => Undisturbed
    BY DEF StarterInit, Undisturbed
  <2> QED BY <2>1, StarterStarts, NumberedStarts, InStepStarts DEF StarterInv
<1>2. StarterInv /\ [StarterNext]_starterVars => StarterInv'
  BY StarterTyped, NumberedKept, UndisturbedKept, InStepKept DEF StarterInv
<1> QED BY <1>1, <1>2, PTL DEF StarterSpec

(* Every slot, copy and seeding is one the code can be in.                 *)
THEOREM StarterTypesCorrect == StarterSpec => []StarterTypeOK
<1>1. StarterInv => StarterTypeOK
  BY DEF StarterInv
<1> QED BY <1>1, StartersAlways, PTL

(* The withdrawal of a starter (withdrawUnusedCopies) deletes no copy that *)
(* was edited or that a row of the five tables it queries names, if nobody *)
(* edits its candidates or adds such a row between its reads and its       *)
(* delete, whatever other calls, signups and partners do meanwhile and     *)
(* whatever papers are uploaded: those, which it does not look for, go     *)
(* with the copy.                                                          *)
THEOREM WorkStaysCorrect == StarterSpec => []WorkStaysUndisturbed
<1>1. StarterInv => WorkStaysUndisturbed
  BY DEF StarterInv, Undisturbed, WorkStaysUndisturbed, WorkStays
<1> QED BY <1>1, StartersAlways, PTL

(* While the staff's calls come one after the other and do not die, no     *)
(* workspace holds two copies of the starter, and when it is none any more *)
(* only copies somebody edited or hung something off are left: uploaded    *)
(* papers keep none.                                                       *)
THEOREM CopiesStayInStep == StarterSpec => []CopiesInStep
<1>1. ASSUME StarterInv, ~crossed PROVE CopiesInStep
  <2>1. Single /\ Cleared
    BY <1>1 DEF StarterInv, InStep
  <2>2. Busy = {} => \A c \in copies : ~Leaving(c)
    BY DEF Busy, Leaving, Withdrawing
  <2> QED BY <2>1, <2>2 DEF Single, Cleared, CopiesInStep
<1>2. StarterInv => CopiesInStep
  BY <1>1 DEF CopiesInStep
<1> QED BY <1>2, StartersAlways, PTL

-----------------------------------------------------------------------------
(* DeedEditing.                                                            *)

EditorRecords ==
  [page : {"closed", "open", "left"}, draft : Texts, saved : Texts,
   save : {"none", "sent", "settling"}, debounce : BOOLEAN, retry : BOOLEAN]
CallRecords ==
  [kind : {"none", "save", "aiDraft", "partyFields"},
   at : {"idle", "read", "claude", "last", "create", "write", "answer"},
   by : Editors \union {Nobody}, awaited : BOOLEAN,
   text : Texts, seen : Texts, last : Nat]

DeedTyped ==
  /\ live \in Texts /\ revisions \in Seq(Texts) /\ history \in Seq(Texts)
  /\ editor \in [Editors -> EditorRecords] /\ call \in [Slots -> CallRecords]
  /\ lastBy \in Editors \union {Nobody} /\ overlapped \in BOOLEAN
  /\ unheard \subseteq Editors

(* A slot that serves nobody is empty; a save is a page's, and only a page *)
(* is waited for by.                                                       *)
SlotOK(s) ==
  /\ call[s].at = "idle" => call[s] = NoDeedCall
  /\ call[s].at = "answer" => call[s].awaited
  /\ call[s].at = "claude" => call[s].kind # "save"
  /\ call[s].awaited => call[s].by # Nobody
  /\ call[s].kind = "save" <=> call[s].by # Nobody

AtRest(ed) == ed.save = "none" /\ ~ed.debounce /\ ~ed.retry

(* The page waits for the one call that is to answer it, or for none.      *)
Waiting(e) == {s \in Slots : call[s].awaited /\ call[s].by = e}
Awaits(e) ==
  /\ \A s, t \in Waiting(e) : s = t
  /\ editor[e].save = "sent" <=> Waiting(e) # {}
  /\ editor[e].page = "closed" => AtRest(editor[e])

(* What a page has under way that has heard of all its saves: one call,    *)
(* which it waits for, or which took along all there was to save; ...      *)
Sent(e) == {s \in Slots : call[s].by = e}
Known(e) ==
  /\ editor[e].page = "closed" => Sent(e) = {} /\ lastBy # e
  /\ \A s, t \in Sent(e) : s = t
  /\ \A s \in Sent(e) :
       \/ call[s].awaited
       \/ /\ editor[e].page = "left" /\ AtRest(editor[e])
          /\ call[s].text = editor[e].draft

(* ... and if it wrote last, the row holds what the page takes for saved,  *)
(* what an answer on its way will tell it, or what it left behind.         *)
SavedLast(e) ==
  \/ /\ live = editor[e].saved /\ (\A s \in Sent(e) : call[s].at # "answer")
     /\ Dirty(editor[e]) => ~AtRest(editor[e]) \/ Sent(e) # {}
  \/ \E s \in Sent(e) : call[s].at = "answer" /\ live = call[s].text
  \/ /\ Sent(e) = {} /\ editor[e].page = "left" /\ AtRest(editor[e])
     /\ live = editor[e].draft

Follows(e) == e \notin unheard => Known(e) /\ (lastBy = e => SavedLast(e))
Pending(e) == editor[e].page = "open" /\ Dirty(editor[e]) => ~AtRest(editor[e])
PageOK(e) == Awaits(e) /\ Follows(e) /\ Pending(e)

SlotsOK == \A s \in Slots : SlotOK(s)
PagesOK == \A e \in Editors : PageOK(e)
EditInv == DeedTyped /\ SlotsOK /\ PagesOK

-----------------------------------------------------------------------------
LEMMA NoDeedCallFacts ==
  /\ NoDeedCall.kind = "none" /\ NoDeedCall.at = "idle" /\ NoDeedCall.by = Nobody
  /\ NoDeedCall.awaited = FALSE
  /\ Texts # {} => NoDeedCall \in CallRecords /\ NoEditor \in EditorRecords
<1>1. /\ NoDeedCall.kind = "none" /\ NoDeedCall.at = "idle" /\ NoDeedCall.by = Nobody
      /\ NoDeedCall.awaited = FALSE
  BY DEF NoDeedCall
<1>2. ASSUME Texts # {} PROVE NoDeedCall \in CallRecords /\ NoEditor \in EditorRecords
  <2>1. AnyText \in Texts
    BY <1>2 DEF AnyText
  <2> QED BY <2>1 DEF NoDeedCall, CallRecords, NoEditor, EditorRecords
<1> QED BY <1>1, <1>2

(* A page that a step does not concern.                                    *)
LEMMA Unaffected ==
  ASSUME NEW f \in Editors, PageOK(f), editor'[f] = editor[f],
         lastBy' = f => lastBy = f /\ live' = live, f \notin unheard' => f \notin unheard,
         \A s \in Slots :
           /\ call'[s].by = f <=> call[s].by = f
           /\ call[s].by = f => /\ call'[s].awaited <=> call[s].awaited
                                /\ call'[s].text = call[s].text
                                /\ call'[s].at = "answer" <=> call[s].at = "answer"
  PROVE  PageOK(f)'
<1>1. Sent(f)' = Sent(f) /\ Waiting(f)' = Waiting(f)
  BY DEF Sent, Waiting
<1>2. Awaits(f)' /\ Pending(f)'
  BY <1>1 DEF PageOK, Awaits, Pending
<1>3. ASSUME f \notin unheard' PROVE Known(f)'
  BY <1>1, <1>3 DEF PageOK, Follows, Known, Sent
<1>4. ASSUME f \notin unheard', lastBy' = f PROVE SavedLast(f)'
  BY <1>1, <1>4 DEF PageOK, Follows, SavedLast, Sent
<1> QED BY <1>2, <1>3, <1>4 DEF PageOK, Follows

(* The request that leaves takes an empty slot.                            *)
Sends(s, kind, e, awaited, text) ==
  /\ call[s].at = "idle" /\ call[s].by = Nobody /\ ~call[s].awaited
  /\ call' \in [Slots -> CallRecords]
  /\ \A t \in Slots \ {s} : call'[t] = call[t]
  /\ call'[s].kind = kind /\ call'[s].at = "read" /\ call'[s].by = e
  /\ call'[s].awaited = awaited /\ call'[s].text = text

LEMMA SendSends ==
  ASSUME EditInv, NEW s \in Slots, NEW kind \in {"save", "aiDraft", "partyFields"},
         NEW e \in Editors \union {Nobody}, NEW awaited \in BOOLEAN, NEW text \in Texts,
         Send(s, kind, e, awaited, text)
  PROVE  Sends(s, kind, e, awaited, text)
<1> DEFINE new == [NoDeedCall EXCEPT !.kind = kind, !.at = "read", !.by = e,
                     !.awaited = awaited, !.text = text]
<1>1. NoDeedCall \in CallRecords
  BY NoDeedCallFacts
<1>2. new \in CallRecords
  BY <1>1 DEF CallRecords
<1>3. /\ new.kind = kind /\ new.at = "read" /\ new.by = e /\ new.awaited = awaited
      /\ new.text = text
  BY <1>1 DEF CallRecords
<1> HIDE DEF new
<1>4. call[s].at = "idle" /\ call' = [call EXCEPT ![s] = new]
  BY DEF Send, new
<1>5. call \in [Slots -> CallRecords]
  BY DEF EditInv, DeedTyped
<1>6. call[s].by = Nobody /\ ~call[s].awaited
  BY <1>4, NoDeedCallFacts DEF EditInv, SlotsOK, SlotOK
<1> QED BY <1>2, <1>3, <1>4, <1>5, <1>6 DEF Sends

(* Slots and other pages, when a page or another caller sends a request.   *)
LEMMA SendKeeps ==
  ASSUME EditInv, NEW s \in Slots, NEW kind \in {"save", "aiDraft", "partyFields"},
         NEW e \in Editors \union {Nobody}, NEW awaited \in BOOLEAN, NEW text \in Texts,
         Sends(s, kind, e, awaited, text),
         kind = "save" <=> e # Nobody, awaited => e # Nobody,
         \A f \in Editors \ {e} : editor'[f] = editor[f],
         UNCHANGED <<live, lastBy, unheard>>
  PROVE  SlotsOK' /\ \A f \in Editors \ {e} : PageOK(f)'
<1>1. SlotsOK'
  BY DEF SlotsOK, SlotOK, Sends, EditInv
<1>2. ASSUME NEW f \in Editors \ {e} PROVE PageOK(f)'
  <2>1. f # Nobody
    BY NobodyAssumption
  <2> QED BY <2>1, Unaffected DEF EditInv, PagesOK, Sends
<1> QED BY <1>1, <1>2

LEMMA RunRuns ==
  ASSUME EditInv, NEW e \in Editors, NEW ed \in EditorRecords, Run(e, ed)
  PROVE  /\ editor' \in [Editors -> EditorRecords]
         /\ \A f \in Editors \ {e} : editor'[f] = editor[f]
         /\ editor'[e].page = ed.page /\ editor'[e].draft = ed.draft
         /\ editor'[e].saved = ed.saved /\ editor'[e].debounce = ed.debounce
         /\ editor'[e].retry = ed.retry
         /\ \/ /\ MayRun(ed) /\ editor'[e].save = "sent"
               /\ \E s \in Slots : Sends(s, "save", e, TRUE, ed.draft)
            \/ ~MayRun(ed) /\ editor'[e].save = ed.save /\ call' = call
<1>1. editor \in [Editors -> EditorRecords]
  BY DEF EditInv, DeedTyped
<1>2. CASE MayRun(ed)
  <2> DEFINE new == [ed EXCEPT !.save = "sent"]
  <2>1. /\ new \in EditorRecords /\ new.page = ed.page /\ new.draft = ed.draft
        /\ new.saved = ed.saved /\ new.debounce = ed.debounce /\ new.retry = ed.retry
        /\ new.save = "sent"
    BY DEF EditorRecords
  <2>2. editor' = [editor EXCEPT ![e] = new] /\ \E s \in Slots : Send(s, "save", e, TRUE, ed.draft)
    BY <1>2 DEF Run
  <2>3. ed.draft \in Texts
    BY DEF EditorRecords
  <2>4. \E s \in Slots : Sends(s, "save", e, TRUE, ed.draft)
    BY <2>2, <2>3, SendSends
  <2> HIDE DEF new
  <2> QED BY <1>1, <1>2, <2>1, <2>2, <2>4
<1>3. CASE ~MayRun(ed)
  BY <1>1, <1>3 DEF Run
<1> QED BY <1>2, <1>3

(* run, by a page that is open or has something under way.                 *)
LEMMA RunKeeps ==
  ASSUME EditInv, NEW e \in Editors, NEW ed \in EditorRecords, Run(e, ed),
         editor[e].page = "open" \/ ~AtRest(editor[e]),
         ed.page = editor[e].page, ed.draft = editor[e].draft, ed.saved = editor[e].saved,
         ed.debounce => editor[e].debounce, ed.retry => editor[e].retry,
         ed.save = editor[e].save \/ (editor[e].save = "settling" /\ ed.save = "none"),
         UNCHANGED <<serverSide, unheard>>
  PROVE  EditInv'
<1>0. /\ editor' \in [Editors -> EditorRecords]
      /\ \A f \in Editors \ {e} : editor'[f] = editor[f]
      /\ editor'[e].page = editor[e].page /\ editor'[e].draft = editor[e].draft
      /\ editor'[e].saved = editor[e].saved /\ editor'[e].debounce = ed.debounce
      /\ editor'[e].retry = ed.retry
  BY RunRuns
<1>1. UNCHANGED <<live, revisions, history, lastBy, overlapped, unheard>>
  BY DEF serverSide
<1>2. e # Nobody /\ PageOK(e) /\ editor[e].page # "closed"
  BY NobodyAssumption DEF EditInv, PagesOK, PageOK, Awaits
<1>3. CASE MayRun(ed)
  <2>1. PICK s \in Slots : Sends(s, "save", e, TRUE, ed.draft)
    BY <1>3, RunRuns
  <2>2. editor'[e].save = "sent" /\ editor[e].save # "sent" /\ Dirty(ed)
    BY <1>3, RunRuns DEF MayRun
  <2>3. SlotsOK' /\ \A f \in Editors \ {e} : PageOK(f)'
    BY <1>0, <1>1, <1>2, <2>1, SendKeeps DEF EditorRecords
  <2>4. Waiting(e) = {}
    BY <1>2, <2>2 DEF PageOK, Awaits
  <2>5. Waiting(e)' = {s}
    BY <2>1, <2>4 DEF Waiting, Sends
  <2>6. Awaits(e)' /\ Pending(e)'
    BY <1>0, <1>2, <2>2, <2>5 DEF Awaits, Pending, AtRest
  <2>7. ASSUME e \notin unheard PROVE Known(e)' /\ (lastBy' = e => SavedLast(e)')
    <3>1. Known(e) /\ (lastBy = e => SavedLast(e))
      BY <1>2, <2>7 DEF PageOK, Follows
    <3>2. Sent(e) = {}
      BY <2>4, <3>1 DEF Known, Sent, Waiting
    <3>3. Sent(e)' = {s}
      BY <2>1, <3>2 DEF Sent, Sends
    <3>4. Known(e)'
      BY <1>0, <1>2, <2>1, <3>3 DEF Known, Sends
    <3>5. ASSUME lastBy' = e PROVE SavedLast(e)'
      <4>1. live = editor[e].saved
        BY <1>1, <3>1, <3>2, <3>5 DEF SavedLast
      <4> QED BY <1>0, <1>1, <2>1, <3>3, <4>1 DEF SavedLast, Sends
    <3> QED BY <3>4, <3>5
  <2>8. PageOK(e)'
    BY <1>1, <2>6, <2>7 DEF PageOK, Follows
  <2>9. DeedTyped'
    BY <1>0, <1>1, <2>1 DEF EditInv, DeedTyped, Sends
  <2> QED BY <2>3, <2>8, <2>9 DEF EditInv, PagesOK
<1>4. CASE ~MayRun(ed)
  <2>1. editor'[e].save = ed.save /\ call' = call
    BY <1>4, RunRuns
  <2>2. ed.save # "none" \/ ~Dirty(ed)
    BY <1>4 DEF MayRun
  <2>3. Dirty(editor[e])' <=> Dirty(ed)
    BY <1>0 DEF Dirty
  <2>4. SlotsOK' /\ Sent(e)' = Sent(e) /\ Waiting(e)' = Waiting(e)
    BY <2>1 DEF EditInv, SlotsOK, SlotOK, Sent, Waiting
  <2>5. ASSUME NEW f \in Editors \ {e} PROVE PageOK(f)'
    BY <1>0, <1>1, <2>1, Unaffected DEF EditInv, PagesOK
  <2>6. Awaits(e)' /\ Pending(e)'
    BY <1>0, <1>2, <2>1, <2>2, <2>3, <2>4 DEF PageOK, Awaits, Pending, AtRest
  <2>7. ASSUME e \notin unheard PROVE Known(e)' /\ (lastBy' = e => SavedLast(e)')
    <3>1. Known(e) /\ (lastBy = e => SavedLast(e))
      BY <1>2, <2>7 DEF PageOK, Follows
    <3>2. Known(e)'
      BY <1>0, <1>1, <1>2, <2>1, <2>4, <3>1 DEF Known
    <3>3. ASSUME lastBy' = e PROVE SavedLast(e)'
      BY <1>0, <1>1, <2>1, <2>2, <2>3, <2>4, <3>1, <3>3 DEF SavedLast, AtRest
    <3> QED BY <3>2, <3>3
  <2>8. PageOK(e)'
    BY <1>1, <2>6, <2>7 DEF PageOK, Follows
  <2>9. DeedTyped'
    BY <1>0, <1>1, <2>1 DEF EditInv, DeedTyped
  <2> QED BY <2>4, <2>5, <2>8, <2>9 DEF EditInv, PagesOK
<1> QED BY <1>3, <1>4

LEMMA TimersKeep ==
  ASSUME EditInv, NEW e \in Editors,
         DebounceFires(e) \/ RetryFires(e) \/ SaveNow(e) \/ Settled(e)
  PROVE  EditInv'
<1> DEFINE ed1 == [editor[e] EXCEPT !.debounce = FALSE]
           ed2 == [editor[e] EXCEPT !.retry = FALSE]
           ed3 == [editor[e] EXCEPT !.debounce = FALSE, !.retry = FALSE]
           ed4 == [editor[e] EXCEPT !.save = "none"]
<1>1. editor[e] \in EditorRecords
  BY DEF EditInv, DeedTyped
<1>2. /\ ed1 \in EditorRecords /\ ed1.page = editor[e].page /\ ed1.draft = editor[e].draft
      /\ ed1.saved = editor[e].saved /\ ed1.save = editor[e].save /\ ~ed1.debounce
      /\ ed1.retry = editor[e].retry
  BY <1>1 DEF EditorRecords
<1>3. /\ ed2 \in EditorRecords /\ ed2.page = editor[e].page /\ ed2.draft = editor[e].draft
      /\ ed2.saved = editor[e].saved /\ ed2.save = editor[e].save
      /\ ed2.debounce = editor[e].debounce /\ ~ed2.retry
  BY <1>1 DEF EditorRecords
<1>4. /\ ed3 \in EditorRecords /\ ed3.page = editor[e].page /\ ed3.draft = editor[e].draft
      /\ ed3.saved = editor[e].saved /\ ed3.save = editor[e].save /\ ~ed3.debounce
      /\ ~ed3.retry
  BY <1>1 DEF EditorRecords
<1>5. /\ ed4 \in EditorRecords /\ ed4.page = editor[e].page /\ ed4.draft = editor[e].draft
      /\ ed4.saved = editor[e].saved /\ ed4.save = "none"
      /\ ed4.debounce = editor[e].debounce /\ ed4.retry = editor[e].retry
  BY <1>1 DEF EditorRecords
<1>6. CASE DebounceFires(e)
  <2>1. Run(e, ed1) /\ editor[e].debounce /\ UNCHANGED <<serverSide, unheard>>
    BY <1>6 DEF DebounceFires
  <2> HIDE DEF ed1
  <2> QED BY <1>2, <2>1, RunKeeps DEF AtRest
<1>7. CASE RetryFires(e)
  <2>1. Run(e, ed2) /\ editor[e].retry /\ UNCHANGED <<serverSide, unheard>>
    BY <1>7 DEF RetryFires
  <2> HIDE DEF ed2
  <2> QED BY <1>3, <2>1, RunKeeps DEF AtRest
<1>8. CASE SaveNow(e)
  <2>1. Run(e, ed3) /\ editor[e].page = "open" /\ UNCHANGED <<serverSide, unheard>>
    BY <1>8 DEF SaveNow
  <2> HIDE DEF ed3
  <2> QED BY <1>4, <2>1, RunKeeps
<1>9. CASE Settled(e)
  <2>1. Run(e, ed4) /\ editor[e].save = "settling" /\ UNCHANGED <<serverSide, unheard>>
    BY <1>9 DEF Settled, RunAgain
  <2> HIDE DEF ed4
  <2> QED BY <1>5, <2>1, RunKeeps DEF AtRest
<1> QED BY <1>6, <1>7, <1>8, <1>9

(* A step of one page that leaves the calls alone.                         *)
LEMMA PageKeeps ==
  ASSUME EditInv, NEW e \in Editors, UNCHANGED <<serverSide, call, unheard>>,
         editor' \in [Editors -> EditorRecords],
         \A f \in Editors \ {e} : editor'[f] = editor[f],
         editor'[e].save = "sent" <=> editor[e].save = "sent", editor'[e].page # "closed",
         Pending(e)', Known(e) /\ e \notin unheard => Known(e)',
         Known(e) /\ lastBy = e /\ SavedLast(e) => SavedLast(e)'
  PROVE  EditInv'
<1>1. UNCHANGED <<live, revisions, history, lastBy, overlapped, unheard>> /\ call' = call
  BY DEF serverSide
<1>2. DeedTyped' /\ SlotsOK'
  BY <1>1 DEF EditInv, DeedTyped, SlotsOK, SlotOK
<1>3. ASSUME NEW f \in Editors \ {e} PROVE PageOK(f)'
  BY <1>1, Unaffected DEF EditInv, PagesOK
<1>4. PageOK(e)
  BY DEF EditInv, PagesOK
<1>5. Awaits(e)'
  BY <1>1, <1>4 DEF PageOK, Awaits, Waiting
<1>6. Follows(e)'
  BY <1>1, <1>4 DEF PageOK, Follows
<1> QED BY <1>2, <1>3, <1>5, <1>6 DEF EditInv, PagesOK, PageOK

LEMMA OpenKeeps ==
  ASSUME EditInv, NEW e \in Editors, OpenPage(e) PROVE EditInv'
<1> DEFINE new == [NoEditor EXCEPT !.page = "open", !.draft = live, !.saved = live]
<1>1. editor \in [Editors -> EditorRecords] /\ live \in Texts
  BY DEF EditInv, DeedTyped
<1>2. new \in EditorRecords /\ new.page = "open" /\ new.draft = new.saved /\ new.save = "none"
  BY <1>1, NoDeedCallFacts DEF NoEditor, EditorRecords
<1>3. /\ editor[e].page = "closed" /\ editor' = [editor EXCEPT ![e] = new]
      /\ UNCHANGED <<serverSide, call, unheard>>
  BY DEF OpenPage
<1> HIDE DEF new
<1>4. /\ editor' \in [Editors -> EditorRecords] /\ editor'[e] = new
      /\ \A f \in Editors \ {e} : editor'[f] = editor[f]
  BY <1>1, <1>2, <1>3
<1>5. editor[e].save = "none"
  BY <1>3 DEF EditInv, PagesOK, PageOK, Awaits, AtRest
<1>6. Pending(e)'
  BY <1>2, <1>4 DEF Pending, Dirty
<1>7. Known(e) => lastBy # e /\ Sent(e) = {}
  BY <1>3 DEF Known
<1>8. Known(e) => Known(e)'
  BY <1>2, <1>3, <1>4, <1>7 DEF Known, Sent
<1> QED BY <1>2, <1>3, <1>4, <1>5, <1>6, <1>7, <1>8, PageKeeps

LEMMA EditKeeps ==
  ASSUME EditInv, NEW e \in Editors, NEW text \in Texts, Edit(e, text) PROVE EditInv'
<1> DEFINE new == [editor[e] EXCEPT !.draft = text, !.debounce = text # editor[e].saved]
<1>1. editor \in [Editors -> EditorRecords]
  BY DEF EditInv, DeedTyped
<1>2. /\ new \in EditorRecords /\ new.page = editor[e].page /\ new.draft = text
      /\ new.saved = editor[e].saved /\ new.save = editor[e].save
      /\ new.debounce <=> text # editor[e].saved
  BY <1>1 DEF EditorRecords
<1>3. /\ editor[e].page = "open" /\ editor' = [editor EXCEPT ![e] = new]
      /\ UNCHANGED <<serverSide, call, unheard>>
  BY <1>1 DEF Edit
<1> HIDE DEF new
<1>4. /\ editor' \in [Editors -> EditorRecords] /\ editor'[e] = new
      /\ \A f \in Editors \ {e} : editor'[f] = editor[f]
  BY <1>1, <1>2, <1>3
<1>5. Dirty(editor[e])' => ~AtRest(editor[e])'
  BY <1>2, <1>4 DEF Dirty, AtRest
<1>6. Sent(e)' = Sent(e) /\ lastBy' = lastBy /\ live' = live
  BY <1>3 DEF Sent, serverSide
<1>7. Known(e) => Known(e)'
  BY <1>2, <1>3, <1>4, <1>6 DEF Known
<1>8. Known(e) /\ lastBy = e /\ SavedLast(e) => SavedLast(e)'
  BY <1>2, <1>3, <1>4, <1>5, <1>6 DEF SavedLast
<1> QED BY <1>2, <1>3, <1>4, <1>5, <1>7, <1>8, PageKeeps DEF Pending

(* What no save carries goes out as the page is left.                      *)
LEMMA LeaveKeeps ==
  ASSUME EditInv, NEW e \in Editors, LeavePage(e) PROVE EditInv'
<1> DEFINE new == [editor[e] EXCEPT !.page = "left", !.debounce = FALSE, !.retry = FALSE]
<1>1. editor \in [Editors -> EditorRecords]
  BY DEF EditInv, DeedTyped
<1>2. /\ new \in EditorRecords /\ new.page = "left" /\ new.draft = editor[e].draft
      /\ new.saved = editor[e].saved /\ new.save = editor[e].save
      /\ ~new.debounce /\ ~new.retry
  BY <1>1 DEF EditorRecords
<1>3. /\ editor[e].page = "open" /\ editor' = [editor EXCEPT ![e] = new]
      /\ UNCHANGED <<serverSide, unheard>>
  BY <1>1 DEF LeavePage
<1> HIDE DEF new
<1>4. /\ editor' \in [Editors -> EditorRecords] /\ editor'[e] = new
      /\ \A f \in Editors \ {e} : editor'[f] = editor[f]
  BY <1>1, <1>2, <1>3
<1>5. UNCHANGED <<live, revisions, history, lastBy, overlapped, unheard>>
  BY <1>3 DEF serverSide
<1>6. Pending(e)'
  BY <1>2, <1>4 DEF Pending
<1>7. PageOK(e) /\ e # Nobody
  BY NobodyAssumption DEF EditInv, PagesOK
<1>8. CASE MayRun(editor[e])
  <2>1. editor[e].save = "none" /\ editor[e].draft \in Texts
    BY <1>1, <1>8 DEF MayRun, EditorRecords
  <2>2. PICK s \in Slots : Sends(s, "save", e, FALSE, editor[e].draft)
    BY <1>8, <2>1, SendSends DEF LeavePage
  <2>3. SlotsOK' /\ \A f \in Editors \ {e} : PageOK(f)'
    BY <1>4, <1>5, <1>7, <2>1, <2>2, SendKeeps
  <2>4. Waiting(e) = {} /\ Waiting(e)' = {}
    BY <1>7, <2>1, <2>2 DEF PageOK, Awaits, Waiting, Sends
  <2>5. Awaits(e)' /\ AtRest(editor'[e])
    BY <1>2, <1>4, <2>1, <2>4 DEF Awaits, AtRest
  <2>6. ASSUME e \notin unheard PROVE Known(e)' /\ (lastBy' = e => SavedLast(e)')
    <3>1. Known(e) /\ (lastBy = e => SavedLast(e))
      BY <1>7, <2>6 DEF PageOK, Follows
    <3>2. Sent(e) = {}
      BY <1>3, <2>4, <3>1 DEF Known, Sent, Waiting
    <3>3. Sent(e)' = {s}
      BY <2>2, <3>2 DEF Sent, Sends
    <3>4. Known(e)'
      BY <1>2, <1>4, <2>2, <2>5, <3>3 DEF Known, Sends
    <3>5. lastBy' = e => SavedLast(e)'
      BY <1>2, <1>3, <1>4, <1>5, <2>2, <3>1, <3>2, <3>3 DEF SavedLast, Sends
    <3> QED BY <3>4, <3>5
  <2>7. DeedTyped'
    BY <1>4, <1>5, <2>2 DEF EditInv, DeedTyped, Sends
  <2> QED BY <1>5, <1>6, <2>3, <2>5, <2>6, <2>7 DEF EditInv, PagesOK, PageOK, Follows
<1>9. CASE ~MayRun(editor[e])
  <2>1. call' = call /\ (editor[e].save # "none" \/ ~Dirty(editor[e]))
    BY <1>9 DEF LeavePage, MayRun
  <2>2. Sent(e)' = Sent(e)
    BY <2>1 DEF Sent
  <2>3. Known(e) => Known(e)'
    BY <1>2, <1>3, <1>4, <2>1, <2>2 DEF Known
  <2>4. SavedLast(e) => SavedLast(e)'
    <3>1. Dirty(editor'[e]) => ~AtRest(editor'[e])
      BY <1>2, <1>3, <1>4, <2>1 DEF Dirty, AtRest
    <3> QED BY <1>2, <1>3, <1>4, <1>5, <2>1, <2>2, <3>1 DEF SavedLast
  <2> QED BY <1>2, <1>3, <1>4, <1>6, <2>1, <2>3, <2>4, PageKeeps
<1> QED BY <1>8, <1>9

LEMMA AskKeeps ==
  ASSUME EditInv, NEW s \in Slots, NEW kind \in {"aiDraft", "partyFields"}, Ask(s, kind)
  PROVE  EditInv'
<1>1. AnyText \in Texts
  BY DEF AnyText, EditInv, DeedTyped
<1>2. Sends(s, kind, Nobody, FALSE, AnyText) /\ UNCHANGED <<serverSide, editor, unheard>>
  BY <1>1, SendSends DEF Ask
<1>3. UNCHANGED <<live, revisions, history, lastBy, overlapped, unheard, editor>>
  BY <1>2 DEF serverSide
<1>4. SlotsOK'
  <2>1. kind # "save"
    OBVIOUS
  <2> QED BY <1>2, <2>1 DEF SlotsOK, SlotOK, Sends, EditInv
<1>5. DeedTyped'
  BY <1>2, <1>3 DEF EditInv, DeedTyped, Sends
<1>6. ASSUME NEW f \in Editors PROVE PageOK(f)'
  <2>1. f # Nobody
    BY NobodyAssumption
  <2> QED BY <1>2, <1>3, <2>1, Unaffected DEF EditInv, PagesOK, Sends
<1> QED BY <1>4, <1>5, <1>6 DEF EditInv, PagesOK

(* A call goes on: the same caller, who waits or not, and the same text of *)
(* a save.                                                                 *)
Onward(c, d) ==
  /\ d \in CallRecords /\ d.by = c.by /\ d.kind = c.kind /\ d.awaited = c.awaited
  /\ c.kind = "save" => d.text = c.text
  /\ d.at = "claude" => d.kind # "save"
  /\ d.at \notin {"idle", "answer"} /\ c.at \notin {"idle", "answer"}

LEMMA ReadGoes ==
  ASSUME EditInv, NEW s \in Slots, Read(s)
  PROVE  /\ call' \in [Slots -> CallRecords] /\ \A t \in Slots \ {s} : call'[t] = call[t]
         /\ \/ Onward(call[s], call'[s])
            \/ call'[s] = NoDeedCall /\ call[s].by = Nobody
<1>1. call \in [Slots -> CallRecords] /\ call[s].at = "read" /\ live \in Texts
  BY DEF EditInv, DeedTyped, Read
<1> DEFINE read == [call[s] EXCEPT !.seen = live]
<1>2. /\ read \in CallRecords /\ read.by = call[s].by /\ read.kind = call[s].kind
      /\ read.awaited = call[s].awaited /\ read.text = call[s].text
  BY <1>1 DEF CallRecords
<1>3. call' = [call EXCEPT ![s] = AfterRead(call[s])]
  BY DEF Read
<1>4. NoDeedCall \in CallRecords
  BY <1>1, NoDeedCallFacts
<1>5. \/ Onward(call[s], AfterRead(call[s]))
      \/ AfterRead(call[s]) = NoDeedCall /\ call[s].kind # "save"
  <2> HIDE DEF read
  <2>1. Filled(live) \in Texts
    BY <1>1 DEF Filled, Texts
  <2>2. \A at \in {"last", "write", "claude"} :
          /\ [read EXCEPT !.at = at] \in CallRecords
          /\ [read EXCEPT !.at = at].by = read.by
          /\ [read EXCEPT !.at = at].kind = read.kind
          /\ [read EXCEPT !.at = at].awaited = read.awaited
          /\ [read EXCEPT !.at = at].text = read.text
          /\ [read EXCEPT !.at = at].at = at
    BY <1>2 DEF CallRecords
  <2>3. \A at \in {"last", "write", "claude"} :
          (at = "claude" => call[s].kind # "save") => Onward(call[s], [read EXCEPT !.at = at])
    BY <1>1, <1>2, <2>2 DEF Onward
  <2>4. CASE call[s].kind = "save" /\ call[s].text # live
    <3>1. AfterRead(call[s]) = [read EXCEPT !.at = "last"]
      BY <2>4 DEF AfterRead, read
    <3> QED BY <2>3, <3>1
  <2>5. CASE call[s].kind = "save" /\ call[s].text = live
    <3>1. AfterRead(call[s]) = [read EXCEPT !.at = "write"]
      BY <2>5 DEF AfterRead, read
    <3> QED BY <2>3, <3>1
  <2>6. CASE call[s].kind = "aiDraft"
    <3>1. AfterRead(call[s]) = [read EXCEPT !.at = "claude"]
      BY <2>6 DEF AfterRead, read
    <3> QED BY <2>3, <2>6, <3>1
  <2>7. CASE call[s].kind = "partyFields" /\ live.tokens
    <3>1. AfterRead(call[s]) = [read EXCEPT !.at = "last", !.text = Filled(live)]
      BY <2>7 DEF AfterRead, read
    <3>2. /\ AfterRead(call[s]) \in CallRecords
          /\ AfterRead(call[s]).by = read.by /\ AfterRead(call[s]).kind = read.kind
          /\ AfterRead(call[s]).awaited = read.awaited /\ AfterRead(call[s]).at = "last"
      BY <1>2, <2>1, <3>1 DEF CallRecords
    <3> QED BY <1>1, <1>2, <2>7, <3>2 DEF Onward
  <2>8. CASE call[s].kind \notin {"save", "aiDraft"} /\ ~(call[s].kind = "partyFields" /\ live.tokens)
    <3>1. AfterRead(call[s]) = NoDeedCall
      BY <2>8 DEF AfterRead
    <3> QED BY <2>8, <3>1
  <2> QED BY <2>4, <2>5, <2>6, <2>7, <2>8
<1>6. call[s].kind # "save" => call[s].by = Nobody
  BY DEF EditInv, SlotsOK, SlotOK
<1> QED BY <1>1, <1>3, <1>4, <1>5, <1>6 DEF Onward

LEMMA StatementGoes ==
  ASSUME EditInv, NEW s \in Slots,
         \/ \E text \in Texts : ClaudeAnswers(s, text)
         \/ ReadLast(s) \/ CreateRevision(s)
  PROVE  /\ call' \in [Slots -> CallRecords] /\ \A t \in Slots \ {s} : call'[t] = call[t]
         /\ Onward(call[s], call'[s])
<1>1. call \in [Slots -> CallRecords] /\ call[s] \in CallRecords
  BY DEF EditInv, DeedTyped
<1>2. CASE \E text \in Texts : ClaudeAnswers(s, text)
  <2>1. PICK text \in Texts : ClaudeAnswers(s, text)
    BY <1>2
  <2> DEFINE new == [call[s] EXCEPT !.at = "last", !.text = text]
  <2>2. /\ new \in CallRecords /\ new.by = call[s].by /\ new.kind = call[s].kind
        /\ new.awaited = call[s].awaited /\ new.at = "last"
    BY <1>1 DEF CallRecords
  <2>3. call[s].at = "claude" /\ call' = [call EXCEPT ![s] = new]
    BY <1>1, <2>1 DEF ClaudeAnswers
  <2>4. call[s].kind # "save"
    BY <2>3 DEF EditInv, SlotsOK, SlotOK
  <2> HIDE DEF new
  <2> QED BY <1>1, <2>2, <2>3, <2>4 DEF Onward
<1>3. CASE ReadLast(s)
  <2> DEFINE new == [call[s] EXCEPT !.at = "create", !.last = Len(revisions)]
  <2>1. Len(revisions) \in Nat
    BY DEF EditInv, DeedTyped
  <2>2. /\ new \in CallRecords /\ new.by = call[s].by /\ new.kind = call[s].kind
        /\ new.awaited = call[s].awaited /\ new.text = call[s].text /\ new.at = "create"
    BY <1>1, <2>1 DEF CallRecords
  <2>3. call[s].at = "last" /\ call' = [call EXCEPT ![s] = new]
    BY <1>1, <1>3 DEF ReadLast
  <2> HIDE DEF new
  <2> QED BY <1>1, <2>2, <2>3 DEF Onward
<1>4. CASE CreateRevision(s)
  <2> DEFINE new == [call[s] EXCEPT !.at = "write"]
  <2>1. /\ new \in CallRecords /\ new.by = call[s].by /\ new.kind = call[s].kind
        /\ new.awaited = call[s].awaited /\ new.text = call[s].text /\ new.at = "write"
    BY <1>1 DEF CallRecords
  <2>2. call[s].at = "create" /\ call' = [call EXCEPT ![s] = new]
    BY <1>1, <1>4 DEF CreateRevision
  <2> HIDE DEF new
  <2> QED BY <1>1, <2>1, <2>2 DEF Onward
<1> QED BY <1>2, <1>3, <1>4

LEMMA OnwardKeeps ==
  ASSUME EditInv, NEW s \in Slots,
         \/ Read(s) \/ ReadLast(s) \/ CreateRevision(s)
         \/ \E text \in Texts : ClaudeAnswers(s, text)
  PROVE  EditInv'
<1>1. /\ call' \in [Slots -> CallRecords] /\ \A t \in Slots \ {s} : call'[t] = call[t]
      /\ \/ Onward(call[s], call'[s])
         \/ call'[s] = NoDeedCall /\ call[s].by = Nobody
  BY ReadGoes, StatementGoes
<1>2. UNCHANGED <<live, history, lastBy, editor, unheard>>
  BY DEF Read, ReadLast, CreateRevision, ClaudeAnswers, serverSide
<1>3. revisions' \in Seq(Texts) /\ overlapped' \in BOOLEAN
  <2>1. Snapshot(call[s]) \in Texts /\ revisions \in Seq(Texts) /\ overlapped \in BOOLEAN
    BY DEF EditInv, DeedTyped, CallRecords, Snapshot
  <2>2. revisions' = revisions \/ revisions' = Append(revisions, Snapshot(call[s]))
    BY DEF Read, ReadLast, CreateRevision, ClaudeAnswers, serverSide
  <2>3. overlapped' \in BOOLEAN
    BY <2>1 DEF Read, ReadLast, CreateRevision, ClaudeAnswers, serverSide
  <2> QED BY <2>1, <2>2, <2>3
<1>4. DeedTyped'
  BY <1>1, <1>2, <1>3 DEF EditInv, DeedTyped
<1>5. SlotsOK'
  BY <1>1, NoDeedCallFacts DEF EditInv, SlotsOK, SlotOK, Onward
<1>6. ASSUME NEW f \in Editors PROVE PageOK(f)'
  <2>1. f # Nobody
    BY NobodyAssumption
  <2>2. call[s].by = f => call[s].kind = "save"
    BY <2>1 DEF EditInv, SlotsOK, SlotOK
  <2>3. ASSUME NEW t \in Slots
        PROVE  /\ call'[t].by = f <=> call[t].by = f
               /\ call[t].by = f => /\ call'[t].awaited <=> call[t].awaited
                                    /\ call'[t].text = call[t].text
                                    /\ call'[t].at = "answer" <=> call[t].at = "answer"
    BY <1>1, <2>1, <2>2, NoDeedCallFacts DEF Onward
  <2> QED BY <1>2, <2>3, Unaffected DEF EditInv, PagesOK
<1> QED BY <1>4, <1>5, <1>6 DEF EditInv, PagesOK

(* A page another than the caller's.                                       *)
LEMMA OthersSee ==
  ASSUME EditInv, NEW s \in Slots, NEW f \in Editors, call[s].by # f, call'[s].by # f,
         \A t \in Slots \ {s} : call'[t] = call[t], editor'[f] = editor[f],
         lastBy' = f => lastBy = f /\ live' = live, f \notin unheard' => f \notin unheard
  PROVE  PageOK(f)'
<1>1. \A t \in Slots : /\ call'[t].by = f <=> call[t].by = f
                       /\ call[t].by = f => call'[t] = call[t]
  OBVIOUS
<1> QED BY <1>1, Unaffected DEF EditInv, PagesOK

(* A call that is over leaves its slot.                                    *)
LEMMA SlotFreed ==
  ASSUME EditInv, NEW s \in Slots, call' = [call EXCEPT ![s] = NoDeedCall]
  PROVE  /\ call' \in [Slots -> CallRecords] /\ call'[s].by = Nobody
         /\ \A t \in Slots \ {s} : call'[t] = call[t]
         /\ SlotsOK'
<1>1. call \in [Slots -> CallRecords] /\ NoDeedCall \in CallRecords
  BY NoDeedCallFacts DEF EditInv, DeedTyped
<1>2. /\ call' \in [Slots -> CallRecords] /\ call'[s] = NoDeedCall
      /\ \A t \in Slots \ {s} : call'[t] = call[t]
  BY <1>1
<1>3. SlotsOK'
  BY <1>2, NoDeedCallFacts DEF EditInv, SlotsOK, SlotOK
<1> QED BY <1>2, <1>3, NoDeedCallFacts

LEMMA LandedKeeps ==
  ASSUME EditInv, NEW e \in Editors, NEW s \in Slots, Landed(e, s) PROVE EditInv'
<1> DEFINE new == [editor[e] EXCEPT !.saved = call[s].text, !.save = "settling"]
<1>1. editor \in [Editors -> EditorRecords] /\ call[s] \in CallRecords
  BY DEF EditInv, DeedTyped
<1>2. /\ new \in EditorRecords /\ new.page = editor[e].page /\ new.saved = call[s].text
      /\ new.save = "settling"
  BY <1>1 DEF EditorRecords, CallRecords
<1>3. /\ call[s].by = e /\ call[s].awaited /\ call[s].at = "answer"
      /\ editor' = [editor EXCEPT ![e] = new]
      /\ call' = [call EXCEPT ![s] = NoDeedCall]
      /\ UNCHANGED <<live, revisions, history, lastBy, overlapped, unheard>>
  BY <1>1 DEF Landed, serverSide
<1> HIDE DEF new
<1>4. /\ editor' \in [Editors -> EditorRecords] /\ editor'[e] = new
      /\ \A f \in Editors \ {e} : editor'[f] = editor[f]
  BY <1>1, <1>2, <1>3
<1>5. PageOK(e) /\ e # Nobody /\ s \in Waiting(e) /\ s \in Sent(e)
  BY <1>3, NobodyAssumption DEF EditInv, PagesOK, Waiting, Sent
<1>6. Sent(e)' = Sent(e) \ {s} /\ Waiting(e)' = {}
  <2>1. call'[s].by # e /\ \A t \in Slots \ {s} : call'[t] = call[t]
    BY <1>3, <1>5, SlotFreed
  <2>2. Sent(e)' = Sent(e) \ {s} /\ Waiting(e)' = Waiting(e) \ {s}
    BY <2>1 DEF Sent, Waiting
  <2> QED BY <1>5, <2>2 DEF PageOK, Awaits
<1>7. editor[e].page # "closed"
  BY <1>5 DEF PageOK, Awaits, AtRest
<1>8. Awaits(e)' /\ Pending(e)'
  BY <1>2, <1>4, <1>6, <1>7 DEF Awaits, Pending, AtRest
<1>9. ASSUME e \notin unheard PROVE Known(e)' /\ (lastBy' = e => SavedLast(e)')
  <2>1. Known(e) /\ (lastBy = e => SavedLast(e))
    BY <1>5, <1>9 DEF PageOK, Follows
  <2>2. Sent(e)' = {}
    BY <1>5, <1>6, <2>1 DEF Known
  <2>3. Known(e)'
    BY <1>2, <1>4, <1>7, <2>2 DEF Known
  <2>4. lastBy = e => live = call[s].text
    BY <1>3, <1>5, <2>1 DEF SavedLast, Known
  <2>5. lastBy' = e => SavedLast(e)'
    BY <1>2, <1>3, <1>4, <2>2, <2>4 DEF SavedLast, AtRest
  <2> QED BY <2>3, <2>5
<1>10. ASSUME NEW f \in Editors \ {e} PROVE PageOK(f)'
  <2>1. f # Nobody /\ call[s].by # f
    BY <1>3, NobodyAssumption
  <2>2. call'[s].by # f /\ \A t \in Slots \ {s} : call'[t] = call[t]
    BY <1>3, <2>1, SlotFreed
  <2> QED BY <1>3, <1>4, <2>1, <2>2, OthersSee
<1>11. DeedTyped' /\ SlotsOK'
  BY <1>3, <1>4, SlotFreed DEF EditInv, DeedTyped
<1> QED BY <1>3, <1>8, <1>9, <1>10, <1>11 DEF EditInv, PagesOK, PageOK, Follows

(* The row is written; whoever waits is to hear of it.                     *)
LEMMA WriteKeeps ==
  ASSUME EditInv, NEW s \in Slots, Write(s) PROVE EditInv'
<1>1. /\ call \in [Slots -> CallRecords] /\ call[s] \in CallRecords /\ live \in Texts
      /\ history \in Seq(Texts) /\ SlotOK(s)
  BY DEF EditInv, DeedTyped, SlotsOK
<1>2. /\ call[s].at = "write" /\ live' = call[s].text /\ lastBy' = call[s].by
      /\ UNCHANGED <<revisions, overlapped, editor, unheard>>
  BY DEF Write
<1>3. history' \in Seq(Texts) /\ live' \in Texts /\ lastBy' \in Editors \union {Nobody}
  <2>1. live' \in Texts /\ lastBy' \in Editors \union {Nobody}
    BY <1>1, <1>2 DEF CallRecords
  <2>2. history' = history \/ history' = Append(history, live')
    BY DEF Write
  <2> QED BY <1>1, <2>1, <2>2
<1>4. CASE call[s].awaited
  <2> DEFINE new == [call[s] EXCEPT !.at = "answer"]
  <2>1. /\ new \in CallRecords /\ new.by = call[s].by /\ new.kind = call[s].kind
        /\ new.awaited = call[s].awaited /\ new.text = call[s].text /\ new.at = "answer"
    BY <1>1 DEF CallRecords
  <2>2. call' = [call EXCEPT ![s] = new]
    BY <1>1, <1>4 DEF Write
  <2> HIDE DEF new
  <2>3. /\ call' \in [Slots -> CallRecords] /\ call'[s] = new
        /\ \A t \in Slots \ {s} : call'[t] = call[t]
    BY <1>1, <2>1, <2>2
  <2>4. SlotsOK'
    <3>1. SlotOK(s)'
      BY <1>1, <1>4, <2>1, <2>3 DEF SlotOK
    <3>2. \A t \in Slots \ {s} : SlotOK(t)'
      BY <2>3 DEF EditInv, SlotsOK, SlotOK
    <3> QED BY <3>1, <3>2 DEF SlotsOK
  <2>5. \A e \in Editors : Sent(e)' = Sent(e) /\ Waiting(e)' = Waiting(e)
    BY <2>1, <2>3 DEF Sent, Waiting
  <2>6. ASSUME NEW f \in Editors, call[s].by # f PROVE PageOK(f)'
    BY <1>2, <2>1, <2>3, <2>6, OthersSee
  <2>7. ASSUME NEW e \in Editors, call[s].by = e PROVE PageOK(e)'
    <3>1. PageOK(e) /\ s \in Sent(e)
      BY <2>7 DEF EditInv, PagesOK, Sent
    <3>2. Awaits(e)' /\ Pending(e)'
      BY <1>2, <2>5, <3>1 DEF PageOK, Awaits, Pending
    <3>3. ASSUME e \notin unheard PROVE Known(e)'
      <4>1. Known(e)
        BY <3>1, <3>3 DEF PageOK, Follows
      <4>2. \A t \in Sent(e)' : call'[t].awaited
        BY <1>4, <2>1, <2>3, <2>5, <3>1, <4>1 DEF Known
      <4> QED BY <1>2, <2>5, <3>1, <4>1, <4>2 DEF Known
    <3>4. SavedLast(e)'
      BY <1>2, <2>1, <2>3, <2>5, <3>1 DEF SavedLast
    <3> QED BY <1>2, <3>2, <3>3, <3>4 DEF PageOK, Follows
  <2>8. DeedTyped'
    BY <1>2, <1>3, <2>3 DEF EditInv, DeedTyped
  <2> QED BY <2>4, <2>6, <2>7, <2>8 DEF EditInv, PagesOK
<1>5. CASE ~call[s].awaited
  <2>1. call' = [call EXCEPT ![s] = NoDeedCall]
    BY <1>5 DEF Write
  <2>2. SlotsOK' /\ call'[s].by = Nobody /\ \A t \in Slots \ {s} : call'[t] = call[t]
    BY <2>1, SlotFreed
  <2>3. ASSUME NEW f \in Editors, call[s].by # f PROVE PageOK(f)'
    <3>1. f # Nobody
      BY NobodyAssumption
    <3> QED BY <1>2, <2>2, <2>3, <3>1, OthersSee
  <2>4. ASSUME NEW e \in Editors, call[s].by = e PROVE PageOK(e)'
    <3>1. PageOK(e) /\ s \in Sent(e) /\ s \notin Waiting(e)
      BY <1>5, <2>4 DEF EditInv, PagesOK, Sent, Waiting
    <3>2. Sent(e)' = Sent(e) \ {s} /\ Waiting(e)' = Waiting(e)
      BY <2>2, <3>1, NobodyAssumption DEF Sent, Waiting
    <3>3. Awaits(e)' /\ Pending(e)'
      BY <1>2, <3>1, <3>2 DEF PageOK, Awaits, Pending
    <3>4. ASSUME e \notin unheard PROVE Known(e)' /\ SavedLast(e)'
      <4>1. Known(e)
        BY <3>1, <3>4 DEF PageOK, Follows
      <4>2. /\ Sent(e)' = {} /\ editor[e].page = "left" /\ AtRest(editor[e])
            /\ call[s].text = editor[e].draft
        BY <1>5, <3>1, <3>2, <4>1 DEF Known
      <4> QED BY <1>2, <4>2 DEF Known, SavedLast
    <3> QED BY <1>2, <3>3, <3>4 DEF PageOK, Follows
  <2>5. DeedTyped'
    BY <1>2, <1>3, <2>1, SlotFreed DEF EditInv, DeedTyped
  <2> QED BY <2>2, <2>3, <2>4, <2>5 DEF EditInv, PagesOK
<1> QED BY <1>4, <1>5

LEMMA FailureRecorded ==
  ASSUME NEW ed \in EditorRecords
  PROVE  /\ AfterFailure(ed) \in EditorRecords /\ AfterFailure(ed).page = ed.page
         /\ AfterFailure(ed).draft = ed.draft /\ AfterFailure(ed).saved = ed.saved
         /\ AfterFailure(ed).save = "none" /\ AfterFailure(ed).retry
  BY DEF AfterFailure, EditorRecords

(* A call that throws: the page that waits for it tries again, and of one  *)
(* nobody waits for the page does not hear.                                *)
LEMMA ThrowKeeps ==
  ASSUME EditInv, NEW s \in Slots, Throw(s), UNCHANGED serverSide, call[s].at # "answer"
  PROVE  EditInv'
<1>1. /\ editor \in [Editors -> EditorRecords] /\ call[s] \in CallRecords /\ SlotOK(s)
      /\ unheard \subseteq Editors
  BY DEF EditInv, DeedTyped, SlotsOK
<1>2. /\ call' = [call EXCEPT ![s] = NoDeedCall]
      /\ UNCHANGED <<live, revisions, history, lastBy, overlapped>>
      /\ unheard' = IF call[s].kind = "save" /\ ~call[s].awaited
                    THEN unheard \union {call[s].by} ELSE unheard
  BY DEF Throw, serverSide
<1>3. SlotsOK' /\ call'[s].by = Nobody /\ \A t \in Slots \ {s} : call'[t] = call[t]
  BY <1>2, SlotFreed
<1>4. unheard' \subseteq Editors /\ unheard \subseteq unheard'
  BY <1>1, <1>2 DEF SlotOK, CallRecords
<1>5. \A f \in Editors \ {call[s].by} : editor'[f] = editor[f]
  BY <1>1 DEF Throw
<1>6. ASSUME NEW f \in Editors, call[s].by # f PROVE PageOK(f)'
  <2>1. f # Nobody
    BY NobodyAssumption
  <2> QED BY <1>2, <1>3, <1>4, <1>5, <1>6, <2>1, OthersSee
<1>7. CASE call[s].awaited
  <2>1. PICK e \in Editors : call[s].by = e
    BY <1>1, <1>7 DEF SlotOK, CallRecords
  <2>2. editor' = [editor EXCEPT ![e] = AfterFailure(editor[e])] /\ unheard' = unheard
    BY <1>7, <2>1 DEF Throw
  <2>3. editor[e] \in EditorRecords
    BY <1>1
  <2>4. editor' \in [Editors -> EditorRecords] /\ editor'[e] = AfterFailure(editor[e])
    BY <1>1, <2>2, <2>3, FailureRecorded
  <2>5. PageOK(e) /\ s \in Waiting(e) /\ s \in Sent(e)
    BY <1>7, <2>1 DEF EditInv, PagesOK, Waiting, Sent
  <2>6. Sent(e)' = Sent(e) \ {s} /\ Waiting(e)' = {} /\ editor[e].page # "closed"
    <3>1. Sent(e)' = Sent(e) \ {s} /\ Waiting(e)' = Waiting(e) \ {s}
      BY <1>3, <2>1, NobodyAssumption DEF Sent, Waiting
    <3> QED BY <2>5, <3>1 DEF PageOK, Awaits, AtRest
  <2>7. /\ editor'[e].page = editor[e].page /\ editor'[e].saved = editor[e].saved
        /\ editor'[e].save = "none" /\ editor'[e].retry
    BY <2>3, <2>4, FailureRecorded
  <2>8. Awaits(e)' /\ Pending(e)'
    BY <2>6, <2>7 DEF Awaits, Pending, AtRest
  <2>9. ASSUME e \notin unheard PROVE Known(e)' /\ (lastBy' = e => SavedLast(e)')
    <3>1. Known(e) /\ (lastBy = e => SavedLast(e))
      BY <2>5, <2>9 DEF PageOK, Follows
    <3>2. Sent(e)' = {}
      BY <2>5, <2>6, <3>1 DEF Known
    <3>3. lastBy = e => live = editor[e].saved
      BY <2>5, <3>1 DEF SavedLast, Known
    <3> QED BY <1>2, <2>6, <2>7, <3>2, <3>3 DEF Known, SavedLast, AtRest
  <2>10. PageOK(e)'
    BY <2>2, <2>8, <2>9 DEF PageOK, Follows
  <2>11. DeedTyped'
    BY <1>2, <1>4, <2>4, SlotFreed DEF EditInv, DeedTyped
  <2> QED BY <1>3, <1>6, <2>1, <2>10, <2>11 DEF EditInv, PagesOK
<1>8. CASE ~call[s].awaited
  <2>1. editor' = editor
    BY <1>8 DEF Throw
  <2>2. ASSUME NEW e \in Editors, call[s].by = e PROVE PageOK(e)'
    <3>1. e # Nobody /\ PageOK(e) /\ s \notin Waiting(e)
      BY <1>8, NobodyAssumption DEF EditInv, PagesOK, Waiting
    <3>2. e \in unheard'
      BY <1>1, <1>2, <1>8, <2>2, <3>1 DEF SlotOK
    <3>3. Waiting(e)' = Waiting(e)
      BY <1>3, <3>1 DEF Waiting
    <3> QED BY <2>1, <3>1, <3>2, <3>3 DEF PageOK, Awaits, Pending, Follows
  <2>3. DeedTyped'
    BY <1>1, <1>2, <1>4, <2>1, SlotFreed DEF EditInv, DeedTyped
  <2> QED BY <1>3, <1>6, <2>2, <2>3 DEF EditInv, PagesOK
<1> QED BY <1>7, <1>8

(* A page that gives up on a save tries again, and does not hear of it.    *)
LEMMA GiveUpKeeps ==
  ASSUME EditInv, NEW s \in Slots, GiveUp(s) PROVE EditInv'
<1>1. /\ editor \in [Editors -> EditorRecords] /\ call \in [Slots -> CallRecords]
      /\ call[s] \in CallRecords /\ SlotOK(s) /\ unheard \subseteq Editors
  BY DEF EditInv, DeedTyped, SlotsOK
<1>2. call[s].awaited /\ UNCHANGED <<live, revisions, history, lastBy, overlapped>>
  BY DEF GiveUp, serverSide
<1>3. PICK e \in Editors : call[s].by = e
  BY <1>1, <1>2 DEF SlotOK, CallRecords
<1>4. /\ editor' = [editor EXCEPT ![e] = AfterFailure(editor[e])]
      /\ unheard' = unheard \union {e}
      /\ call' = [call EXCEPT ![s] = IF @.at = "answer" THEN NoDeedCall
                                     ELSE [@ EXCEPT !.awaited = FALSE]]
  BY <1>3 DEF GiveUp
<1>5. editor[e] \in EditorRecords
  BY <1>1
<1>6. /\ editor' \in [Editors -> EditorRecords] /\ editor'[e] = AfterFailure(editor[e])
      /\ \A f \in Editors \ {e} : editor'[f] = editor[f]
  BY <1>1, <1>4, <1>5, FailureRecorded
<1>7. /\ call' \in [Slots -> CallRecords] /\ \A t \in Slots \ {s} : call'[t] = call[t]
      /\ SlotsOK' /\ ~call'[s].awaited
      /\ \A f \in Editors \ {e} : call'[s].by # f
  <2>1. CASE call[s].at = "answer"
    <3>1. call' = [call EXCEPT ![s] = NoDeedCall]
      BY <1>4, <2>1
    <3>2. ~call'[s].awaited
      BY <1>1, <3>1, NoDeedCallFacts
    <3> QED BY <3>1, <3>2, NobodyAssumption, SlotFreed
  <2>2. CASE call[s].at # "answer"
    <3> DEFINE new == [call[s] EXCEPT !.awaited = FALSE]
    <3>1. /\ new \in CallRecords /\ new.by = call[s].by /\ new.kind = call[s].kind
          /\ ~new.awaited /\ new.at = call[s].at
      BY <1>1 DEF CallRecords
    <3>2. call' = [call EXCEPT ![s] = new]
      BY <1>4, <2>2
    <3> HIDE DEF new
    <3>3. /\ call' \in [Slots -> CallRecords] /\ call'[s] = new
          /\ \A t \in Slots \ {s} : call'[t] = call[t]
      BY <1>1, <3>1, <3>2
    <3>4. call[s].at # "idle"
      BY <1>1, <1>2, NoDeedCallFacts DEF SlotOK
    <3>5. SlotsOK'
      BY <1>2, <2>2, <3>1, <3>3, <3>4 DEF EditInv, SlotsOK, SlotOK
    <3> QED BY <1>3, <3>1, <3>3, <3>5
  <2> QED BY <2>1, <2>2
<1>8. ASSUME NEW f \in Editors \ {e} PROVE PageOK(f)'
  <2>1. call[s].by # f
    BY <1>3
  <2> QED BY <1>2, <1>4, <1>6, <1>7, <2>1, OthersSee
<1>9. PageOK(e) /\ s \in Waiting(e)
  BY <1>2, <1>3 DEF EditInv, PagesOK, Waiting
<1>10. Waiting(e)' = Waiting(e) \ {s}
  BY <1>7 DEF Waiting
<1>11. Waiting(e)' = {} /\ editor[e].page # "closed"
  BY <1>9, <1>10 DEF PageOK, Awaits, AtRest
<1>12. PageOK(e)'
  BY <1>4, <1>5, <1>6, <1>11, FailureRecorded DEF PageOK, Awaits, Pending, AtRest, Follows
<1>13. DeedTyped'
  BY <1>1, <1>2, <1>4, <1>6, <1>7 DEF EditInv, DeedTyped
<1> QED BY <1>7, <1>8, <1>12, <1>13 DEF EditInv, PagesOK

LEMMA EditingStarts == DeedInit => EditInv
<1> SUFFICES ASSUME DeedInit PROVE EditInv
  OBVIOUS
<1>1. NoDeedCall \in CallRecords /\ NoEditor \in EditorRecords
  BY NoDeedCallFacts DEF DeedInit
<1>2. DeedTyped
  <2>1. editor \in [Editors -> EditorRecords] /\ call \in [Slots -> CallRecords]
    BY <1>1 DEF DeedInit
  <2>2. live \in Texts /\ <<live>> \in Seq(Texts) /\ <<>> \in Seq(Texts)
    BY DEF DeedInit
  <2> QED BY <2>1, <2>2 DEF DeedInit, DeedTyped
<1>3. SlotsOK
  BY NoDeedCallFacts DEF DeedInit, SlotsOK, SlotOK
<1>4. ASSUME NEW e \in Editors PROVE PageOK(e)
  <2>1. Sent(e) = {} /\ Waiting(e) = {} /\ e # Nobody
    BY NobodyAssumption, NoDeedCallFacts DEF DeedInit, Sent, Waiting
  <2>2. editor[e].page = "closed" /\ AtRest(editor[e]) /\ lastBy = Nobody
    BY DEF DeedInit, NoEditor, AtRest
  <2> QED BY <2>1, <2>2 DEF PageOK, Awaits, Follows, Known, Pending, AtRest
<1> QED BY <1>2, <1>3, <1>4 DEF EditInv, PagesOK

LEMMA EditingKept == EditInv /\ [DeedNext]_deedVars => EditInv'
<1> SUFFICES ASSUME EditInv, [DeedNext]_deedVars PROVE EditInv'
  OBVIOUS
<1>1. CASE UNCHANGED deedVars
  <2>1. UNCHANGED <<live, revisions, editor, call, history, lastBy, overlapped, unheard>>
    BY <1>1 DEF deedVars
  <2>2. DeedTyped' /\ SlotsOK'
    BY <2>1 DEF EditInv, DeedTyped, SlotsOK, SlotOK
  <2>3. ASSUME NEW f \in Editors PROVE PageOK(f)'
    BY <2>1, Unaffected DEF EditInv, PagesOK
  <2> QED BY <2>2, <2>3 DEF EditInv, PagesOK
<1>2. CASE DeedNext
  <2>1. ASSUME NEW s \in Slots, NumberTaken(s) PROVE EditInv'
    BY <2>1, ThrowKeeps DEF NumberTaken
  <2>2. ASSUME NEW s \in Slots, Fails(s) PROVE EditInv'
    BY <2>2, ThrowKeeps DEF Fails, AboutToWrite
  <2> QED BY <1>2, <2>1, <2>2, OpenKeeps, EditKeeps, TimersKeep, LeaveKeeps, LandedKeeps,
        AskKeeps, OnwardKeeps, WriteKeeps, GiveUpKeeps DEF DeedNext
<1> QED BY <1>1, <1>2

LEMMA EditingAlways == DeedSpec => []EditInv
  BY EditingStarts, EditingKept, PTL DEF DeedSpec

(* Every row, page and call is one the code can be in; a page that waits   *)
(* for a save waits for one call, and no other call thinks it does         *)
(* (useAutoSaveDeed's inFlightRef says what is in flight).                 *)
THEOREM DeedTypesCorrect == DeedSpec => []DeedTypeOK
<1>1. ASSUME EditInv PROVE DeedTypeOK
  <2>1. ASSUME NEW e \in Editors
        PROVE  Cardinality(Waiting(e)) = IF editor[e].save = "sent" THEN 1 ELSE 0
    <3>1. Awaits(e)
      BY <1>1 DEF EditInv, PagesOK, PageOK
    <3>2. CASE editor[e].save = "sent"
      <4>1. PICK s \in Slots : Waiting(e) = {s}
        BY <3>1, <3>2 DEF Awaits, Waiting
      <4>2. Cardinality({s}) = 1
        BY FS_Singleton
      <4> QED BY <3>2, <4>1, <4>2
    <3>3. CASE editor[e].save # "sent"
      BY <3>1, <3>3, FS_EmptySet DEF Awaits
    <3> QED BY <3>2, <3>3
  <2> QED BY <1>1, <2>1 DEF EditInv, DeedTyped, DeedTypeOK, EditorRecords, CallRecords, Waiting
<1>2. EditInv => DeedTypeOK
  BY <1>1
<1> QED BY <1>2, EditingAlways, PTL

(* No edit is lost while somebody can still save it: a page that shows     *)
(* what is not saved has a save running or a timer set (DebounceFires,     *)
(* RetryFires, RunAgain), and a page's saves over and heard of, the row it *)
(* wrote last holds what it shows (run's one save at a time).              *)
THEOREM EditsStay == DeedSpec => []EditsKept
<1>1. ASSUME EditInv PROVE EditsKept
  <2>1. DirtyIsPending
    BY <1>1 DEF EditInv, PagesOK, PageOK, Pending, AtRest, DirtyIsPending
  <2>2. ASSUME NEW e \in Editors, Quiet(e), lastBy = e, e \notin unheard
        PROVE  live = editor[e].draft
    <3>1. Known(e) /\ SavedLast(e)
      BY <1>1, <2>2 DEF EditInv, PagesOK, PageOK, Follows
    <3>2. AtRest(editor[e]) /\ Sent(e) = {} /\ editor[e].page # "closed"
      BY <2>2, <3>1 DEF Quiet, AtRest, Sent, Known
    <3> QED BY <3>1, <3>2 DEF SavedLast, Dirty
  <2> QED BY <2>1, <2>2 DEF LastEditStands, EditsKept
<1>2. EditInv => EditsKept
  BY <1>1
<1> QED BY <1>2, EditingAlways, PTL

-----------------------------------------------------------------------------
(* The history of a deed: Steps, a recursive function, for lists of any    *)
(* length, by induction in a form that needs no operator.                  *)
LEMMA SetInduction ==
  ASSUME NEW T, 0 \in T, \A n \in T : n + 1 \in T
  PROVE  Nat \subseteq T
<1> DEFINE Rest == Nat \ T
<1> SUFFICES ASSUME Rest # {} PROVE FALSE
  OBVIOUS
<1> DEFINE Less == OpToRel(<, Nat)
<1>1. \A m, n \in Nat : m < n => <<m, n>> \in Less
  BY DEF OpToRel
<1>2. IsWellFoundedOn(Less, Nat)
  BY NatLessThanWellFounded
<1> HIDE DEF Less
<1>3. PICK n \in Rest : \A m \in Rest : ~ (<<m, n>> \in Less)
  BY <1>2, WFMin
<1>4. \A m \in Nat : m < n => m \in T
  BY <1>1, <1>3
<1>5. n # 0 /\ n - 1 \in Nat /\ n - 1 < n /\ (n - 1) + 1 = n
  BY <1>3
<1> QED BY <1>3, <1>4, <1>5

(* upTo of Steps, for the first n entries of a list.                       *)
Entry(f, l, i) ==
  IF i = 0 THEN <<>>
  ELSE IF i > 1 /\ l[i] = l[i - 1] THEN f[i - 1]
  ELSE Append(f[i - 1], l[i])
Walk(f, l, n) == f = [i \in 0..n |-> Entry(f, l, i)]

LEMMA WalkExists == ASSUME NEW l PROVE \A n \in Nat : \E f : Walk(f, l, n)
<1> DEFINE T == {n \in Nat : \E f : Walk(f, l, n)}
<1>1. 0 \in T
  <2> DEFINE f == [i \in 0..0 |-> <<>>]
  <2>1. Walk(f, l, 0)
    BY DEF Walk, Entry
  <2> QED BY <2>1
<1>2. ASSUME NEW n \in T PROVE n + 1 \in T
  <2>1. PICK f : Walk(f, l, n)
    OBVIOUS
  <2> DEFINE g == [i \in 0..(n + 1) |-> IF i = n + 1 THEN Entry(f, l, n + 1) ELSE f[i]]
  <2>2. \A i \in 0..n : g[i] = f[i] /\ f[i] = Entry(f, l, i)
    <3>1. \A i \in 0..n : f[i] = Entry(f, l, i)
      <4> HIDE DEF g
      <4> QED BY <2>1 DEF Walk
    <3>2. \A i \in 0..n : i \in 0..(n + 1) /\ i # n + 1
      OBVIOUS
    <3>3. \A i \in 0..n : g[i] = f[i]
      BY <3>2
    <3> QED BY <3>1, <3>3
  <2>3. \A i \in 0..(n + 1) : Entry(g, l, i) = Entry(f, l, i)
    BY <2>2 DEF Entry
  <2>4. \A i \in 0..(n + 1) : g[i] = Entry(g, l, i)
    BY <2>2, <2>3
  <2>5. Walk(g, l, n + 1)
    <3>1. g = [i \in 0..(n + 1) |-> g[i]]
      OBVIOUS
    <3> HIDE DEF g
    <3> QED BY <2>4, <3>1 DEF Walk
  <2> QED BY <2>5
<1> HIDE DEF T
<1>3. Nat \subseteq T
  BY <1>1, <1>2, SetInduction
<1> QED BY <1>3 DEF T

LEMMA WalkUnique ==
  ASSUME NEW f, NEW g, NEW l, NEW n \in Nat, Walk(f, l, n), Walk(g, l, n)
  PROVE  f = g
<1> DEFINE T == {i \in Nat : i <= n => f[i] = g[i]}
<1>1. \A i \in 0..n : f[i] = Entry(f, l, i) /\ g[i] = Entry(g, l, i)
  BY DEF Walk
<1>2. 0 \in T
  BY <1>1 DEF Entry
<1>3. ASSUME NEW i \in T PROVE i + 1 \in T
  BY <1>1 DEF Entry
<1> HIDE DEF T
<1>4. Nat \subseteq T
  BY <1>2, <1>3, SetInduction
<1>5. \A i \in 0..n : f[i] = g[i]
  BY <1>4 DEF T
<1> QED BY <1>5 DEF Walk

LEMMA StepsWalk ==
  ASSUME NEW S, NEW l \in Seq(S)
  PROVE  \E f : Walk(f, l, Len(l)) /\ Steps(l) = f[Len(l)]
<1> DEFINE f == CHOOSE g : Walk(g, l, Len(l))
<1>1. Steps(l) = f[Len(l)]
  BY DEF Steps, Walk, Entry
<1>2. Walk(f, l, Len(l))
  BY WalkExists
<1> QED BY <1>1, <1>2

(* What one more entry adds.                                               *)
LEMMA StepsAppend ==
  ASSUME NEW S, NEW l \in Seq(S), NEW x \in S
  PROVE  Steps(Append(l, x)) =
           IF Len(l) > 0 /\ l[Len(l)] = x THEN Steps(l) ELSE Append(Steps(l), x)
<1> DEFINE m == Append(l, x)
           n == Len(l)
<1>1. m \in Seq(S) /\ Len(m) = n + 1 /\ n \in Nat /\ m[n + 1] = x /\ \A i \in 1..n : m[i] = l[i]
  OBVIOUS
<1> HIDE DEF m
<1>2. PICK f : Walk(f, l, n) /\ Steps(l) = f[n]
  BY StepsWalk
<1>3. PICK g : Walk(g, m, n + 1) /\ Steps(m) = g[n + 1]
  BY <1>1, StepsWalk
<1> HIDE DEF n
<1> DEFINE h == [i \in 0..n |-> g[i]]
<1>4. \A i \in 0..(n + 1) : g[i] = Entry(g, m, i)
  BY <1>3 DEF Walk
<1>5. \A i \in 0..n : Entry(g, m, i) = Entry(h, l, i)
  BY <1>1 DEF Entry
<1>6. Walk(h, l, n)
  BY <1>1, <1>4, <1>5 DEF Walk
<1>7. f = h
  BY <1>1, <1>2, <1>6, WalkUnique
<1>8. g[n] = Steps(l)
  BY <1>1, <1>2, <1>7
<1>9. Steps(m) = IF n + 1 > 1 /\ m[n + 1] = m[n] THEN g[n] ELSE Append(g[n], x)
  BY <1>1, <1>3, <1>4 DEF Entry
<1>10. Steps(m) = IF n > 0 /\ l[n] = x THEN Steps(l) ELSE Append(Steps(l), x)
  BY <1>1, <1>8, <1>9
<1> QED BY <1>10 DEF m, n

LEMMA StepsEmpty == Steps(<<>>) = <<>>
<1>1. PICK f : Walk(f, <<>>, Len(<<>>)) /\ Steps(<<>>) = f[Len(<<>>)]
  <2>1. <<>> \in Seq({})
    OBVIOUS
  <2> QED BY <2>1, StepsWalk
<1>2. Len(<<>>) = 0
  OBVIOUS
<1> QED BY <1>1, <1>2 DEF Walk, Entry

LEMMA StepsOne ==
  ASSUME NEW S, NEW x \in S, NEW l \in Seq(S), l = <<>>
  PROVE  Steps(Append(l, x)) = Append(l, x)
<1>1. Len(l) = 0 /\ Steps(l) = l
  BY StepsEmpty
<1>2. Steps(Append(l, x)) =
        IF Len(l) > 0 /\ l[Len(l)] = x THEN Steps(l) ELSE Append(Steps(l), x)
  BY StepsAppend
<1>3. ~ (Len(l) > 0 /\ l[Len(l)] = x)
  BY <1>1
<1>4. Steps(Append(l, x)) = Append(Steps(l), x)
  BY <1>2, <1>3, Zenon
<1> QED BY <1>1, <1>4

-----------------------------------------------------------------------------
(* As long as no call reads the row while another is about to write it,    *)
(* one call at most is about to write; it has read what the row holds, and *)
(* before it overwrites that it has kept it.                               *)
LastKept == Len(revisions) > 0 /\ revisions[Len(revisions)] = live
OneWriter == \A s, t \in Slots : AboutToWrite(call[s]) /\ AboutToWrite(call[t]) => s = t
KeepsWhatItRead ==
  \A s \in Slots : AboutToWrite(call[s]) =>
    /\ call[s].seen = live
    /\ call[s].at = "write" => call[s].text = live \/ LastKept
HistoryInv == ~overlapped => OneWriter /\ KeepsWhatItRead /\ HistoryKept

(* A call that a statement on another row takes on, or ends.               *)
GoesOn(c, d) ==
  AboutToWrite(d) =>
    AboutToWrite(c) /\ d.seen = c.seen /\ (d.at = "write" => c.at = "write" /\ d.text = c.text)

LEMMA RowUntouched ==
  ASSUME HistoryInv, UNCHANGED serverSide, \A t \in Slots : GoesOn(call[t], call'[t])
  PROVE  HistoryInv'
<1>1. UNCHANGED <<live, revisions, history, overlapped>>
  BY DEF serverSide
<1>2. HistoryKept <=> HistoryKept'
  BY <1>1 DEF HistoryKept
<1>3. \A t \in Slots : /\ AboutToWrite(call[t])' => AboutToWrite(call[t])
                       /\ AboutToWrite(call[t])' => GoesOn(call[t], call'[t])
  BY DEF GoesOn, AboutToWrite
<1>4. ~overlapped' => OneWriter'
  BY <1>1, <1>3 DEF HistoryInv, OneWriter
<1>5. ~overlapped' => KeepsWhatItRead'
  BY <1>1 DEF HistoryInv, KeepsWhatItRead, GoesOn, AboutToWrite, LastKept
<1> QED BY <1>1, <1>2, <1>4, <1>5 DEF HistoryInv

LEMMA SendGoesOn ==
  ASSUME EditInv, NEW s \in Slots, NEW kind, NEW e, NEW awaited, NEW text,
         Send(s, kind, e, awaited, text)
  PROVE  \A t \in Slots : GoesOn(call[t], call'[t])
<1>1. Texts # {}
  BY DEF EditInv, DeedTyped
<1>2. call'[s].at = "read" /\ \A t \in Slots \ {s} : call'[t] = call[t]
  BY <1>1, NoDeedCallFacts DEF EditInv, DeedTyped, Send, CallRecords
<1> QED BY <1>2 DEF GoesOn, AboutToWrite

LEMMA PagesGoOn ==
  ASSUME EditInv, NEW e \in Editors,
         \/ OpenPage(e) \/ DebounceFires(e) \/ RetryFires(e) \/ SaveNow(e) \/ Settled(e)
         \/ LeavePage(e) \/ \E text \in Texts : Edit(e, text)
  PROVE  UNCHANGED serverSide /\ \A t \in Slots : GoesOn(call[t], call'[t])
<1>1. UNCHANGED serverSide
  BY DEF OpenPage, DebounceFires, RetryFires, SaveNow, Settled, LeavePage, Edit
<1>2. ASSUME UNCHANGED call PROVE \A t \in Slots : GoesOn(call[t], call'[t])
  BY <1>2 DEF GoesOn
<1>3. ASSUME NEW ed, Run(e, ed) PROVE \A t \in Slots : GoesOn(call[t], call'[t])
  BY <1>2, <1>3, SendGoesOn DEF Run
<1>4. CASE DebounceFires(e) \/ RetryFires(e) \/ SaveNow(e) \/ Settled(e)
  BY <1>1, <1>3, <1>4 DEF DebounceFires, RetryFires, SaveNow, Settled, RunAgain
<1>5. CASE LeavePage(e)
  BY <1>1, <1>2, <1>5, SendGoesOn DEF LeavePage
<1>6. CASE OpenPage(e) \/ \E text \in Texts : Edit(e, text)
  BY <1>1, <1>2, <1>6 DEF OpenPage, Edit
<1> QED BY <1>4, <1>5, <1>6

(* The calls that end, and those that do not touch row or revisions.       *)
LEMMA CallsGoOn ==
  ASSUME EditInv, NEW s \in Slots,
         \/ \E kind \in {"aiDraft", "partyFields"} : Ask(s, kind)
         \/ \E e \in Editors : Landed(e, s)
         \/ \E text \in Texts : ClaudeAnswers(s, text)
         \/ ReadLast(s) \/ NumberTaken(s) \/ Fails(s) \/ GiveUp(s)
  PROVE  UNCHANGED serverSide /\ \A t \in Slots : GoesOn(call[t], call'[t])
<1>1. call \in [Slots -> CallRecords] /\ call[s] \in CallRecords
  BY DEF EditInv, DeedTyped
<1>2. UNCHANGED serverSide
  BY DEF Ask, Landed, ClaudeAnswers, ReadLast, NumberTaken, Fails, GiveUp
<1>3. ASSUME NEW d, call' = [call EXCEPT ![s] = d], GoesOn(call[s], d)
      PROVE  \A t \in Slots : GoesOn(call[t], call'[t])
  BY <1>1, <1>3 DEF GoesOn
<1>4. GoesOn(call[s], NoDeedCall)
  BY NoDeedCallFacts DEF GoesOn, AboutToWrite
<1>5. CASE \E kind \in {"aiDraft", "partyFields"} : Ask(s, kind)
  BY <1>2, <1>5, SendGoesOn DEF Ask
<1>6. CASE \/ \E e \in Editors : Landed(e, s)
           \/ NumberTaken(s) \/ Fails(s)
  BY <1>2, <1>3, <1>4, <1>6 DEF Landed, NumberTaken, Fails, Throw
<1>7. CASE \E text \in Texts : ClaudeAnswers(s, text)
  <2>1. PICK text \in Texts : ClaudeAnswers(s, text)
    BY <1>7
  <2> DEFINE d == [call[s] EXCEPT !.at = "last", !.text = text]
  <2>2. call' = [call EXCEPT ![s] = d] /\ call[s].at = "claude"
    BY <1>1, <2>1 DEF ClaudeAnswers
  <2>3. GoesOn(call[s], d)
    BY <1>1, <2>2 DEF GoesOn, AboutToWrite, CallRecords
  <2> QED BY <1>2, <1>3, <2>2, <2>3
<1>8. CASE ReadLast(s)
  <2> DEFINE d == [call[s] EXCEPT !.at = "create", !.last = Len(revisions)]
  <2>1. call' = [call EXCEPT ![s] = d] /\ call[s].at = "last"
    BY <1>1, <1>8 DEF ReadLast
  <2>2. GoesOn(call[s], d)
    BY <1>1, <2>1 DEF GoesOn, AboutToWrite, CallRecords
  <2> QED BY <1>2, <1>3, <2>1, <2>2
<1>9. CASE GiveUp(s)
  <2> DEFINE d == [call[s] EXCEPT !.awaited = FALSE]
  <2>1. call' = [call EXCEPT ![s] = NoDeedCall] \/ call' = [call EXCEPT ![s] = d]
    BY <1>1, <1>9 DEF GiveUp
  <2>2. GoesOn(call[s], d)
    BY <1>1 DEF GoesOn, AboutToWrite, CallRecords
  <2> QED BY <1>2, <1>3, <1>4, <2>1, <2>2
<1> QED BY <1>5, <1>6, <1>7, <1>8, <1>9

LEMMA ReadKeepsHistory ==
  ASSUME EditInv, HistoryInv, NEW s \in Slots, Read(s) PROVE HistoryInv'
<1> SUFFICES ASSUME ~overlapped' PROVE OneWriter' /\ KeepsWhatItRead' /\ HistoryKept'
  BY DEF HistoryInv
<1>1. /\ call \in [Slots -> CallRecords] /\ call[s] \in CallRecords /\ live \in Texts
      /\ call[s].at = "read" /\ call' = [call EXCEPT ![s] = AfterRead(call[s])]
      /\ UNCHANGED <<live, revisions, history>>
      /\ ~overlapped /\ \A t \in Slots \ {s} : ~AboutToWrite(call[t])
  BY DEF EditInv, DeedTyped, Read
<1>2. \A t \in Slots \ {s} : call'[t] = call[t] /\ ~AboutToWrite(call'[t])
  BY <1>1
<1>3. OneWriter'
  BY <1>2 DEF OneWriter, AboutToWrite
<1>4. AboutToWrite(AfterRead(call[s])) =>
        /\ AfterRead(call[s]).seen = live
        /\ AfterRead(call[s]).at = "write" => AfterRead(call[s]).text = live
  <2>1. /\ Filled(live) \in Texts
        /\ NoDeedCall.at = "idle"
    BY <1>1, NoDeedCallFacts DEF Filled, Texts
  <2> QED BY <1>1, <2>1 DEF AfterRead, AboutToWrite, CallRecords
<1>5. KeepsWhatItRead'
  BY <1>1, <1>2, <1>4 DEF KeepsWhatItRead, AboutToWrite
<1>6. HistoryKept'
  BY <1>1 DEF HistoryInv, HistoryKept
<1> QED BY <1>3, <1>5, <1>6

LEMMA RevisionKeepsHistory ==
  ASSUME EditInv, HistoryInv, NEW s \in Slots, CreateRevision(s) PROVE HistoryInv'
<1> SUFFICES ASSUME ~overlapped' PROVE OneWriter' /\ KeepsWhatItRead' /\ HistoryKept'
  BY DEF HistoryInv
<1>1. /\ call \in [Slots -> CallRecords] /\ call[s] \in CallRecords
      /\ live \in Texts /\ revisions \in Seq(Texts)
  BY DEF EditInv, DeedTyped
<1>2. /\ ~overlapped /\ UNCHANGED <<live, history>> /\ call[s].at = "create"
      /\ revisions' = Append(revisions, call[s].seen)
      /\ call' = [call EXCEPT ![s] = [call[s] EXCEPT !.at = "write"]]
  BY <1>1 DEF CreateRevision, Snapshot
<1>3. OneWriter /\ KeepsWhatItRead /\ HistoryKept
  BY <1>2 DEF HistoryInv
<1>4. call[s].seen = live /\ \A t \in Slots \ {s} : ~AboutToWrite(call[t])
  BY <1>2, <1>3 DEF OneWriter, KeepsWhatItRead, AboutToWrite
<1>5. \A t \in Slots \ {s} : call'[t] = call[t] /\ ~AboutToWrite(call'[t])
  BY <1>1, <1>2, <1>4
<1>6. LastKept'
  BY <1>1, <1>2, <1>4 DEF LastKept
<1>7. call'[s].seen = live
  BY <1>1, <1>2, <1>4 DEF CallRecords
<1>8. OneWriter' /\ KeepsWhatItRead'
  BY <1>2, <1>5, <1>6, <1>7 DEF OneWriter, KeepsWhatItRead, AboutToWrite
<1>9. HistoryKept'
  <2> DEFINE l == Append(revisions, live)
  <2>1. l \in Seq(Texts) /\ Len(l) > 0 /\ l[Len(l)] = live
    BY <1>1
  <2>2. Steps(Append(l, live)) = Steps(l)
    <3> HIDE DEF l
    <3> QED BY <1>1, <2>1, StepsAppend
  <2> QED BY <1>2, <1>3, <1>4, <2>2 DEF HistoryKept
<1> QED BY <1>8, <1>9

LEMMA WriteKeepsHistory ==
  ASSUME EditInv, HistoryInv, NEW s \in Slots, Write(s) PROVE HistoryInv'
<1> SUFFICES ASSUME ~overlapped' PROVE OneWriter' /\ KeepsWhatItRead' /\ HistoryKept'
  BY DEF HistoryInv
<1>1. /\ call \in [Slots -> CallRecords] /\ call[s] \in CallRecords
      /\ live \in Texts /\ revisions \in Seq(Texts)
  BY DEF EditInv, DeedTyped
<1>2. /\ ~overlapped /\ call[s].at = "write" /\ live' = call[s].text /\ UNCHANGED revisions
      /\ history' = IF live' = live THEN history ELSE Append(history, live')
  BY DEF Write
<1>3. OneWriter /\ KeepsWhatItRead /\ HistoryKept
  BY <1>2 DEF HistoryInv
<1>4. \A t \in Slots \ {s} : ~AboutToWrite(call[t])
  BY <1>2, <1>3 DEF OneWriter, AboutToWrite
<1>5. \A t \in Slots : ~AboutToWrite(call'[t])
  <2>1. \A t \in Slots \ {s} : call'[t] = call[t]
    BY <1>1 DEF Write
  <2>2. call'[s].at \in {"answer", "idle"}
    BY <1>1, NoDeedCallFacts DEF Write, CallRecords
  <2> QED BY <1>4, <2>1, <2>2 DEF AboutToWrite
<1>6. OneWriter' /\ KeepsWhatItRead'
  BY <1>5 DEF OneWriter, KeepsWhatItRead, AboutToWrite
<1>7. CASE live' = live
  BY <1>2, <1>3, <1>6, <1>7 DEF HistoryKept
<1>8. CASE live' # live
  <2>1. LastKept
    BY <1>2, <1>3, <1>8 DEF KeepsWhatItRead, AboutToWrite
  <2>2. live' \in Texts
    BY <1>1, <1>2 DEF CallRecords
  <2>3. Steps(Append(revisions, live)) = Steps(revisions)
    BY <1>1, <2>1, StepsAppend DEF LastKept
  <2>4. Steps(Append(revisions, live')) = Append(Steps(revisions), live')
    BY <1>1, <1>8, <2>1, <2>2, StepsAppend DEF LastKept
  <2> QED BY <1>2, <1>3, <1>6, <1>8, <2>3, <2>4 DEF HistoryKept
<1> QED BY <1>6, <1>7, <1>8

LEMMA HistoryStarts == DeedInit => HistoryInv
<1> SUFFICES ASSUME DeedInit PROVE OneWriter /\ KeepsWhatItRead /\ HistoryKept
  BY DEF HistoryInv
<1>1. \A s \in Slots : ~AboutToWrite(call[s])
  BY NoDeedCallFacts DEF DeedInit, AboutToWrite
<1>2. Steps(Append(<<>>, live)) = Append(<<>>, live)
  <2>1. live \in Texts /\ <<>> \in Seq(Texts)
    BY DEF DeedInit
  <2> QED BY <2>1, StepsOne
<1> QED BY <1>1, <1>2 DEF DeedInit, OneWriter, KeepsWhatItRead, HistoryKept

LEMMA HistoryInvKept == EditInv /\ HistoryInv /\ [DeedNext]_deedVars => HistoryInv'
<1> SUFFICES ASSUME EditInv, HistoryInv, [DeedNext]_deedVars PROVE HistoryInv'
  OBVIOUS
<1>1. CASE UNCHANGED deedVars
  <2>1. UNCHANGED <<live, revisions, call, history, overlapped>>
    BY <1>1 DEF deedVars
  <2>2. HistoryKept' <=> HistoryKept
    BY <2>1 DEF HistoryKept
  <2> QED BY <2>1, <2>2 DEF HistoryInv, OneWriter, KeepsWhatItRead, AboutToWrite, LastKept
<1>2. CASE DeedNext
  BY <1>2, PagesGoOn, CallsGoOn, RowUntouched, ReadKeepsHistory, RevisionKeepsHistory,
    WriteKeepsHistory DEF DeedNext
<1> QED BY <1>1, <1>2

(* The history the staff sees, the revisions and the live body, is every   *)
(* body the deed ever had, in order, as long as no call reads the row      *)
(* while another is about to write it (update, snapshotRevision), whatever *)
(* fails, for any pages, calls and texts and a history of any length.      *)
THEOREM HistoryStays == DeedSpec => []HistoryKept
<1>1. HistoryInv => HistoryKept
  BY DEF HistoryInv, HistoryKept
<1>2. DeedSpec => []HistoryInv
  BY HistoryStarts, HistoryInvKept, EditingAlways, PTL DEF DeedSpec
<1> QED BY <1>1, <1>2, PTL

=============================================================================
