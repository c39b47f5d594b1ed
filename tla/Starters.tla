------------------------------ MODULE Starters ------------------------------
(***************************************************************************)
(* One starter deed of the platform and its copies in the partners'        *)
(* workspaces (sample-deeds.service, organizations.service): marking the   *)
(* deed copies it into every workspace, a new workspace is seeded with it, *)
(* and unmarking it withdraws the copies nobody worked on. A step is one   *)
(* database statement; the calls, and the partners' work, interleave.      *)
(***************************************************************************)
EXTENDS Naturals

CONSTANTS
  Orgs,       \* workspaces of partners
  Staff,      \* slots for the platform staff's calls
  MaxCopies,  \* bound: copies a workspace is ever given
  MaxMarks    \* bound: how often the deed is marked or unmarked

ASSUME StarterAssumption == MaxCopies \in Nat

VARIABLES
  marked,    \* DeedTemplate.isStarter of the starter
  org,       \* workspace -> does it exist, has it an active owner?
  copies,    \* the copies there are
  made,      \* workspace -> number of copies ever made for it
  staff,     \* slot -> its call
  signup,    \* workspace -> how far the seeding of its signup has come
  marks,     \* how much of MaxMarks is used up
  crossed,   \* did a call copy or withdraw while another one was about to?
  disturbed, \* was a copy worked on between a withdrawal's reads and its delete?
  lost       \* was a copy withdrawn that was edited or had something hung off it?

starterVars ==
  <<marked, org, copies, made, staff, signup, marks, crossed, disturbed, lost>>

(* edited: title or body changed, so updatedAt is past createdAt; hung: a  *)
(* party, a revision, a naksha, a detail or a correction names the copy;   *)
(* papers: an uploaded source document does.                               *)
Copies ==
  [org : Orgs, nr : 1..MaxCopies, edited : BOOLEAN, hung : BOOLEAN, papers : BOOLEAN]

NoCall == [at |-> "idle", orgs |-> {}, copies |-> {}]

StarterInit ==
  /\ marked = FALSE
  /\ org \in [Orgs -> {"absent", "owned", "ownerless"}]
  /\ copies = {} /\ made = [o \in Orgs |-> 0]
  /\ staff = [s \in Staff |-> NoCall]
  /\ signup = [o \in Orgs |-> "none"]
  /\ marks = 0 /\ crossed = FALSE /\ disturbed = FALSE /\ lost = FALSE

-----------------------------------------------------------------------------

Busy == {s \in Staff : staff[s].at # "idle"}
Seeding == {o \in Orgs : signup[o] # "none"}

Goes(s, call) == staff' = [staff EXCEPT ![s] = call]

(* A new copy for each of the workspaces. *)
CopyInto(orgs) ==
  /\ \A o \in orgs : made[o] < MaxCopies
  /\ made' = [o \in Orgs |-> IF o \in orgs THEN made[o] + 1 ELSE made[o]]
  /\ copies' = copies \union
       {[org |-> o, nr |-> made'[o], edited |-> FALSE, hung |-> FALSE, papers |-> FALSE] :
          o \in orgs}

(* setStarter(id, true): the flag is set, ... *)
Mark(s) ==
  /\ staff[s].at = "idle" /\ marks < MaxMarks
  /\ marks' = marks + 1 /\ marked' = TRUE
  /\ crossed' = (crossed \/ Busy # {} \/ Seeding # {})
  /\ Goes(s, [NoCall EXCEPT !.at = "find targets"])
  /\ UNCHANGED <<org, copies, made, signup, disturbed, lost>>

(* Faulty variant: workspaces that have a copy are not skipped. *)
EveryWorkspace(o) == TRUE

WithoutCopy(o) == \A c \in copies : c.org # o

(* ... the workspaces without a copy are found, ... *)
FindTargets(s) ==
  /\ staff[s].at = "find targets"
  /\ Goes(s, [NoCall EXCEPT !.at = "create",
                          !.orgs = {o \in Orgs : org[o] = "owned" /\ WithoutCopy(o)}])
  /\ UNCHANGED <<marked, org, copies, made, signup, marks, crossed, disturbed, lost>>

(* ... and get one, all in one statement. *)
CreateCopies(s) ==
  /\ staff[s].at = "create"
  /\ CopyInto(staff[s].orgs)
  /\ Goes(s, NoCall)
  /\ UNCHANGED <<marked, org, signup, marks, crossed, disturbed, lost>>

(* setStarter(id, false): the flag is cleared, ... *)
Unmark(s) ==
  /\ staff[s].at = "idle" /\ marks < MaxMarks
  /\ marks' = marks + 1 /\ marked' = FALSE
  /\ crossed' = (crossed \/ Busy # {} \/ Seeding # {})
  /\ Goes(s, [NoCall EXCEPT !.at = "find copies"])
  /\ UNCHANGED <<org, copies, made, signup, disturbed, lost>>

(* ... the copies that were never edited are found, ... *)
FindCopies(s) ==
  /\ staff[s].at = "find copies"
  /\ Goes(s, [NoCall EXCEPT !.at = "find work", !.copies = {c \in copies : ~c.edited}])
  /\ UNCHANGED <<marked, org, copies, made, signup, marks, crossed, disturbed, lost>>

(* The ids of copies; a copy keeps its id whatever is done to it. *)
IdsOf(set) == {<<c.org, c.nr>> : c \in set}
In(c, set) == <<c.org, c.nr>> \in IdsOf(set)

(* Faulty variant: an unchanged body is enough. *)
BodyOnly(candidates) == candidates

(* Those that nothing hangs off, as far as the five queries look (they run *)
(* together): a source document names the copy too, but is not looked for. *)
Unused(candidates) == {c \in copies : In(c, candidates) /\ ~c.hung}

FindWork(s) ==
  /\ staff[s].at = "find work"
  /\ Goes(s, [NoCall EXCEPT !.at = "delete", !.copies = Unused(staff[s].copies)])
  /\ UNCHANGED <<marked, org, copies, made, signup, marks, crossed, disturbed, lost>>

(* ... and those of which none was found are deleted, by id. *)
DeleteCopies(s) ==
  LET going == {c \in copies : In(c, staff[s].copies)} IN
  /\ staff[s].at = "delete"
  /\ copies' = copies \ going
  /\ lost' = (lost \/ \E c \in going : c.edited \/ c.hung)
  /\ Goes(s, NoCall)
  /\ UNCHANGED <<marked, org, made, signup, marks, crossed, disturbed>>

(* The call dies before its last statement. *)
CallDies(s) ==
  /\ staff[s].at # "idle"
  /\ crossed' = TRUE
  /\ Goes(s, NoCall)
  /\ UNCHANGED <<marked, org, copies, made, signup, marks, disturbed, lost>>

-----------------------------------------------------------------------------
(* The workspaces.                                                         *)

(* A partner signs up; seedStarterDeeds follows. *)
SignUp(o) ==
  /\ org[o] = "absent" /\ org' = [org EXCEPT ![o] = "owned"]
  /\ signup' = [signup EXCEPT ![o] = "find starters"]
  /\ crossed' = (crossed \/ Busy # {})
  /\ UNCHANGED <<marked, copies, made, staff, marks, disturbed, lost>>

FindStarters(o) ==
  /\ signup[o] = "find starters"
  /\ signup' = [signup EXCEPT ![o] = IF marked THEN "create" ELSE "none"]
  /\ UNCHANGED <<marked, org, copies, made, staff, marks, crossed, disturbed, lost>>

(* The copy is made, or its failure is only logged. *)
Seed(o) ==
  /\ signup[o] = "create" /\ signup' = [signup EXCEPT ![o] = "none"]
  /\ CopyInto({o}) \/ UNCHANGED <<copies, made>>
  /\ UNCHANGED <<marked, org, staff, marks, crossed, disturbed, lost>>

(* The partner works on a copy: edits it, or hangs something off it. *)
WorkOn(c, worked) ==
  /\ copies' = (copies \ {c}) \union {worked}
  /\ disturbed' =
       (disturbed \/ \E s \in Staff :
                       staff[s].at \in {"find work", "delete"} /\ In(c, staff[s].copies))
  /\ UNCHANGED <<marked, org, made, staff, signup, marks, crossed, lost>>

EditCopy(c) == ~c.edited /\ WorkOn(c, [c EXCEPT !.edited = TRUE])
HangOff(c) == ~c.hung /\ WorkOn(c, [c EXCEPT !.hung = TRUE])

(* A source document is uploaded: a row of its own, the deed is not touched. *)
UploadPaper(c) ==
  /\ ~c.papers
  /\ copies' = (copies \ {c}) \union {[c EXCEPT !.papers = TRUE]}
  /\ UNCHANGED <<marked, org, made, staff, signup, marks, crossed, disturbed, lost>>

(* remove, by the partner. *)
RemoveCopy(c) ==
  /\ copies' = copies \ {c}
  /\ UNCHANGED <<marked, org, made, staff, signup, marks, crossed, disturbed, lost>>

StarterNext ==
  \/ \E s \in Staff :
       \/ Mark(s) \/ FindTargets(s) \/ CreateCopies(s)
       \/ Unmark(s) \/ FindCopies(s) \/ FindWork(s) \/ DeleteCopies(s) \/ CallDies(s)
  \/ \E o \in Orgs : SignUp(o) \/ FindStarters(o) \/ Seed(o)
  \/ \E c \in copies : EditCopy(c) \/ HangOff(c) \/ UploadPaper(c) \/ RemoveCopy(c)

StarterSpec == StarterInit /\ [][StarterNext]_starterVars

-----------------------------------------------------------------------------

StarterTypeOK ==
  /\ marked \in BOOLEAN
  /\ org \in [Orgs -> {"absent", "owned", "ownerless"}]
  /\ copies \subseteq Copies /\ made \in [Orgs -> 0..MaxCopies] /\ lost \in BOOLEAN
  /\ staff \in [Staff ->
       [at : {"idle", "find targets", "create", "find copies", "find work", "delete"},
        orgs : SUBSET Orgs, copies : SUBSET Copies]]
  /\ signup \in [Orgs -> {"none", "find starters", "create"}]
  /\ crossed \in BOOLEAN /\ disturbed \in BOOLEAN

(* A withdrawal deletes no copy that was edited or that a party, a revision, *)
(* a naksha, a detail or a correction names (the work the five queries of    *)
(* withdrawUnusedCopies look for; "anything a partner has actually worked on *)
(* stays theirs" would ask for the uploaded papers too, which it deletes     *)
(* with the copy), ...                                                       *)
WorkStays == ~lost

(* ... as long as nobody edits a candidate or hangs something off it while   *)
(* the withdrawal runs; papers may be uploaded at any time.                  *)
WorkStaysUndisturbed == ~disturbed => WorkStays

(* When the calls come one after the other and do not die: no workspace      *)
(* ever holds two copies, however often the deed is marked, and once it is   *)
(* unmarked only copies somebody edited or hung something off are left; one  *)
(* with nothing but papers is gone.                                          *)
CopiesInStep ==
  ~crossed =>
    /\ \A c, d \in copies : c.org = d.org => c = d
    /\ ~marked /\ Busy = {} /\ Seeding = {} => \A c \in copies : c.edited \/ c.hung
=============================================================================
