------------------------------ MODULE MCOffice ------------------------------
(***************************************************************************)
(* The office's own work: editing a deed and who has it open, handing out  *)
(* a starter deed, attendance, the month's salary sheet and a line of it.  *)
(* They share no state; each is explored on its own ("part" says which) by *)
(* one run, in which the others keep an initial state.                     *)
(***************************************************************************)
EXTENDS DeedEditing, Starters, Attendance, Payroll, SalaryLine, DeedPresence, TLC

VARIABLE part

deeds == <<deedVars, starterVars, presenceVars>>
people == <<attendanceVars, vars, lineVars>>
everything == <<part, deeds, people>>

(* One initial state of the parts that have several. *)
OneDeed == live = CHOOSE t \in Texts : TRUE
OneStarter == org = [o \in Orgs |-> "absent"]
OneLine == terms = CHOOSE t \in Terms : TRUE

OfficeInit ==
  /\ DeedInit /\ StarterInit /\ PresenceInit
  /\ AttendanceInit /\ Init /\ LineInit
  /\ part \in {"deed", "starter", "presence", "attendance", "payroll", "line"}
  /\ part # "deed" => OneDeed
  /\ part # "starter" => OneStarter
  /\ part # "line" => OneLine

OfficeNext ==
  \/ part = "deed" /\ DeedNext /\ UNCHANGED <<part, starterVars, presenceVars, people>>
  \/ part = "starter" /\ StarterNext /\ UNCHANGED <<part, deedVars, presenceVars, people>>
  \/ part = "presence" /\ PresenceNext /\ UNCHANGED <<part, deedVars, starterVars, people>>
  \/ part = "attendance" /\ AttendanceNext /\ UNCHANGED <<part, deeds, vars, lineVars>>
  \/ part = "payroll" /\ Next /\ UNCHANGED <<part, deeds, attendanceVars, lineVars>>
  \/ part = "line" /\ LineNext /\ UNCHANGED <<part, deeds, attendanceVars, vars>>

OfficeSpec == OfficeInit /\ [][OfficeNext]_everything

(* Pages are interchangeable, and so are calls; the parts that have calls  *)
(* are given the same ones, so that one permutation serves them all.       *)
Symmetry == Permutations(Editors) \union Permutations(Calls)

-----------------------------------------------------------------------------
(* The types of the parts. *)
PartsTyped ==
  /\ DeedTypeOK /\ StarterTypeOK /\ PresenceTypeOK
  /\ AttendanceTypeOK /\ TypeOK /\ LineTypeOK
=============================================================================
