----------------------------- MODULE Attendance -----------------------------
(***************************************************************************)
(* One day's attendance of the staff, and the settings it is judged by     *)
(* (attendance.service, attendance-rules). A press of IN, OUT or FIELD     *)
(* reads the settings and the day's records, decides, and writes a record; *)
(* the settings and the office's networks share one row, which each of     *)
(* their writers reads and writes back whole. A step is one database       *)
(* statement.                                                              *)
(***************************************************************************)
EXTENDS Naturals, FiniteSets

CONSTANTS
  Employees,   \* members of the staff
  Networks,    \* internet addresses, none of them private
  Requests,    \* slots for the requests
  MaxNets,     \* MAX_OFFICE_NETS
  Gap,         \* the hour between IN and OUT, in steps of the clock
  MaxTime,     \* bound: the clock
  MaxRecords,  \* bound: records of the day
  MaxSaves     \* bound: how often the settings are saved

ASSUME AttendanceAssumption ==
  Employees # {} /\ Gap \in Nat /\ MaxTime \in Nat /\ MaxSaves \in Nat

VARIABLES
  now,       \* the clock
  config,    \* the AttendanceConfig row
  records,   \* the day's AttendanceRecord rows
  stage,     \* request -> its next statement, ...
  carried,   \* ... and what it holds
  form,      \* the settings saved last, as a version; 0: the office is not set
  wanted,    \* the networks added and not removed since
  pressed,   \* who had two presses under way at a time
  mixed      \* have two requests that write the settings overlapped?

attendanceVars == <<now, config, records, stage, carried, form, wanted, pressed, mixed>>

PressKinds == {"IN", "OUT", "FIELD"}
(* What a press brings: a reading inside or outside the radius, one too    *)
(* rough to tell, or none.                                                 *)
Readings == {"inside", "outside", "rough", "none"}
NoRow == [form |-> 0, nets |-> {}]
Records == [who : Employees, kind : PressKinds, at : 0..MaxTime, nr : Nat]
AnyEmployee == CHOOSE p \in Employees : TRUE
NothingCarried ==
  [who |-> AnyEmployee, kind |-> "IN", at |-> 0, office |-> FALSE, onNet |-> FALSE,
   net |-> {}, nets |-> {}, form |-> 0, removing |-> FALSE]

AttendanceInit ==
  /\ now = 0 /\ config = NoRow /\ records = {}
  /\ stage = [c \in Requests |-> "idle"] /\ carried = [c \in Requests |-> NothingCarried]
  /\ form = 0 /\ wanted = {} /\ pressed = {} /\ mixed = FALSE

-----------------------------------------------------------------------------

Reached(c, point) == stage[c] = point
GoOn(c, point, l) == stage' = [stage EXCEPT ![c] = point] /\ carried' = [carried EXCEPT ![c] = l]
EndRequest(c) == GoOn(c, "idle", NothingCarried)
Presses == {"punch.settings", "punch.nets", "punch.today", "punch.create"}
Writers == {"save.nets", "save.write", "net.read", "net.row", "net.write"}

ClockTicks ==
  /\ now < MaxTime /\ now' = now + 1
  /\ UNCHANGED <<config, records, stage, carried, form, wanted, pressed, mixed>>

-----------------------------------------------------------------------------
(* Punching.                                                               *)

(* A press on the web or WhatsApp. What it brings is chosen where the      *)
(* handler looks at it first.                                              *)
Press(c, p) ==
  /\ Reached(c, "idle") /\ Cardinality(records) < MaxRecords
  /\ GoOn(c, "punch.settings", [NothingCarried EXCEPT !.who = p, !.at = now])
  /\ pressed' = IF \E d \in Requests : stage[d] \in Presses /\ carried[d].who = p
                THEN pressed \union {p} ELSE pressed
  /\ UNCHANGED <<now, config, records, form, wanted, mixed>>

ReadSettings(c) ==
  /\ Reached(c, "punch.settings")
  /\ GoOn(c, "punch.nets", [carried[c] EXCEPT !.office = config.form # 0])
  /\ UNCHANGED <<now, config, records, form, wanted, pressed, mixed>>

(* On the web: is the address it came from one of the office's? *)
ReadNets(c, from) ==
  /\ Reached(c, "punch.nets")
  /\ GoOn(c, "punch.today", [carried[c] EXCEPT !.onNet = from \intersect config.nets # {}])
  /\ UNCHANGED <<now, config, records, form, wanted, pressed, mixed>>

Usable(l, reading) == l.onNet \/ (l.office /\ reading \in {"inside", "outside"})
InOffice(l, reading) == l.onNet \/ (l.office /\ reading = "inside")

Today(p, kind) == {r \in records : r.who = p /\ r.kind = kind}

(* Faulty variant: OUT is not looked for among the day's records. *)
OutAgain(l) == \E r \in Today(l.who, "IN") : l.at >= r.at + Gap

(* OUT: once, and after an IN of at least an hour ago. *)
MayLeave(l) ==
  /\ Today(l.who, "OUT") = {}
  /\ \E r \in Today(l.who, "IN") : l.at >= r.at + Gap

(* punchDecision: may this press be recorded? OUT may be pressed anywhere. *)
Accepted(l, kind, reading, reason) ==
  \/ kind = "FIELD" /\ reason /\ reading # "none"
  \/ kind = "IN" /\ Today(l.who, "IN") = {} /\ InOffice(l, reading)
  \/ kind = "OUT" /\ MayLeave(l) /\ Usable(l, reading)

ReadToday(c, kind, reading, reason) ==
  /\ Reached(c, "punch.today")
  /\ IF Accepted(carried[c], kind, reading, reason)
     THEN GoOn(c, "punch.create", [carried[c] EXCEPT !.kind = kind])
     ELSE EndRequest(c)
  /\ UNCHANGED <<now, config, records, form, wanted, pressed, mixed>>

CreateRecord(c) ==
  LET l == carried[c] IN
  /\ Reached(c, "punch.create")
  /\ records' = records \union
       {[who |-> l.who, kind |-> l.kind, at |-> l.at, nr |-> Cardinality(records)]}
  /\ EndRequest(c)
  /\ UNCHANGED <<now, config, form, wanted, pressed, mixed>>

-----------------------------------------------------------------------------
(* The settings row.                                                       *)

Crossing == mixed' = (mixed \/ \E d \in Requests : stage[d] \in Writers)

(* A manager saves the form, ... *)
SaveSettings(c) ==
  /\ Reached(c, "idle") /\ form < MaxSaves
  /\ GoOn(c, "save.nets", [NothingCarried EXCEPT !.form = form + 1])
  /\ Crossing
  /\ UNCHANGED <<now, config, records, form, wanted, pressed>>

(* Faulty variant: the form is saved without the networks. *)
FormOnly(l) == {}

NetsKept(l) == l.nets

(* ... the networks of the row are read, and written back with it. *)
ReadNetsToKeep(c) ==
  /\ Reached(c, "save.nets")
  /\ GoOn(c, "save.write", [carried[c] EXCEPT !.nets = config.nets])
  /\ UNCHANGED <<now, config, records, form, wanted, pressed, mixed>>

WriteSettings(c) ==
  /\ Reached(c, "save.write")
  /\ config' = [form |-> carried[c].form, nets |-> NetsKept(carried[c])]
  /\ form' = carried[c].form
  /\ EndRequest(c)
  /\ UNCHANGED <<now, records, wanted, pressed, mixed>>

(* A manager adds the address of the request, or removes one. *)
ChangeNets(c, net, removing) ==
  /\ Reached(c, "idle")
  /\ GoOn(c, "net.read", [NothingCarried EXCEPT !.net = {net}, !.removing = removing])
  /\ Crossing
  /\ UNCHANGED <<now, config, records, form, wanted, pressed>>

NetsAfter(l) == IF l.removing THEN config.nets \ l.net ELSE config.nets \union l.net

(* The networks are read; nothing to do, or too many, ends the call. *)
ReadNetsToChange(c) ==
  LET after == NetsAfter(carried[c]) IN
  /\ Reached(c, "net.read")
  /\ IF after # config.nets /\ Cardinality(after) <= MaxNets
     THEN GoOn(c, "net.row", [carried[c] EXCEPT !.nets = after])
     ELSE EndRequest(c)
  /\ UNCHANGED <<now, config, records, form, wanted, pressed, mixed>>

(* writeNets: the row is read again for the rest of it, and written. *)
ReadRow(c) ==
  /\ Reached(c, "net.row")
  /\ GoOn(c, "net.write", [carried[c] EXCEPT !.form = config.form])
  /\ UNCHANGED <<now, config, records, form, wanted, pressed, mixed>>

WriteNets(c) ==
  /\ Reached(c, "net.write")
  /\ config' = [form |-> carried[c].form, nets |-> carried[c].nets]
  /\ wanted' = IF carried[c].removing THEN wanted \ carried[c].net ELSE wanted \union carried[c].net
  /\ EndRequest(c)
  /\ UNCHANGED <<now, records, form, pressed, mixed>>

(* A statement fails, or the server restarts. *)
RequestDies(c) ==
  /\ ~Reached(c, "idle") /\ EndRequest(c)
  /\ UNCHANGED <<now, config, records, form, wanted, pressed, mixed>>

AttendanceNext ==
  \/ ClockTicks
  \/ \E c \in Requests :
       \/ \E p \in Employees : Press(c, p)
       \/ ReadSettings(c)
       \/ \E from \in {{}} \union {{n} : n \in Networks} : ReadNets(c, from)
       \/ \E kind \in PressKinds, reading \in Readings, reason \in BOOLEAN :
            ReadToday(c, kind, reading, reason)
       \/ CreateRecord(c)
       \/ SaveSettings(c) \/ ReadNetsToKeep(c) \/ WriteSettings(c)
       \/ \E net \in Networks, removing \in BOOLEAN : ChangeNets(c, net, removing)
       \/ ReadNetsToChange(c) \/ ReadRow(c) \/ WriteNets(c) \/ RequestDies(c)

AttendanceSpec == AttendanceInit /\ [][AttendanceNext]_attendanceVars

-----------------------------------------------------------------------------

AttendanceTypeOK ==
  /\ now \in 0..MaxTime /\ form \in 0..MaxSaves /\ wanted \subseteq Networks
  /\ config \in [form : 0..MaxSaves, nets : SUBSET Networks]
  /\ records \subseteq Records /\ pressed \subseteq Employees /\ mixed \in BOOLEAN
  /\ stage \in [Requests -> {"idle"} \union Presses \union Writers]
  /\ carried \in [Requests ->
       [who : Employees, kind : PressKinds,
        at : 0..MaxTime, office : BOOLEAN, onNet : BOOLEAN, net : SUBSET Networks,
        nets : SUBSET Networks, form : 0..MaxSaves, removing : BOOLEAN]]

(* "One IN and one OUT a day, OUT at least 1 hour after IN": of everybody  *)
(* who never had two presses under way at a time, whatever the settings    *)
(* become meanwhile.                                                       *)
PunchedOnce ==
  \A p \in Employees \ pressed :
    /\ Cardinality(Today(p, "IN")) <= 1 /\ Cardinality(Today(p, "OUT")) <= 1
    /\ \A r \in Today(p, "OUT") : \E i \in Today(p, "IN") : r.at >= i.at + Gap

(* The networks "live in the same row but are not part of the form: keep   *)
(* them": as long as no two writers of the row overlap, it holds the form  *)
(* saved last and every network added and not removed since.               *)
SettingsKept == ~mixed => config = [form |-> form, nets |-> wanted]
=============================================================================
