-------------------------- MODULE AttendanceProofs --------------------------
(***************************************************************************)
(* Attendance and the month's salary, for any number of employees,         *)
(* networks, requests, adjustments and amounts: a day has one IN and one   *)
(* OUT, and the settings row loses nothing; a locked sheet of Payroll      *)
(* stays as it is, and the slips tell it; a line of it, worked out by      *)
(* SalaryLine, is right for every salary, quota and number of days.        *)
(*                                                                         *)
(* The proofs about Attendance rest on AttendanceAssumption alone.         *)
(* PressesApart says what a press has decided by the time it writes;       *)
(* WritersApart what a writer of the settings row has read.                *)
(***************************************************************************)
EXTENDS MCOffice, DeedsProofs

-----------------------------------------------------------------------------
(* Attendance: the types.                                                  *)

Carriers ==
  [who : Employees, kind : PressKinds,
   at : 0..MaxTime, office : BOOLEAN, onNet : BOOLEAN, net : SUBSET Networks,
   nets : SUBSET Networks, form : 0..MaxSaves, removing : BOOLEAN]

Stages == {"idle"} \union Presses \union Writers

AttendanceShape == AttendanceTypeOK /\ IsFiniteSet(records)

Pressing(c, p) == stage[c] \in Presses /\ carried[c].who = p

(* What a press that is about to write its record has decided.             *)
PressDecided(l) ==
  /\ l.kind = "IN" => Today(l.who, "IN") = {}
  /\ l.kind = "OUT" => MayLeave(l)

Decides(c) == PressDecided(carried[c])

PressesApart ==
  \A p \in Employees \ pressed :
    /\ \A c, d \in Requests : Pressing(c, p) /\ Pressing(d, p) => c = d
    /\ \A c \in Requests :
         Reached(c, "punch.create") /\ carried[c].who = p => Decides(c)
    /\ \A kind \in {"IN", "OUT"} : \A r, s \in Today(p, kind) : r = s
    /\ \A r \in Today(p, "OUT") : \E i \in Today(p, "IN") : r.at >= i.at + Gap

(* What a writer of the settings row has read of it.                       *)
HasRead(c) ==
  /\ stage[c] = "save.write" => carried[c].nets = config.nets
  /\ stage[c] \in {"net.row", "net.write"} => carried[c].nets = NetsAfter(carried[c])
  /\ stage[c] = "net.write" => carried[c].form = config.form

WritersApart ==
  ~mixed =>
    /\ \A c, d \in Requests : stage[c] \in Writers /\ stage[d] \in Writers => c = d
    /\ \A c \in Requests : HasRead(c)
    /\ config = [form |-> form, nets |-> wanted]

(* What a request that carries nothing holds has its type.                 *)
LEMMA NothingCarriedTyped == AnyEmployee \in Employees /\ NothingCarried \in Carriers
<1>1. AnyEmployee \in Employees
  BY AttendanceAssumption DEF AnyEmployee
<1>2. 0 \in 0..MaxTime /\ 0 \in 0..MaxSaves
  BY AttendanceAssumption
<1> QED BY <1>1, <1>2 DEF NothingCarried, Carriers, PressKinds

(* A request that goes on, with what it carries of the right type.         *)
LEMMA RequestMoves ==
  ASSUME AttendanceTypeOK, NEW c \in Requests, NEW point \in Stages, NEW l \in Carriers,
         GoOn(c, point, l)
  PROVE  /\ stage' \in [Requests -> Stages] /\ carried' \in [Requests -> Carriers]
         /\ stage'[c] = point /\ carried'[c] = l
         /\ \A d \in Requests \ {c} : stage'[d] = stage[d] /\ carried'[d] = carried[d]
  BY DEF AttendanceTypeOK, GoOn, Stages, Carriers

(* The records and the row are as they were; the request has moved.        *)
LEMMA MovesTyped ==
  ASSUME AttendanceShape, NEW c \in Requests, NEW point \in Stages, NEW l \in Carriers,
         GoOn(c, point, l), UNCHANGED <<now, config, records, form, wanted>>,
         pressed' \subseteq Employees, mixed' \in BOOLEAN
  PROVE  AttendanceShape'
  BY RequestMoves DEF AttendanceShape, AttendanceTypeOK, Stages, Carriers

LEMMA AttendanceStart == AttendanceInit => AttendanceShape
<1> SUFFICES ASSUME AttendanceInit PROVE AttendanceShape
  OBVIOUS
<1>1. now \in 0..MaxTime /\ form \in 0..MaxSaves
  BY AttendanceAssumption DEF AttendanceInit
<1>2. config \in [form : 0..MaxSaves, nets : SUBSET Networks]
  BY AttendanceAssumption DEF AttendanceInit, NoRow
<1>3. carried \in [Requests -> Carriers]
  BY NothingCarriedTyped DEF AttendanceInit
<1>4. IsFiniteSet(records)
  BY FS_EmptySet DEF AttendanceInit
<1> QED
  BY <1>1, <1>2, <1>3, <1>4 DEF AttendanceInit, AttendanceShape, AttendanceTypeOK, Carriers

PressStep(c) ==
  \/ \E p \in Employees : Press(c, p)
  \/ ReadSettings(c)
  \/ \E from \in {{}} \union {{n} : n \in Networks} : ReadNets(c, from)
  \/ \E kind \in PressKinds, reading \in Readings, reason \in BOOLEAN :
       ReadToday(c, kind, reading, reason)
  \/ CreateRecord(c)

WriterStep(c) ==
  \/ SaveSettings(c) \/ ReadNetsToKeep(c) \/ WriteSettings(c)
  \/ \E net \in Networks, removing \in BOOLEAN : ChangeNets(c, net, removing)
  \/ ReadNetsToChange(c) \/ ReadRow(c) \/ WriteNets(c)

LEMMA AttendanceSplit ==
  ASSUME [AttendanceNext]_attendanceVars
  PROVE  \/ \E c \in Requests : PressStep(c) \/ WriterStep(c) \/ RequestDies(c)
         \/ ClockTicks \/ UNCHANGED attendanceVars
  BY DEF AttendanceNext, PressStep, WriterStep

(* The record a press writes.                                              *)
NewRecord(c) ==
  [who |-> carried[c].who, kind |-> carried[c].kind, at |-> carried[c].at,
   nr |-> Cardinality(records)]

LEMMA RecordWritten ==
  ASSUME AttendanceShape, NEW c \in Requests, CreateRecord(c)
  PROVE  /\ NewRecord(c) \in Records /\ records' = records \union {NewRecord(c)}
         /\ IsFiniteSet(records')
<1>1. carried[c] \in Carriers
  BY DEF AttendanceShape, AttendanceTypeOK, Carriers
<1>2. Cardinality(records) \in Nat
  BY FS_CardinalityType DEF AttendanceShape
<1>3. NewRecord(c) \in Records
  BY <1>1, <1>2 DEF NewRecord, Records, Carriers
<1>4. records' = records \union {NewRecord(c)}
  BY DEF CreateRecord, NewRecord
<1> QED BY <1>3, <1>4, FS_AddElement DEF AttendanceShape

LEMMA PressTyped ==
  ASSUME AttendanceShape, NEW c \in Requests, PressStep(c)
  PROVE  AttendanceShape'
<1>1. /\ carried[c] \in Carriers /\ pressed \subseteq Employees /\ mixed \in BOOLEAN
      /\ now \in 0..MaxTime
  BY DEF AttendanceShape, AttendanceTypeOK, Carriers
<1>2. Presses \subseteq Stages /\ "idle" \in Stages
  BY DEF Stages
<1>3. ASSUME NEW p \in Employees, Press(c, p) PROVE AttendanceShape'
  <2> DEFINE l == [NothingCarried EXCEPT !.who = p, !.at = now]
  <2>1. l \in Carriers
    BY <1>1, NothingCarriedTyped DEF Carriers
  <2>2. "punch.settings" \in Stages /\ GoOn(c, "punch.settings", l) /\ pressed' \subseteq Employees
    BY <1>1, <1>2, <1>3 DEF Press, Presses
  <2> QED BY <1>1, <1>3, <2>1, <2>2, MovesTyped DEF Press
<1>4. CASE ReadSettings(c)
  <2> DEFINE l == [carried[c] EXCEPT !.office = config.form # 0]
  <2>1. l \in Carriers
    BY <1>1 DEF Carriers
  <2>2. "punch.nets" \in Stages /\ GoOn(c, "punch.nets", l)
    BY <1>2, <1>4 DEF ReadSettings, Presses
  <2> QED BY <1>1, <1>4, <2>1, <2>2, MovesTyped DEF ReadSettings
<1>5. ASSUME NEW from, ReadNets(c, from) PROVE AttendanceShape'
  <2> DEFINE l == [carried[c] EXCEPT !.onNet = from \intersect config.nets # {}]
  <2>1. l \in Carriers
    BY <1>1 DEF Carriers
  <2>2. "punch.today" \in Stages /\ GoOn(c, "punch.today", l)
    BY <1>2, <1>5 DEF ReadNets, Presses
  <2> QED BY <1>1, <1>5, <2>1, <2>2, MovesTyped DEF ReadNets
<1>6. ASSUME NEW kind \in PressKinds, NEW reading, NEW reason, ReadToday(c, kind, reading, reason)
      PROVE  AttendanceShape'
  <2> DEFINE l == [carried[c] EXCEPT !.kind = kind]
  <2>1. l \in Carriers /\ NothingCarried \in Carriers
    BY <1>1, NothingCarriedTyped DEF Carriers
  <2>2. "punch.create" \in Stages
    BY <1>2 DEF Presses
  <2>3. GoOn(c, "punch.create", l) \/ GoOn(c, "idle", NothingCarried)
    BY <1>6 DEF ReadToday, EndRequest
  <2>4. UNCHANGED <<now, config, records, form, wanted, pressed, mixed>>
    BY <1>6 DEF ReadToday
  <2> HIDE DEF l
  <2> QED BY <1>1, <1>2, <2>1, <2>2, <2>3, <2>4, MovesTyped
<1>7. CASE CreateRecord(c)
  <2>1. records' \subseteq Records /\ IsFiniteSet(records')
    BY <1>7, RecordWritten DEF AttendanceShape, AttendanceTypeOK
  <2>2. GoOn(c, "idle", NothingCarried) /\ UNCHANGED <<now, config, form, wanted, pressed, mixed>>
    BY <1>7 DEF CreateRecord, EndRequest
  <2>3. stage' \in [Requests -> Stages] /\ carried' \in [Requests -> Carriers]
    BY <1>2, <2>2, NothingCarriedTyped, RequestMoves DEF AttendanceShape
  <2> QED BY <2>1, <2>2, <2>3 DEF AttendanceShape, AttendanceTypeOK, Stages, Carriers
<1> QED BY <1>3, <1>4, <1>5, <1>6, <1>7 DEF PressStep

LEMMA WriterTyped ==
  ASSUME AttendanceShape, NEW c \in Requests, WriterStep(c)
  PROVE  AttendanceShape'
<1>1. /\ carried[c] \in Carriers /\ pressed \subseteq Employees /\ mixed \in BOOLEAN
      /\ config \in [form : 0..MaxSaves, nets : SUBSET Networks] /\ form \in 0..MaxSaves
      /\ wanted \subseteq Networks
  BY DEF AttendanceShape, AttendanceTypeOK, Carriers
<1>2. Writers \subseteq Stages /\ "idle" \in Stages /\ NothingCarried \in Carriers
  BY NothingCarriedTyped DEF Stages
<1>3. CASE SaveSettings(c)
  <2> DEFINE l == [NothingCarried EXCEPT !.form = form + 1]
  <2>1. l \in Carriers
    <3>1. form + 1 \in 0..MaxSaves
      BY <1>1, <1>3, AttendanceAssumption DEF SaveSettings
    <3> QED BY <1>2, <3>1 DEF Carriers
  <2>2. "save.nets" \in Stages /\ GoOn(c, "save.nets", l) /\ mixed' \in BOOLEAN
    BY <1>1, <1>2, <1>3 DEF SaveSettings, Writers, Crossing
  <2> QED BY <1>1, <1>3, <2>1, <2>2, MovesTyped DEF SaveSettings
<1>4. CASE ReadNetsToKeep(c)
  <2> DEFINE l == [carried[c] EXCEPT !.nets = config.nets]
  <2>1. l \in Carriers
    BY <1>1 DEF Carriers
  <2>2. "save.write" \in Stages /\ GoOn(c, "save.write", l)
    BY <1>2, <1>4 DEF ReadNetsToKeep, Writers
  <2> QED BY <1>1, <1>4, <2>1, <2>2, MovesTyped DEF ReadNetsToKeep
<1>5. ASSUME NEW net \in Networks, NEW removing \in BOOLEAN, ChangeNets(c, net, removing)
      PROVE  AttendanceShape'
  <2> DEFINE l == [NothingCarried EXCEPT !.net = {net}, !.removing = removing]
  <2>1. l \in Carriers
    BY <1>2 DEF Carriers
  <2>2. "net.read" \in Stages /\ GoOn(c, "net.read", l) /\ mixed' \in BOOLEAN
    BY <1>1, <1>2, <1>5 DEF ChangeNets, Writers, Crossing
  <2> QED BY <1>1, <1>5, <2>1, <2>2, MovesTyped DEF ChangeNets
<1>6. CASE ReadNetsToChange(c)
  <2> DEFINE l == [carried[c] EXCEPT !.nets = NetsAfter(carried[c])]
  <2>1. l \in Carriers
    BY <1>1 DEF Carriers, NetsAfter
  <2>2. "net.row" \in Stages
    BY <1>2 DEF Writers
  <2>3. GoOn(c, "net.row", l) \/ GoOn(c, "idle", NothingCarried)
    BY <1>6 DEF ReadNetsToChange, EndRequest
  <2>4. UNCHANGED <<now, config, records, form, wanted, pressed, mixed>>
    BY <1>6 DEF ReadNetsToChange
  <2> HIDE DEF l
  <2> QED BY <1>1, <1>2, <2>1, <2>2, <2>3, <2>4, MovesTyped
<1>7. CASE ReadRow(c)
  <2> DEFINE l == [carried[c] EXCEPT !.form = config.form]
  <2>1. l \in Carriers
    BY <1>1 DEF Carriers
  <2>2. "net.write" \in Stages /\ GoOn(c, "net.write", l)
    BY <1>2, <1>7 DEF ReadRow, Writers
  <2> QED BY <1>1, <1>7, <2>1, <2>2, MovesTyped DEF ReadRow
<1>8. CASE WriteSettings(c) \/ WriteNets(c)
  <2>1. GoOn(c, "idle", NothingCarried) /\ UNCHANGED <<now, records, pressed, mixed>>
    BY <1>8 DEF WriteSettings, WriteNets, EndRequest
  <2>2. stage' \in [Requests -> Stages] /\ carried' \in [Requests -> Carriers]
    BY <1>2, <2>1, RequestMoves DEF AttendanceShape
  <2>3. /\ config' \in [form : 0..MaxSaves, nets : SUBSET Networks] /\ form' \in 0..MaxSaves
        /\ wanted' \subseteq Networks
    BY <1>1, <1>8 DEF WriteSettings, WriteNets, NetsKept, Carriers
  <2> QED BY <2>1, <2>2, <2>3 DEF AttendanceShape, AttendanceTypeOK, Stages, Carriers
<1> QED BY <1>3, <1>4, <1>5, <1>6, <1>7, <1>8 DEF WriterStep

LEMMA AttendanceTyped == AttendanceShape /\ [AttendanceNext]_attendanceVars => AttendanceShape'
<1> SUFFICES ASSUME AttendanceShape, [AttendanceNext]_attendanceVars PROVE AttendanceShape'
  OBVIOUS
<1>1. ASSUME NEW c \in Requests, RequestDies(c) PROVE AttendanceShape'
  <2>1. "idle" \in Stages /\ pressed \subseteq Employees /\ mixed \in BOOLEAN
    BY DEF Stages, AttendanceShape, AttendanceTypeOK
  <2> QED BY <1>1, <2>1, NothingCarriedTyped, MovesTyped DEF RequestDies, EndRequest
<1>2. CASE ClockTicks
  BY <1>2, AttendanceAssumption DEF ClockTicks, AttendanceShape, AttendanceTypeOK
<1>3. CASE UNCHANGED attendanceVars
  BY <1>3 DEF attendanceVars, AttendanceShape, AttendanceTypeOK
<1> QED BY <1>1, <1>2, <1>3, AttendanceSplit, PressTyped, WriterTyped

LEMMA AttendanceShaped == AttendanceSpec => []AttendanceShape
  BY AttendanceStart, AttendanceTyped, PTL DEF AttendanceSpec

(* The type invariant of Attendance.                                       *)
THEOREM AttendanceTypesCorrect == AttendanceSpec => []AttendanceTypeOK
  BY AttendanceShaped, PTL DEF AttendanceShape

-----------------------------------------------------------------------------
(* Attendance: one IN and one OUT a day.                                   *)

LEMMA PressesApartStart == AttendanceInit => PressesApart
  BY DEF AttendanceInit, PressesApart, Pressing, Presses, Reached, Today

(* A request that decides well, or that is no press, keeps presses apart.  *)
LEMMA PressesApartMoves ==
  ASSUME PressesApart, NEW c \in Requests,
         \A d \in Requests \ {c} : stage'[d] = stage[d] /\ carried'[d] = carried[d],
         records' = records, pressed' = pressed,
         stage'[c] \in Presses => Pressing(c, carried'[c].who),
         stage'[c] = "punch.create" => PressDecided(carried'[c])
  PROVE  PressesApart'
<1> SUFFICES ASSUME NEW p \in Employees, p \notin pressed
             PROVE  /\ \A d, e \in Requests : Pressing(d, p)' /\ Pressing(e, p)' => d = e
                    /\ \A d \in Requests : stage'[d] = "punch.create" /\ carried'[d].who = p =>
                         PressDecided(carried'[d])
                    /\ \A kind \in {"IN", "OUT"} : \A r, s \in Today(p, kind) : r = s
                    /\ \A r \in Today(p, "OUT") : \E i \in Today(p, "IN") : r.at >= i.at + Gap
  BY DEF PressesApart, Reached, Decides, PressDecided, MayLeave, Today
<1>1. \A d \in Requests : Pressing(d, p)' => Pressing(d, p)
  BY DEF Pressing
<1>2. \A d, e \in Requests : Pressing(d, p)' /\ Pressing(e, p)' => d = e
  BY <1>1 DEF PressesApart
<1>3. \A d \in Requests : stage'[d] = "punch.create" /\ carried'[d].who = p =>
        PressDecided(carried'[d])
  BY DEF PressesApart, Reached, Decides
<1> QED BY <1>2, <1>3 DEF PressesApart

LEMMA PressBegins ==
  ASSUME AttendanceShape, PressesApart, NEW c \in Requests, NEW q \in Employees, Press(c, q)
  PROVE  PressesApart'
<1>1. /\ stage[c] = "idle" /\ stage'[c] = "punch.settings" /\ carried'[c].who = q
      /\ \A d \in Requests \ {c} : stage'[d] = stage[d] /\ carried'[d] = carried[d]
      /\ records' = records
  BY DEF Press, Reached, GoOn, AttendanceShape, AttendanceTypeOK, NothingCarried
<1>2. pressed \subseteq pressed' /\ (q \notin pressed' => \A d \in Requests : ~Pressing(d, q))
  BY DEF Press, Pressing
<1> SUFFICES ASSUME NEW p \in Employees, p \notin pressed'
             PROVE  /\ \A d, e \in Requests : Pressing(d, p)' /\ Pressing(e, p)' => d = e
                    /\ \A d \in Requests : stage'[d] = "punch.create" /\ carried'[d].who = p =>
                         PressDecided(carried'[d])
                    /\ \A kind \in {"IN", "OUT"} : \A r, s \in Today(p, kind) : r = s
                    /\ \A r \in Today(p, "OUT") : \E i \in Today(p, "IN") : r.at >= i.at + Gap
  BY <1>1 DEF PressesApart, Reached, Decides, PressDecided, MayLeave, Today
<1>3. \A d \in Requests \ {c} : Pressing(d, p)' <=> Pressing(d, p)
  BY <1>1 DEF Pressing
<1>4. Pressing(c, p)' => p = q
  BY <1>1 DEF Pressing
<1>5. \A d, e \in Requests : Pressing(d, p)' /\ Pressing(e, p)' => d = e
  BY <1>2, <1>3, <1>4 DEF PressesApart
<1>6. \A d \in Requests : stage'[d] = "punch.create" /\ carried'[d].who = p =>
        PressDecided(carried'[d])
  BY <1>1, <1>2 DEF PressesApart, Reached, Decides
<1> QED BY <1>2, <1>5, <1>6 DEF PressesApart

LEMMA PressRecorded ==
  ASSUME AttendanceShape, PressesApart, NEW c \in Requests, CreateRecord(c)
  PROVE  PressesApart'
<1> DEFINE new == NewRecord(c)
           w == carried[c].who
<1>1. /\ stage[c] = "punch.create" /\ stage'[c] = "idle" /\ pressed' = pressed
      /\ \A d \in Requests \ {c} : stage'[d] = stage[d] /\ carried'[d] = carried[d]
  BY DEF CreateRecord, Reached, EndRequest, GoOn, AttendanceShape, AttendanceTypeOK
<1>2. /\ new \in Records /\ new.who = w /\ new.kind = carried[c].kind /\ new.at = carried[c].at
      /\ records' = records \union {new}
  BY RecordWritten DEF NewRecord
<1> HIDE DEF new
<1>3. \A p, kind : Today(p, kind)' =
        IF p = w /\ kind = carried[c].kind THEN Today(p, kind) \union {new} ELSE Today(p, kind)
  BY <1>2 DEF Today
<1> SUFFICES ASSUME NEW p \in Employees, p \notin pressed
             PROVE  /\ \A d, e \in Requests : Pressing(d, p)' /\ Pressing(e, p)' => d = e
                    /\ \A d \in Requests : stage'[d] = "punch.create" /\ carried'[d].who = p =>
                         Decides(d)'
                    /\ \A kind \in {"IN", "OUT"} : \A r, s \in Today(p, kind)' : r = s
                    /\ \A r \in Today(p, "OUT")' : \E i \in Today(p, "IN")' : r.at >= i.at + Gap
  BY <1>1 DEF PressesApart, Reached
<1>4. \A d \in Requests : Pressing(d, p)' => d # c /\ Pressing(d, p)
  BY <1>1 DEF Pressing, Presses
<1>5. \A d, e \in Requests : Pressing(d, p)' /\ Pressing(e, p)' => d = e
  BY <1>4 DEF PressesApart
<1>6. CASE p = w
  <2>1. Pressing(c, p) /\ PressDecided(carried[c])
    BY <1>1, <1>6 DEF Pressing, Presses, PressesApart, Reached, Decides
  <2>2. \A d \in Requests : ~Pressing(d, p)'
    BY <1>4, <2>1 DEF PressesApart
  <2>3. \A d \in Requests : ~(stage'[d] = "punch.create" /\ carried'[d].who = p)
    BY <2>2 DEF Pressing, Presses
  <2>4. \A kind \in {"IN", "OUT"} : \A r, s \in Today(p, kind)' : r = s
    <3>1. \A kind \in {"IN", "OUT"} : kind = carried[c].kind => Today(p, kind) = {}
      BY <1>6, <2>1 DEF PressDecided, MayLeave
    <3> QED BY <1>3, <3>1 DEF PressesApart
  <2>5. \A r \in Today(p, "OUT")' : \E i \in Today(p, "IN")' : r.at >= i.at + Gap
    <3>1. Today(p, "IN") \subseteq Today(p, "IN")'
      BY <1>3
    <3>2. ASSUME NEW r \in Today(p, "OUT") PROVE \E i \in Today(p, "IN") : r.at >= i.at + Gap
      BY DEF PressesApart
    <3>3. carried[c].kind = "OUT" => \E i \in Today(p, "IN") : new.at >= i.at + Gap
      BY <1>2, <1>6, <2>1 DEF PressDecided, MayLeave
    <3> QED BY <1>3, <3>1, <3>2, <3>3
  <2> QED BY <1>5, <2>3, <2>4, <2>5
<1>7. CASE p # w
  <2>1. \A kind : Today(p, kind)' = Today(p, kind)
    BY <1>3, <1>7
  <2>2. ASSUME NEW d \in Requests, stage'[d] = "punch.create", carried'[d].who = p
        PROVE  Decides(d)'
    <3>1. d # c /\ PressDecided(carried[d]) /\ carried'[d] = carried[d] /\ carried[d].who = p
      BY <1>1, <2>2 DEF PressesApart, Reached, Decides
    <3> QED BY <2>1, <3>1 DEF Decides, PressDecided, MayLeave
  <2> QED BY <1>5, <2>1, <2>2 DEF PressesApart
<1> QED BY <1>6, <1>7

LEMMA PressesStayApart ==
  AttendanceShape /\ PressesApart /\ [AttendanceNext]_attendanceVars => PressesApart'
<1> SUFFICES ASSUME AttendanceShape, PressesApart, [AttendanceNext]_attendanceVars
             PROVE  PressesApart'
  OBVIOUS
<1> USE DEF AttendanceShape, AttendanceTypeOK
<1>1. ASSUME NEW c \in Requests, NEW point, NEW l, GoOn(c, point, l)
      PROVE  /\ stage'[c] = point /\ carried'[c] = l
             /\ \A d \in Requests \ {c} : stage'[d] = stage[d] /\ carried'[d] = carried[d]
  BY <1>1 DEF GoOn
<1>2. ASSUME NEW c \in Requests, PressStep(c) PROVE PressesApart'
  <2>1. CASE \E p \in Employees : Press(c, p)
    BY <2>1, PressBegins
  <2>2. CASE ReadSettings(c)
    <3>1. GoOn(c, "punch.nets", [carried[c] EXCEPT !.office = config.form # 0])
      BY <2>2 DEF ReadSettings
    <3>2. /\ stage[c] = "punch.settings" /\ stage'[c] = "punch.nets"
          /\ carried'[c].who = carried[c].who
      BY <1>1, <2>2, <3>1 DEF ReadSettings, Reached
    <3> QED BY <1>1, <2>2, <3>1, <3>2, PressesApartMoves DEF ReadSettings, Pressing, Presses
  <2>3. ASSUME NEW from, ReadNets(c, from) PROVE PressesApart'
    <3>1. GoOn(c, "punch.today",
               [carried[c] EXCEPT !.onNet = from \intersect config.nets # {}])
      BY <2>3 DEF ReadNets
    <3>2. /\ stage[c] = "punch.nets" /\ stage'[c] = "punch.today"
          /\ carried'[c].who = carried[c].who
      BY <1>1, <2>3, <3>1 DEF ReadNets, Reached
    <3> QED BY <1>1, <2>3, <3>1, <3>2, PressesApartMoves DEF ReadNets, Pressing, Presses
  <2>4. ASSUME NEW kind \in PressKinds, NEW reading, NEW reason,
               ReadToday(c, kind, reading, reason)
        PROVE  PressesApart'
    <3>1. stage[c] = "punch.today" /\ UNCHANGED <<records, pressed>>
      BY <2>4 DEF ReadToday, Reached
    <3>2. CASE Accepted(carried[c], kind, reading, reason)
      <4> DEFINE l == [carried[c] EXCEPT !.kind = kind]
      <4>1. GoOn(c, "punch.create", l)
        BY <2>4, <3>2 DEF ReadToday
      <4>2. l.who = carried[c].who /\ l.kind = kind /\ l.at = carried[c].at
        OBVIOUS
      <4> HIDE DEF l
      <4>3. PressDecided(l)
        BY <3>2, <4>2 DEF Accepted, PressDecided, MayLeave
      <4>4. /\ stage'[c] = "punch.create" /\ carried'[c] = l
            /\ \A d \in Requests \ {c} : stage'[d] = stage[d] /\ carried'[d] = carried[d]
        BY <1>1, <4>1
      <4>5. Pressing(c, carried'[c].who)
        BY <3>1, <4>2, <4>4 DEF Pressing, Presses
      <4> QED BY <3>1, <4>3, <4>4, <4>5, PressesApartMoves
    <3>3. CASE ~Accepted(carried[c], kind, reading, reason)
      <4>1. GoOn(c, "idle", NothingCarried)
        BY <2>4, <3>3 DEF ReadToday, EndRequest
      <4> QED BY <1>1, <3>1, <4>1, PressesApartMoves DEF Presses
    <3> QED BY <3>2, <3>3
  <2>5. CASE CreateRecord(c)
    BY <2>5, PressRecorded
  <2> QED BY <1>2, <2>1, <2>2, <2>3, <2>4, <2>5 DEF PressStep
<1>3. ASSUME NEW c \in Requests, WriterStep(c) \/ RequestDies(c) PROVE PressesApart'
  <2>1. /\ stage'[c] \notin Presses
        /\ \A d \in Requests \ {c} : stage'[d] = stage[d] /\ carried'[d] = carried[d]
    BY <1>3 DEF WriterStep, SaveSettings, ReadNetsToKeep, WriteSettings, ChangeNets,
      ReadNetsToChange, ReadRow, WriteNets, RequestDies, EndRequest, GoOn, Presses
  <2>2. UNCHANGED <<records, pressed>>
    BY <1>3 DEF WriterStep, SaveSettings, ReadNetsToKeep, WriteSettings, ChangeNets,
      ReadNetsToChange, ReadRow, WriteNets, RequestDies
  <2> QED BY <2>1, <2>2, PressesApartMoves DEF Presses
<1>4. CASE ClockTicks \/ UNCHANGED attendanceVars
  BY <1>4 DEF ClockTicks, attendanceVars, PressesApart, Pressing, Reached, Decides, PressDecided,
    MayLeave, Today
<1> QED BY <1>2, <1>3, <1>4, AttendanceSplit

LEMMA PressesApartAlways == AttendanceSpec => []PressesApart
  BY PressesApartStart, PressesStayApart, AttendanceShaped, PTL DEF AttendanceSpec

(* Sets in which all are the same hold one at most.                        *)
LEMMA OneAtMost ==
  ASSUME NEW S, \A r, s \in S : r = s
  PROVE  Cardinality(S) <= 1
<1>1. CASE S = {}
  BY <1>1, FS_EmptySet
<1>2. CASE S # {}
  <2>1. PICK r : S = {r}
    BY <1>2
  <2> QED BY <2>1, FS_Singleton
<1> QED BY <1>1, <1>2

(* Nobody whose presses follow one another has two INs or OUTs, or an OUT  *)
(* within the hour, whatever becomes of the settings meanwhile.            *)
THEOREM PunchedOnceCorrect == AttendanceSpec => []PunchedOnce
<1>1. PressesApart => PunchedOnce
  BY OneAtMost DEF PressesApart, PunchedOnce
<1> QED BY <1>1, PressesApartAlways, PTL

-----------------------------------------------------------------------------
(* Attendance: the settings row.                                           *)

LEMMA WritersApartStart == AttendanceInit => WritersApart
  BY DEF AttendanceInit, WritersApart, Writers, HasRead, NoRow

(* A writer that begins finds no other, or they are mixed.                 *)
LEMMA WriterBegins ==
  ASSUME AttendanceShape, WritersApart, NEW c \in Requests, Crossing, stage[c] = "idle",
         NEW point \in {"save.nets", "net.read"}, NEW l, GoOn(c, point, l),
         UNCHANGED <<config, form, wanted>>
  PROVE  WritersApart'
<1>1. /\ stage'[c] = point
      /\ \A d \in Requests \ {c} : stage'[d] = stage[d] /\ carried'[d] = carried[d]
  BY DEF GoOn, AttendanceShape, AttendanceTypeOK
<1> SUFFICES ASSUME ~mixed' PROVE WritersApart'
  BY DEF WritersApart
<1>2. ~mixed /\ \A d \in Requests : stage[d] \notin Writers
  BY DEF Crossing
<1>3. \A d, e \in Requests : stage'[d] \in Writers /\ stage'[e] \in Writers => d = e
  BY <1>1, <1>2
<1>4. \A d \in Requests : HasRead(d)'
  BY <1>1, <1>2 DEF HasRead, Writers
<1> QED BY <1>2, <1>3, <1>4 DEF WritersApart

(* One writer goes on, or a request that is none; the row stays.           *)
LEMMA WriterMoves ==
  ASSUME WritersApart, NEW c \in Requests,
         \A d \in Requests \ {c} : stage'[d] = stage[d] /\ carried'[d] = carried[d],
         stage'[c] \in Writers => stage[c] \in Writers,
         ~mixed => HasRead(c)',
         UNCHANGED <<config, form, wanted, mixed>>
  PROVE  WritersApart'
<1> SUFFICES ASSUME ~mixed PROVE WritersApart'
  BY DEF WritersApart
<1>1. \A d, e \in Requests : stage'[d] \in Writers /\ stage'[e] \in Writers => d = e
  BY DEF WritersApart
<1>2. \A d \in Requests : HasRead(d)'
  BY DEF WritersApart, HasRead, NetsAfter
<1> QED BY <1>1, <1>2 DEF WritersApart

(* The one writer writes the row, and is done.                             *)
LEMMA WriterWrites ==
  ASSUME AttendanceShape, WritersApart, NEW c \in Requests, WriteSettings(c) \/ WriteNets(c)
  PROVE  WritersApart'
<1>1. /\ stage[c] \in {"save.write", "net.write"} /\ stage'[c] = "idle" /\ mixed' = mixed
      /\ \A d \in Requests \ {c} : stage'[d] = stage[d]
  BY DEF WriteSettings, WriteNets, Reached, EndRequest, GoOn, AttendanceShape, AttendanceTypeOK
<1> SUFFICES ASSUME ~mixed PROVE WritersApart'
  BY <1>1 DEF WritersApart
<1>2. HasRead(c) /\ config = [form |-> form, nets |-> wanted]
  BY DEF WritersApart
<1>3. \A d \in Requests : stage'[d] \notin Writers
  BY <1>1 DEF WritersApart, Writers
<1>4. config' = [form |-> form', nets |-> wanted']
  <2>1. CASE WriteSettings(c)
    BY <1>2, <2>1 DEF WriteSettings, Reached, HasRead, NetsKept
  <2>2. CASE WriteNets(c)
    BY <1>2, <2>2 DEF WriteNets, Reached, HasRead, NetsAfter
  <2> QED BY <2>1, <2>2
<1>5. \A d \in Requests : HasRead(d)'
  BY <1>3 DEF HasRead, Writers
<1> QED BY <1>3, <1>4, <1>5 DEF WritersApart

LEMMA WritersStayApart ==
  AttendanceShape /\ WritersApart /\ [AttendanceNext]_attendanceVars => WritersApart'
<1> SUFFICES ASSUME AttendanceShape, WritersApart, [AttendanceNext]_attendanceVars
             PROVE  WritersApart'
  OBVIOUS
<1> USE DEF AttendanceShape, AttendanceTypeOK
<1>1. ASSUME NEW c \in Requests, NEW point, NEW l, GoOn(c, point, l)
      PROVE  /\ stage'[c] = point /\ carried'[c] = l
             /\ \A d \in Requests \ {c} : stage'[d] = stage[d] /\ carried'[d] = carried[d]
  BY <1>1 DEF GoOn
<1>2. ASSUME NEW c \in Requests, NEW point, NEW l, GoOn(c, point, l), point \notin Writers,
             UNCHANGED <<config, form, wanted, mixed>>
      PROVE  WritersApart'
  BY <1>1, <1>2, WriterMoves DEF HasRead, Writers
<1>3. ASSUME NEW c \in Requests, PressStep(c) \/ RequestDies(c) PROVE WritersApart'
  <2>1. UNCHANGED <<config, form, wanted, mixed>>
    BY <1>3 DEF PressStep, Press, ReadSettings, ReadNets, ReadToday, CreateRecord, RequestDies
  <2>2. /\ stage'[c] \notin Writers
        /\ \A d \in Requests \ {c} : stage'[d] = stage[d] /\ carried'[d] = carried[d]
    BY <1>3 DEF PressStep, Press, ReadSettings, ReadNets, ReadToday, CreateRecord, RequestDies,
      EndRequest, GoOn, Writers
  <2>3. HasRead(c)'
    BY <2>2 DEF HasRead, Writers
  <2> QED BY <2>1, <2>2, <2>3, WriterMoves
<1>4. ASSUME NEW c \in Requests, WriterStep(c) PROVE WritersApart'
  <2>1. CASE SaveSettings(c)
    BY <2>1, WriterBegins DEF SaveSettings, Reached
  <2>2. ASSUME NEW net, NEW removing, ChangeNets(c, net, removing) PROVE WritersApart'
    BY <2>2, WriterBegins DEF ChangeNets, Reached
  <2>3. CASE ReadNetsToKeep(c)
    <3>1. /\ stage[c] = "save.nets" /\ stage'[c] = "save.write" /\ carried'[c].nets = config.nets
          /\ \A d \in Requests \ {c} : stage'[d] = stage[d] /\ carried'[d] = carried[d]
      BY <1>1, <2>3 DEF ReadNetsToKeep, Reached
    <3> QED BY <2>3, <3>1, WriterMoves DEF ReadNetsToKeep, HasRead, Writers
  <2>4. CASE ReadNetsToChange(c)
    <3> DEFINE l == [carried[c] EXCEPT !.nets = NetsAfter(carried[c])]
    <3>1. stage[c] = "net.read" /\ UNCHANGED <<config, form, wanted, mixed>>
      BY <2>4 DEF ReadNetsToChange, Reached
    <3>2. CASE GoOn(c, "idle", NothingCarried)
      BY <1>2, <3>1, <3>2 DEF Writers
    <3>3. CASE GoOn(c, "net.row", l)
      <4>1. l.nets = NetsAfter(l)
        BY DEF NetsAfter
      <4> HIDE DEF l
      <4>2. /\ stage'[c] = "net.row" /\ carried'[c].nets = NetsAfter(carried'[c])
            /\ \A d \in Requests \ {c} : stage'[d] = stage[d] /\ carried'[d] = carried[d]
        BY <1>1, <3>3, <4>1
      <4>3. HasRead(c)'
        BY <3>1, <4>2 DEF HasRead, NetsAfter
      <4> QED BY <3>1, <4>2, <4>3, WriterMoves DEF Writers
    <3> QED BY <2>4, <3>2, <3>3 DEF ReadNetsToChange, EndRequest
  <2>5. CASE ReadRow(c)
    <3> DEFINE l == [carried[c] EXCEPT !.form = config.form]
    <3>1. stage[c] = "net.row" /\ UNCHANGED <<config, form, wanted, mixed>> /\ GoOn(c, "net.write", l)
      BY <2>5 DEF ReadRow, Reached
    <3>2. l.form = config.form /\ l.nets = carried[c].nets /\ NetsAfter(l) = NetsAfter(carried[c])
      BY DEF NetsAfter
    <3> HIDE DEF l
    <3>3. /\ stage'[c] = "net.write" /\ carried'[c] = l
          /\ \A d \in Requests \ {c} : stage'[d] = stage[d] /\ carried'[d] = carried[d]
      BY <1>1, <3>1
    <3>4. ~mixed => HasRead(c)'
      BY <3>1, <3>2, <3>3 DEF WritersApart, HasRead, NetsAfter
    <3> QED BY <3>1, <3>3, <3>4, WriterMoves DEF Writers
  <2>6. CASE WriteSettings(c) \/ WriteNets(c)
    BY <2>6, WriterWrites
  <2> QED BY <1>4, <2>1, <2>2, <2>3, <2>4, <2>5, <2>6 DEF WriterStep
<1>5. CASE ClockTicks \/ UNCHANGED attendanceVars
  BY <1>5 DEF ClockTicks, attendanceVars, WritersApart, HasRead, NetsAfter
<1> QED BY <1>3, <1>4, <1>5, AttendanceSplit

(* As long as no two writers of the row overlap, it holds the form saved   *)
(* last and every network added and not removed since.                     *)
THEOREM SettingsKeptCorrect == AttendanceSpec => []SettingsKept
<1>1. WritersApart => SettingsKept
  BY DEF WritersApart, SettingsKept
<1> QED
  BY <1>1, WritersApartStart, WritersStayApart, AttendanceShaped, PTL DEF AttendanceSpec

-----------------------------------------------------------------------------
(* The salary sheet.                                                       *)


(* Somebody is employed, and the bounds are numbers.                       *)
Bounds == People # {} /\ MaxChanges \in Nat /\ MaxAdjusts \in Nat

Points ==
  {"idle", "job.find", "job.create", "sheet.read", "sheet.compute", "sheet.save",
   "adjust.read", "adjust.save", "finalize.save", "send.deliver"}

(* The constants the variables start from have the variables' types.       *)
LEMMA Beginnings ==
  ASSUME Bounds
  PROVE  /\ AnyPerson \in People
         /\ NoAdjustments \in Adjustments /\ NoLines \in Lines
         /\ NoSheet \in Sheets /\ NoLocals \in Locals
<1>1. AnyPerson \in People
  BY DEF Bounds, AnyPerson
<1>2. NoAdjustments \in Adjustments
  BY DEF Bounds, Adjustments, NoAdjustments
<1>3. NoLines \in Lines
  BY <1>2 DEF Bounds, Lines, NoLines
<1>4. NoSheet \in Sheets
  BY <1>2, <1>3 DEF Sheets, NoSheet
<1>5. NoLocals \in Locals
  BY <1>1, <1>3, <1>4 DEF NoLocals, Locals, Kinds
<1>6. QED
  BY <1>1, <1>2, <1>3, <1>4, <1>5

(* A call that goes on to a point of the code, with locals of their type.  *)
LEMMA GoTyped ==
  ASSUME TypeOK, NEW c \in Calls, NEW point \in Points, NEW l \in Locals, Go(c, point, l)
  PROVE  pc' \in [Calls -> Points] /\ local' \in [Calls -> Locals]
  BY DEF TypeOK, Go, Points

(* The sheet, the slips and the calls start in their types.                *)
LEMMA TypeInit == ASSUME Bounds PROVE Init => TypeOK
<1> SUFFICES ASSUME Init PROVE TypeOK
  OBVIOUS
<1>1. NoLines \in Lines /\ NoSheet \in Sheets /\ NoLocals \in Locals
  BY Beginnings
<1>2. facts \in 0..MaxChanges /\ adjusts \in 0..MaxAdjusts
  BY DEF Init, Bounds
<1>3. sheet \in Sheets /\ claimed \in BOOLEAN /\ straddled \in BOOLEAN
  BY <1>1, Zenon DEF Init
<1>4. slips \in [People -> [sent : BOOLEAN, line : Lines]]
  BY <1>1 DEF Init
<1>5. pc \in [Calls -> Points] /\ local \in [Calls -> Locals]
  BY <1>1 DEF Init, Points
<1>6. QED
  BY <1>2, <1>3, <1>4, <1>5 DEF TypeOK, Points

(* Every statement of every call keeps the types.                          *)
LEMMA TypeStep ==
  ASSUME Bounds, TypeOK, [Next]_vars
  PROVE  TypeOK'
<1>1. /\ facts \in 0..MaxChanges /\ sheet \in Sheets /\ claimed \in BOOLEAN
      /\ slips \in [People -> [sent : BOOLEAN, line : Lines]]
      /\ pc \in [Calls -> Points] /\ local \in [Calls -> Locals]
      /\ adjusts \in 0..MaxAdjusts /\ straddled \in BOOLEAN
  BY DEF TypeOK, Points
<1>2. SUFFICES /\ facts' \in 0..MaxChanges /\ sheet' \in Sheets /\ claimed' \in BOOLEAN
               /\ slips' \in [People -> [sent : BOOLEAN, line : Lines]]
               /\ pc' \in [Calls -> Points] /\ local' \in [Calls -> Locals]
               /\ adjusts' \in 0..MaxAdjusts /\ straddled' \in BOOLEAN
  BY DEF TypeOK, Points
<1>3. ASSUME NEW c \in Calls, Finish(c)
      PROVE  pc' \in [Calls -> Points] /\ local' \in [Calls -> Locals]
  BY <1>3, Beginnings, GoTyped DEF Finish, Points
<1>4. CASE FactsChange
  BY <1>1, <1>4 DEF FactsChange, Bounds
<1>5. ASSUME NEW c \in Calls, NEW kind \in Kinds, NEW p \in People, Start(c, kind, p)
      PROVE  TypeOK'
  <2>1. [NoLocals EXCEPT !.kind = kind, !.person = p] \in Locals
    BY Beginnings DEF Locals
  <2>2. FirstOf(kind) \in Points
    BY DEF FirstOf, Points, Kinds
  <2>3. pc' \in [Calls -> Points] /\ local' \in [Calls -> Locals]
    BY <1>5, <2>1, <2>2, GoTyped DEF Start
  <2>4. adjusts' \in 0..MaxAdjusts
    BY <1>1, <1>5 DEF Start, Bounds
  <2>5. QED
    BY <1>1, <1>5, <2>3, <2>4 DEF Start, TypeOK, Points
<1>6. ASSUME NEW c \in Calls, JobFinds(c) PROVE TypeOK'
  <2>1. pc' \in [Calls -> Points] /\ local' \in [Calls -> Locals]
    BY <1>1, <1>3, <1>6, GoTyped DEF JobFinds, Points
  <2>2. QED
    BY <1>1, <1>6, <2>1 DEF JobFinds, Quietly, TypeOK, Points
<1>7. ASSUME NEW c \in Calls, JobClaims(c) PROVE TypeOK'
  <2>1. pc' \in [Calls -> Points] /\ local' \in [Calls -> Locals]
    BY <1>1, <1>3, <1>7, GoTyped DEF JobClaims, Points
  <2>2. QED
    BY <1>1, <1>7, <2>1 DEF JobClaims, Quietly, TypeOK, Points
<1>8. ASSUME NEW c \in Calls, ReadSheet(c) PROVE TypeOK'
  <2>1. [local[c] EXCEPT !.read = sheet] \in Locals
    BY <1>1 DEF Locals
  <2>2. pc' \in [Calls -> Points] /\ local' \in [Calls -> Locals]
    BY <1>3, <1>8, <2>1, GoTyped DEF ReadSheet, AfterLocked, Points
  <2>3. QED
    BY <1>1, <1>8, <2>2 DEF ReadSheet, Quietly, TypeOK, Points
<1>9. ASSUME NEW c \in Calls, Compute(c) PROVE TypeOK'
  <2>1. local[c].read.adjustments \in Adjustments
    BY <1>1 DEF Locals, Sheets
  <2>2. [facts |-> facts, adjusted |-> local[c].read.adjustments] \in Lines
    BY <1>1, <2>1 DEF Lines
  <2>3. [local[c] EXCEPT !.lines = [facts |-> facts, adjusted |-> local[c].read.adjustments]]
          \in Locals
    BY <1>1, <2>2 DEF Locals
  <2>4. pc' \in [Calls -> Points] /\ local' \in [Calls -> Locals]
    BY <1>9, <2>3, GoTyped DEF Compute, Points
  <2>5. QED
    BY <1>1, <1>9, <2>4 DEF Compute, Quietly, TypeOK, Points
<1>10. ASSUME NEW c \in Calls, SaveSheet(c) PROVE TypeOK'
  <2>1. local[c] \in Locals /\ local[c].lines \in Lines /\ local[c].read.adjustments \in Adjustments
    BY <1>1 DEF Locals, Sheets
  <2>2. sheet' \in Sheets
    BY <1>1, <1>10, <2>1, Beginnings DEF SaveSheet, Sheets
  <2>3. pc' \in [Calls -> Points] /\ local' \in [Calls -> Locals]
    BY <1>3, <1>10, <2>1, GoTyped DEF SaveSheet, AfterDraft, Points
  <2>4. QED
    BY <1>1, <1>10, <2>2, <2>3 DEF SaveSheet, Quietly, TypeOK, Points
<1>11. ASSUME NEW c \in Calls, ReadForAdjust(c) PROVE TypeOK'
  <2>1. [local[c] EXCEPT !.read = sheet] \in Locals
    BY <1>1 DEF Locals
  <2>2. pc' \in [Calls -> Points] /\ local' \in [Calls -> Locals]
    BY <1>3, <1>11, <2>1, GoTyped DEF ReadForAdjust, Points
  <2>3. QED
    BY <1>1, <1>11, <2>2 DEF ReadForAdjust, Quietly, TypeOK, Points
<1>12. ASSUME NEW c \in Calls, SaveAdjustment(c) PROVE TypeOK'
  <2> DEFINE map == [local[c].read.adjustments EXCEPT ![local[c].person] = adjusts]
  <2>1. local[c] \in Locals /\ local[c].read.adjustments \in Adjustments
    BY <1>1 DEF Locals, Sheets
  <2>2. map \in Adjustments
    BY <1>1, <2>1 DEF Adjustments
  <2>3. sheet' \in Sheets
    BY <1>1, <1>12, <2>2, Beginnings DEF SaveAdjustment, Sheets
  <2>4. [local[c] EXCEPT !.read = NoSheet] \in Locals
    BY <2>1, Beginnings DEF Locals
  <2>5. pc' \in [Calls -> Points] /\ local' \in [Calls -> Locals]
    BY <1>12, <2>4, GoTyped DEF SaveAdjustment, Points
  <2>6. straddled' \in BOOLEAN
    BY <1>12 DEF SaveAdjustment
  <2>7. QED
    BY <1>1, <1>12, <2>3, <2>5, <2>6 DEF SaveAdjustment, Quietly, TypeOK, Points
<1>13. ASSUME NEW c \in Calls, SaveFinal(c) PROVE TypeOK'
  <2>1. sheet' \in Sheets
    BY <1>1, <1>13 DEF SaveFinal, Sheets, Locals
  <2>2. pc' \in [Calls -> Points] /\ local' \in [Calls -> Locals]
    BY <1>3, <1>13 DEF SaveFinal
  <2>3. straddled' \in BOOLEAN
    BY <1>13 DEF SaveFinal
  <2>4. QED
    BY <1>1, <1>13, <2>1, <2>2, <2>3 DEF SaveFinal, Quietly, TypeOK, Points
<1>14. ASSUME NEW c \in Calls, NEW delivered \in BOOLEAN, Deliver(c, delivered) PROVE TypeOK'
  <2>1. local[c].person \in People /\ local[c].read.lines \in Lines
    BY <1>1 DEF Locals, Sheets
  <2>2. slips' \in [People -> [sent : BOOLEAN, line : Lines]]
    BY <1>1, <1>14, <2>1 DEF Deliver
  <2>3. pc' \in [Calls -> Points] /\ local' \in [Calls -> Locals]
    BY <1>3, <1>14 DEF Deliver
  <2>4. QED
    BY <1>1, <1>14, <2>2, <2>3 DEF Deliver, Quietly, TypeOK, Points
<1>15. ASSUME NEW c \in Calls, Dies(c) PROVE TypeOK'
  <2>1. pc' \in [Calls -> Points] /\ local' \in [Calls -> Locals]
    BY <1>3, <1>15 DEF Dies
  <2>2. QED
    BY <1>1, <1>15, <2>1 DEF Dies, Quietly, TypeOK, Points
<1>16. CASE UNCHANGED vars
  BY <1>1, <1>16 DEF vars
<1>17. QED
  BY <1>2, <1>4, <1>5, <1>6, <1>7, <1>8, <1>9, <1>10, <1>11, <1>12, <1>13, <1>14, <1>15, <1>16
     DEF Next, TypeOK, Points

(* Rows, locals and slips keep their shapes, however the calls interleave. *)
THEOREM PayrollTypeCorrect == ASSUME Bounds PROVE Spec => []TypeOK
<1>1. Init => TypeOK
  BY TypeInit
<1>2. TypeOK /\ [Next]_vars => TypeOK'
  BY TypeStep
<1>3. QED
  BY <1>1, <1>2, PTL DEF Spec

-----------------------------------------------------------------------------
(* The inductive invariant.                                                *)

(* No call goes on from an unlocked sheet once it is locked, ...           *)
Unlocked ==
  sheet.status = "FINAL" /\ ~straddled => \A c \in Calls : ~HoldsUnlocked(c)

(* ... a call that found no row knows so, as long as there is none, ...    *)
NewSheet ==
  sheet.status = "none" =>
    /\ sheet = NoSheet
    /\ \A c \in Calls :
         pc[c] \in {"sheet.compute", "sheet.save", "adjust.save"} => local[c].read = NoSheet

(* ... what finalize is about to lock has the adjustments of the row, ...  *)
LockingInStep ==
  ~straddled => \A c \in Calls : local[c].kind = "finalize" =>
    /\ pc[c] = "sheet.compute" => local[c].read.adjustments = sheet.adjustments
    /\ pc[c] \in {"sheet.save", "finalize.save"} =>
         local[c].lines.adjusted = sheet.adjustments
OnlyFinalize == \A c \in Calls : pc[c] = "finalize.save" => local[c].kind = "finalize"

(* ... so what is locked has them too, and a slip is of what is locked.    *)
LockedInStep == ~straddled /\ sheet.status = "FINAL" => sheet.lines.adjusted = sheet.adjustments
Delivering ==
  ~straddled => \A c \in Calls :
    pc[c] = "send.deliver" => sheet.status = "FINAL" /\ local[c].read = sheet

IInv ==
  /\ TypeOK /\ Unlocked /\ NewSheet /\ LockingInStep /\ OnlyFinalize
  /\ LockedInStep /\ Delivering /\ SlipsTrue

(* There is no sheet, and nothing held, at the start.                      *)
LEMMA InvInit == ASSUME Bounds PROVE Init => IInv
<1> SUFFICES ASSUME Init PROVE IInv
  OBVIOUS
<1>1. TypeOK
  BY TypeInit
<1>2. Unlocked /\ LockedInStep
  BY DEF Init, NoSheet, Unlocked, LockedInStep
<1>3. NewSheet /\ LockingInStep /\ OnlyFinalize /\ Delivering
  BY DEF Init, NoSheet, NewSheet, LockingInStep, OnlyFinalize, Delivering
<1>4. SlipsTrue
  BY DEF Init, SlipsTrue
<1>5. QED
  BY <1>1, <1>2, <1>3, <1>4 DEF IInv

(* Where the calls are after one of them went on.                          *)
LEMMA GoMoves ==
  ASSUME TypeOK, NEW c \in Calls, NEW point, NEW l, Go(c, point, l)
  PROVE  /\ pc'[c] = point /\ local'[c] = l
         /\ \A d \in Calls \ {c} : pc'[d] = pc[d] /\ local'[d] = local[d]
  BY DEF TypeOK, Go

(* The parts of the invariant about the row and the slips alone.           *)
Rows == LockedInStep /\ SlipsTrue

(* The parts about the calls, of one call.                                 *)
CallOK(c) ==
  /\ sheet.status = "FINAL" /\ ~straddled => ~HoldsUnlocked(c)
  /\ sheet.status = "none" /\ pc[c] \in {"sheet.compute", "sheet.save", "adjust.save"} =>
       local[c].read = NoSheet
  /\ ~straddled /\ local[c].kind = "finalize" =>
       /\ pc[c] = "sheet.compute" => local[c].read.adjustments = sheet.adjustments
       /\ pc[c] \in {"sheet.save", "finalize.save"} =>
            local[c].lines.adjusted = sheet.adjustments
  /\ pc[c] = "finalize.save" => local[c].kind = "finalize"
  /\ ~straddled /\ pc[c] = "send.deliver" => sheet.status = "FINAL" /\ local[c].read = sheet

(* The invariant, read call by call.                                       *)
LEMMA ByCalls ==
  IInv <=> /\ TypeOK /\ Rows /\ (sheet.status = "none" => sheet = NoSheet)
           /\ \A c \in Calls : CallOK(c)
  BY Zenon DEF IInv, Rows, CallOK, Unlocked, NewSheet, LockingInStep, OnlyFinalize, Delivering

(* A step that leaves the row alone keeps the invariant of the other calls. *)
LEMMA OtherCalls ==
  ASSUME IInv, NEW c \in Calls, NEW point, NEW l, Go(c, point, l),
         UNCHANGED <<sheet, straddled>>
  PROVE  \A d \in Calls \ {c} : CallOK(d)'
<1> SUFFICES ASSUME NEW d \in Calls \ {c} PROVE CallOK(d)'
  OBVIOUS
<1>1. pc'[d] = pc[d] /\ local'[d] = local[d] /\ CallOK(d)
  BY GoMoves, ByCalls DEF IInv
<1>2. QED
  BY <1>1 DEF CallOK, HoldsUnlocked

(* ... and of all calls, if the one that moves ends.                       *)
LEMMA Ending ==
  ASSUME IInv, NEW c \in Calls, Finish(c), UNCHANGED <<sheet, straddled>>
  PROVE  \A d \in Calls : CallOK(d)'
<1>1. pc'[c] = "idle" /\ CallOK(c)'
  BY GoMoves DEF Finish, IInv, CallOK, HoldsUnlocked
<1>2. QED
  BY <1>1, OtherCalls DEF Finish

(* ByCalls, read from right to left in the state after a step.             *)
LEMMA Assembled ==
  ASSUME TypeOK', Rows', (sheet.status = "none" => sheet = NoSheet)',
         \A c \in Calls : CallOK(c)'
  PROVE  IInv'
  BY Zenon DEF IInv, Rows, CallOK, Unlocked, NewSheet, LockingInStep, OnlyFinalize, Delivering

(* A step that leaves the row and the slips alone has only calls to look at. *)
LEMMA RowsKept ==
  ASSUME Bounds, IInv, [Next]_vars, UNCHANGED <<sheet, straddled, slips>>,
         \A c \in Calls : CallOK(c)'
  PROVE  IInv'
<1>1. TypeOK'
  BY TypeStep DEF IInv
<1>2. Rows'
  BY DEF IInv, Rows, LockedInStep, SlipsTrue
<1>3. (sheet.status = "none" => sheet = NoSheet)'
  BY DEF IInv, NewSheet
<1>4. QED
  BY <1>1, <1>2, <1>3, Assembled

(* A call that holds an unlocked sheet finds it unlocked, or has straddled. *)
LEMMA NotFinal ==
  ASSUME IInv, NEW c \in Calls, HoldsUnlocked(c), ~straddled
  PROVE  sheet.status # "FINAL" /\ (\A p \in People : ~slips[p].sent)
         /\ \A d \in Calls : pc[d] # "send.deliver"
  BY DEF IInv, Unlocked, Delivering, SlipsTrue

(* A call that starts holds nothing yet.                                   *)
LEMMA StartStep ==
  ASSUME Bounds, IInv, [Next]_vars, NEW c \in Calls, NEW kind \in Kinds, NEW p \in People,
         Start(c, kind, p)
  PROVE  IInv'
<1> DEFINE l == [NoLocals EXCEPT !.kind = kind, !.person = p]
<1>1. Go(c, FirstOf(kind), l) /\ UNCHANGED <<sheet, straddled, slips>>
  BY DEF Start
<1>2. pc'[c] = FirstOf(kind)
  BY <1>1, GoMoves DEF IInv
<1>3. pc'[c] \in {"sheet.read", "adjust.read", "job.find"}
  BY <1>2 DEF FirstOf, Kinds
<1>4. CallOK(c)'
  BY <1>3 DEF CallOK, HoldsUnlocked
<1>5. QED
  BY <1>1, <1>4, OtherCalls, RowsKept

(* The job looks for the month and claims it, and holds no sheet.          *)
LEMMA JobStep ==
  ASSUME Bounds, IInv, [Next]_vars, NEW c \in Calls, JobFinds(c) \/ JobClaims(c)
  PROVE  IInv'
<1>1. UNCHANGED <<sheet, straddled, slips>>
  BY DEF JobFinds, JobClaims
<1>2. CASE Finish(c)
  BY <1>1, <1>2, Ending, RowsKept
<1>3. ASSUME NEW point \in {"job.create", "sheet.read"}, Go(c, point, local[c])
      PROVE  IInv'
  <2>1. pc'[c] \in {"job.create", "sheet.read"}
    BY <1>3, GoMoves DEF IInv
  <2>2. CallOK(c)'
    BY <2>1 DEF CallOK, HoldsUnlocked
  <2>3. QED
    BY <1>1, <1>3, <2>2, OtherCalls, RowsKept
<1>4. QED
  BY <1>2, <1>3 DEF JobFinds, JobClaims

(* A call that reads the sheet goes on only with what it read.             *)
LEMMA ReadSheetStep ==
  ASSUME Bounds, IInv, [Next]_vars, NEW c \in Calls, ReadSheet(c)
  PROVE  IInv'
<1> DEFINE l == [local[c] EXCEPT !.read = sheet]
<1>1. UNCHANGED <<sheet, straddled, slips>>
  BY DEF ReadSheet
<1>2. CASE Finish(c)
  BY <1>1, <1>2, Ending, RowsKept
<1>3. local[c] \in Locals
  BY DEF IInv, TypeOK
<1>4. l.read = sheet /\ l.kind = local[c].kind
  BY <1>3 DEF Locals
<1>5. CASE sheet.status = "FINAL" /\ local[c].kind = "send" /\ Go(c, "send.deliver", l)
  <2>1. pc'[c] = "send.deliver" /\ local'[c] = l
    BY <1>5, GoMoves DEF IInv
  <2>2. CallOK(c)'
    BY <1>1, <1>4, <1>5, <2>1 DEF CallOK, HoldsUnlocked
  <2>3. QED
    BY <1>1, <1>5, <2>2, OtherCalls, RowsKept
<1>6. CASE sheet.status # "FINAL" /\ Go(c, "sheet.compute", l)
  <2>1. pc'[c] = "sheet.compute" /\ local'[c] = l
    BY <1>6, GoMoves DEF IInv
  <2>2. sheet.status = "none" => sheet = NoSheet
    BY DEF IInv, NewSheet
  <2>3. CallOK(c)'
    BY <1>1, <1>4, <1>6, <2>1, <2>2 DEF CallOK, HoldsUnlocked
  <2>4. QED
    BY <1>1, <1>6, <2>3, OtherCalls, RowsKept
<1>7. QED
  BY <1>2, <1>5, <1>6 DEF ReadSheet, AfterLocked, Locked

(* The lines are computed with the adjustments that were read.             *)
LEMMA ComputeStep ==
  ASSUME Bounds, IInv, [Next]_vars, NEW c \in Calls, Compute(c)
  PROVE  IInv'
<1> DEFINE drawn == [facts |-> facts, adjusted |-> local[c].read.adjustments]
           l == [local[c] EXCEPT !.lines = drawn]
<1>1. UNCHANGED <<sheet, straddled, slips>> /\ pc[c] = "sheet.compute"
      /\ Go(c, "sheet.save", l)
  BY DEF Compute, At
<1>2. local[c] \in Locals
  BY DEF IInv, TypeOK
<1>3. l.lines = drawn /\ l.read = local[c].read /\ l.kind = local[c].kind
  BY <1>2 DEF Locals
<1>4. l.lines.adjusted = local[c].read.adjustments
  BY <1>3
<1>5. pc'[c] = "sheet.save" /\ local'[c] = l
  BY <1>1, GoMoves DEF IInv
<1>6. CallOK(c)
  BY ByCalls
<1>7. CallOK(c)'
  <2> HIDE DEF l
  <2> QED
    BY <1>1, <1>3, <1>4, <1>5, <1>6 DEF CallOK, HoldsUnlocked
<1>8. QED
  BY <1>1, <1>7, OtherCalls, RowsKept

(* An adjustment is refused if the sheet it reads is locked.               *)
LEMMA ReadForAdjustStep ==
  ASSUME Bounds, IInv, [Next]_vars, NEW c \in Calls, ReadForAdjust(c)
  PROVE  IInv'
<1> DEFINE l == [local[c] EXCEPT !.read = sheet]
<1>1. UNCHANGED <<sheet, straddled, slips>>
  BY DEF ReadForAdjust
<1>2. CASE Finish(c)
  BY <1>1, <1>2, Ending, RowsKept
<1>3. CASE sheet.status # "FINAL" /\ Go(c, "adjust.save", l)
  <2>1. local[c] \in Locals
    BY DEF IInv, TypeOK
  <2>2. l.read = sheet
    BY <2>1 DEF Locals
  <2>3. pc'[c] = "adjust.save" /\ local'[c] = l
    BY <1>3, GoMoves DEF IInv
  <2>4. sheet.status = "none" => sheet = NoSheet
    BY DEF IInv, NewSheet
  <2>5. CallOK(c)'
    BY <1>1, <1>3, <2>2, <2>3, <2>4 DEF CallOK, HoldsUnlocked
  <2>6. QED
    BY <1>1, <1>3, <2>5, OtherCalls, RowsKept
<1>4. QED
  BY <1>2, <1>3 DEF ReadForAdjust, Locked

(* Saving the lines leaves the adjustments alone: a new row starts with    *)
(* those of no row.                                                        *)
LEMMA SaveSheetStep ==
  ASSUME Bounds, IInv, [Next]_vars, NEW c \in Calls, SaveSheet(c)
  PROVE  IInv'
<1>1. UNCHANGED <<straddled, slips>> /\ pc[c] = "sheet.save" /\ HoldsUnlocked(c)
  BY DEF SaveSheet, At, HoldsUnlocked
<1>2. sheet \in Sheets /\ local[c] \in Locals /\ NoSheet \in Sheets
  BY Beginnings DEF IInv, TypeOK
<1>3. CallOK(c) /\ (sheet.status = "none" => sheet = NoSheet)
  BY ByCalls
<1>4. /\ sheet.status = "none" =>
           sheet'.status = "DRAFT" /\ sheet'.adjustments = local[c].read.adjustments
      /\ sheet.status # "none" =>
           sheet'.status = sheet.status /\ sheet'.adjustments = sheet.adjustments
  BY <1>2 DEF SaveSheet, Sheets
<1>5. sheet.status = "none" => local[c].read = sheet
  BY <1>1, <1>3 DEF CallOK
<1>6. sheet'.adjustments = sheet.adjustments /\ sheet'.status # "none"
  BY <1>4, <1>5
<1>7. ~straddled' => sheet.status # "FINAL" /\ sheet'.status # "FINAL"
                     /\ (\A p \in People : ~slips'[p].sent)
                     /\ \A d \in Calls : pc[d] # "send.deliver"
  BY <1>1, <1>4, NotFinal
<1>8. ASSUME NEW d \in Calls \ {c}, pc'[d] = pc[d], local'[d] = local[d]
      PROVE  CallOK(d)'
  <2>1. CallOK(d)
    BY ByCalls
  <2>2. QED
    BY <1>1, <1>6, <1>7, <1>8, <2>1 DEF CallOK, HoldsUnlocked
<1>9. Finish(c) \/ (local[c].kind = "finalize" /\ Go(c, "finalize.save", local[c]))
  <2>1. AfterDraft(local[c].kind) = "idle"
    BY DEF AfterDraft
  <2>2. QED
    BY <2>1, Zenon DEF SaveSheet
<1>10. \A d \in Calls \ {c} : pc'[d] = pc[d] /\ local'[d] = local[d]
  BY <1>9, GoMoves DEF Finish, IInv
<1>11. CallOK(c)'
  <2>1. CASE Finish(c)
    <3>1. pc'[c] = "idle"
      BY <2>1, GoMoves DEF Finish, IInv
    <3>2. QED
      BY <3>1 DEF CallOK, HoldsUnlocked
  <2>2. CASE local[c].kind = "finalize" /\ Go(c, "finalize.save", local[c])
    <3>1. pc'[c] = "finalize.save" /\ local'[c] = local[c]
      BY <2>2, GoMoves DEF IInv
    <3>2. QED
      BY <1>1, <1>3, <1>6, <1>7, <2>2, <3>1 DEF CallOK, HoldsUnlocked
  <2>3. QED
    BY <1>9, <2>1, <2>2
<1>12. Rows'
  BY <1>7 DEF Rows, LockedInStep, SlipsTrue
<1>13. QED
  BY <1>6, <1>8, <1>10, <1>11, <1>12, TypeStep, Assembled DEF IInv

(* An adjustment written to a locked sheet has straddled the locking.      *)
LEMMA SaveAdjustmentStep ==
  ASSUME Bounds, IInv, [Next]_vars, NEW c \in Calls, SaveAdjustment(c)
  PROVE  IInv'
<1> DEFINE l == [local[c] EXCEPT !.read = NoSheet]
<1>1. UNCHANGED slips /\ pc[c] = "adjust.save" /\ HoldsUnlocked(c) /\ Go(c, "sheet.read", l)
  BY DEF SaveAdjustment, At, HoldsUnlocked
<1>2. sheet \in Sheets /\ NoSheet \in Sheets
  BY Beginnings DEF IInv, TypeOK
<1>3. ~straddled' => ~straddled /\ \A d \in Calls : ~Locking(d)
  BY DEF SaveAdjustment, IInv, TypeOK
<1>4. /\ sheet.status = "none" => sheet'.status = "DRAFT"
      /\ sheet.status # "none" => sheet'.status = sheet.status
  BY <1>2 DEF SaveAdjustment, Sheets
<1>5. ~straddled' => sheet'.status # "FINAL"
                     /\ (\A p \in People : ~slips'[p].sent)
                     /\ \A d \in Calls : pc[d] # "send.deliver"
  BY <1>1, <1>3, <1>4, NotFinal
<1>6. pc'[c] = "sheet.read" /\ \A d \in Calls \ {c} : pc'[d] = pc[d] /\ local'[d] = local[d]
  BY <1>1, GoMoves DEF IInv
<1>7. CallOK(c)'
  BY <1>6 DEF CallOK, HoldsUnlocked
<1>8. ASSUME NEW d \in Calls \ {c} PROVE CallOK(d)'
  <2>1. CallOK(d) /\ pc'[d] = pc[d] /\ local'[d] = local[d]
    BY <1>6, ByCalls
  <2>2. ~straddled' => ~(local[d].kind = "finalize" /\ HoldsUnlocked(d))
    BY <1>3 DEF Locking
  <2>3. sheet'.status # "none"
    BY <1>4
  <2>4. QED
    BY <1>5, <2>1, <2>2, <2>3 DEF CallOK, HoldsUnlocked
<1>9. Rows' /\ sheet'.status # "none"
  BY <1>4, <1>5 DEF Rows, LockedInStep, SlipsTrue
<1>10. QED
  BY <1>7, <1>8, <1>9, TypeStep, Assembled DEF IInv

(* Locking: whoever still holds the sheet unlocked will straddle.          *)
LEMMA SaveFinalStep ==
  ASSUME Bounds, IInv, [Next]_vars, NEW c \in Calls, SaveFinal(c)
  PROVE  IInv'
<1>1. UNCHANGED slips /\ pc[c] = "finalize.save" /\ HoldsUnlocked(c) /\ Finish(c)
  BY DEF SaveFinal, At, HoldsUnlocked
<1>2. ~straddled' => ~straddled /\ \A d \in Calls \ {c} : ~HoldsUnlocked(d)
  BY DEF SaveFinal, IInv, TypeOK
<1>3. sheet'.status = "FINAL" /\ sheet'.lines = local[c].lines
      /\ sheet'.adjustments = sheet.adjustments
  BY DEF SaveFinal, IInv, TypeOK, Sheets
<1>4. ~straddled' => (\A p \in People : ~slips'[p].sent)
                     /\ \A d \in Calls : pc[d] # "send.deliver"
  BY <1>1, <1>2, NotFinal
<1>5. ~straddled' => local[c].lines.adjusted = sheet.adjustments
  BY <1>1, <1>2 DEF IInv, LockingInStep, OnlyFinalize
<1>6. pc'[c] = "idle" /\ \A d \in Calls \ {c} : pc'[d] = pc[d] /\ local'[d] = local[d]
  BY <1>1, GoMoves DEF Finish, IInv
<1>7. CallOK(c)'
  BY <1>6 DEF CallOK, HoldsUnlocked
<1>8. ASSUME NEW d \in Calls \ {c} PROVE CallOK(d)'
  <2>1. CallOK(d) /\ pc'[d] = pc[d] /\ local'[d] = local[d]
    BY <1>6, ByCalls
  <2>2. ~straddled' => ~HoldsUnlocked(d)
    BY <1>2
  <2>3. QED
    BY <1>3, <1>4, <2>1, <2>2 DEF CallOK, HoldsUnlocked
<1>9. Rows' /\ sheet'.status # "none"
  BY <1>3, <1>4, <1>5 DEF Rows, LockedInStep, SlipsTrue
<1>10. QED
  BY <1>7, <1>8, <1>9, TypeStep, Assembled DEF IInv

(* The slip tells what the call read of a locked sheet.                    *)
LEMMA DeliverStep ==
  ASSUME Bounds, IInv, [Next]_vars, NEW c \in Calls, NEW delivered \in BOOLEAN,
         Deliver(c, delivered)
  PROVE  IInv'
<1>1. UNCHANGED <<sheet, straddled>> /\ pc[c] = "send.deliver" /\ Finish(c)
  BY DEF Deliver, At
<1>2. \A d \in Calls : CallOK(d)'
  BY <1>1, Ending
<1>3. ~straddled => sheet.status = "FINAL" /\ local[c].read.lines = sheet.lines
                    /\ sheet.lines.adjusted = sheet.adjustments
  BY <1>1 DEF IInv, Delivering, LockedInStep
<1>4. ASSUME NEW p \in People
      PROVE  slips'[p] = slips[p]
             \/ slips'[p] = [sent |-> TRUE, line |-> local[c].read.lines]
  BY DEF Deliver, IInv, TypeOK
<1>5. SlipsTrue'
  <2> SUFFICES ASSUME ~straddled, NEW p \in People, slips'[p].sent
               PROVE  /\ sheet.status = "FINAL" /\ slips'[p].line = sheet.lines
                      /\ sheet.lines.adjusted = sheet.adjustments
    BY <1>1 DEF SlipsTrue
  <2>1. CASE slips'[p] = slips[p]
    BY <2>1 DEF IInv, SlipsTrue
  <2>2. CASE slips'[p] = [sent |-> TRUE, line |-> local[c].read.lines]
    BY <1>3, <2>2
  <2>3. QED
    BY <1>4, <2>1, <2>2
<1>6. Rows' /\ (sheet.status = "none" => sheet = NoSheet)'
  BY <1>1, <1>5 DEF Rows, IInv, LockedInStep, NewSheet
<1>7. QED
  BY <1>2, <1>6, TypeStep, Assembled DEF IInv

(* Every step, of any call, keeps the invariant.                           *)
LEMMA InvStep == ASSUME Bounds, IInv, [Next]_vars PROVE IInv'
<1>1. CASE FactsChange
  <2>1. UNCHANGED <<sheet, straddled, slips, pc, local>>
    BY <1>1 DEF FactsChange
  <2>2. ASSUME NEW c \in Calls PROVE CallOK(c)'
    <3>1. CallOK(c)
      BY ByCalls
    <3>2. QED
      BY <2>1, <3>1 DEF CallOK, HoldsUnlocked
  <2>3. QED
    BY <2>1, <2>2, RowsKept
<1>2. CASE UNCHANGED vars
  <2>1. UNCHANGED <<sheet, straddled, slips, pc, local>>
    BY <1>2 DEF vars
  <2>2. ASSUME NEW c \in Calls PROVE CallOK(c)'
    <3>1. CallOK(c)
      BY ByCalls
    <3>2. QED
      BY <2>1, <3>1 DEF CallOK, HoldsUnlocked
  <2>3. QED
    BY <2>1, <2>2, RowsKept
<1>3. ASSUME NEW c \in Calls, Dies(c) PROVE IInv'
  BY <1>3, Ending, RowsKept DEF Dies
<1>4. QED
  BY <1>1, <1>2, <1>3, StartStep, JobStep, ReadSheetStep, ComputeStep, ReadForAdjustStep,
     SaveSheetStep, SaveAdjustmentStep, SaveFinalStep, DeliverStep DEF Next

(* A slip that went out tells what the locked sheet says, with every       *)
(* adjustment in it, unless a call straddled the locking.                  *)
THEOREM SlipsCorrect == ASSUME Bounds PROVE Spec => []SlipsTrue
<1>1. Init => IInv
  BY InvInit
<1>2. IInv /\ [Next]_vars => IInv'
  BY InvStep
<1>3. IInv => SlipsTrue
  BY DEF IInv
<1>4. QED
  BY <1>1, <1>2, <1>3, PTL DEF Spec

(* Whoever writes the sheet held it unlocked.                              *)
LEMMA LockedKept == ASSUME IInv, [Next]_vars PROVE [FinalStep]_vars
<1> SUFFICES ASSUME sheet.status = "FINAL", ~straddled' PROVE sheet' = sheet
  BY DEF FinalStep
<1>1. ~straddled
  BY DEF IInv, TypeOK, Next, vars, FactsChange, Start, JobFinds, JobClaims, ReadSheet, Compute,
     SaveSheet, ReadForAdjust, SaveAdjustment, SaveFinal, Deliver, Dies
<1>2. \A c \in Calls : ~SaveSheet(c) /\ ~SaveAdjustment(c) /\ ~SaveFinal(c)
  BY <1>1, NotFinal DEF SaveSheet, SaveAdjustment, SaveFinal, At, HoldsUnlocked
<1>3. QED
  BY <1>2 DEF Next, vars, FactsChange, Start, JobFinds, JobClaims, ReadSheet, Compute,
     ReadForAdjust, Deliver, Dies

(* The same, of the sheet: no step changes one that is locked.             *)
THEOREM FinalCorrect == ASSUME Bounds PROVE Spec => FinalLocked
<1>1. Init => IInv
  BY InvInit
<1>2. IInv /\ [Next]_vars => IInv'
  BY InvStep
<1>3. IInv /\ [Next]_vars => [FinalStep]_vars
  BY LockedKept
<1>4. QED
  BY <1>1, <1>2, <1>3, PTL DEF Spec, FinalLocked

-----------------------------------------------------------------------------
(* One line of the sheet.                                                  *)

(* A quotient of naturals is one, and grows with the dividend.             *)
LEMMA DivNat ==
  ASSUME NEW a \in Nat, NEW d \in Nat, d > 0
  PROVE  a \div d \in Nat /\ (a < d => a \div d = 0)
  OBVIOUS

(* A product of naturals is one ...                                        *)
LEMMA ProductNat ==
  ASSUME NEW a \in Nat, NEW b \in Nat
  PROVE  a * b \in Nat
  OBVIOUS

(* ... and grows with its factors.                                         *)
LEMMA ProductGrows ==
  ASSUME NEW a \in Nat, NEW b \in Nat, NEW c \in Nat, a <= b
  PROVE  a * c <= b * c
  OBVIOUS

LEMMA DivGrows ==
  ASSUME NEW a \in Nat, NEW b \in Nat, NEW d \in Nat, d > 0, a <= b
  PROVE  a \div d <= b \div d
<1> DEFINE p == a \div d
           q == b \div d
<1>1. p \in Nat /\ q \in Nat
  BY DivNat
<1>2. a = d * p + (a % d) /\ a % d \in 0..(d - 1)
  OBVIOUS
<1>3. b = d * q + (b % d) /\ b % d \in 0..(d - 1)
  OBVIOUS
<1>4. ASSUME q + 1 <= p
      PROVE  FALSE
  <2>1. d * (q + 1) <= d * p
    BY <1>1, <1>4, ProductGrows
  <2>2. QED
    BY <2>1, <1>1, <1>2, <1>3, SMT
<1>5. QED
  BY <1>1, <1>4

-----------------------------------------------------------------------------

(* What the terms of a line are: the settings page takes a late day for a  *)
(* whole one at most, and amounts are not negative.                        *)
TermsInRange ==
  /\ Salaries \subseteq Nat /\ Quotas \subseteq Nat /\ Extras \subseteq Nat
  /\ LateRates \subseteq 0..100

(* The counters of the loop are counters; what each step adds to the       *)
(* working days, and to what they are accounted for with.                  *)
LEMMA CounterSteps ==
  ASSUME NEW n \in Counts
  PROVE  /\ WorkingDays(n) \in Int /\ Account(n) \in Nat
         /\ OneDay(n) \in Counts /\ WorkingDays(OneDay(n)) = WorkingDays(n) + 1
         /\ Account(OneDay(n)) = Account(n)
         /\ Off(n) \in Counts /\ WorkingDays(Off(n)) = WorkingDays(n) - 1
         /\ Account(Off(n)) = Account(n)
         /\ Late(n) \in Counts /\ WorkingDays(Late(n)) = WorkingDays(n)
         /\ Account(Late(n)) = Account(n)
         /\ Half(n) \in Counts /\ WorkingDays(Half(n)) = WorkingDays(n)
         /\ Account(Half(n)) = Account(n) + 50
         /\ Absent(n) \in Counts /\ WorkingDays(Absent(n)) = WorkingDays(n)
         /\ Account(Absent(n)) = Account(n) + 100
         /\ Early(n) \in Counts /\ WorkingDays(Early(n)) = WorkingDays(n)
         /\ Account(Early(n)) = Account(n) + 100
<1>1. /\ OneDay(n) \in Counts
      /\ WorkingDays(OneDay(n)) = WorkingDays(n) + 1
      /\ Account(OneDay(n)) = Account(n)
  BY DEF Counts, OneDay, WorkingDays, Account
<1>2. /\ Off(n) \in Counts
      /\ WorkingDays(Off(n)) = WorkingDays(n) - 1
      /\ Account(Off(n)) = Account(n)
  BY DEF Counts, Off, WorkingDays, Account
<1>3. /\ Late(n) \in Counts
      /\ WorkingDays(Late(n)) = WorkingDays(n)
      /\ Account(Late(n)) = Account(n)
  BY DEF Counts, Late, WorkingDays, Account
<1>4. /\ Half(n) \in Counts
      /\ WorkingDays(Half(n)) = WorkingDays(n)
      /\ Account(Half(n)) = Account(n) + 50
  BY DEF Counts, Half, WorkingDays, Account
<1>5. /\ Absent(n) \in Counts
      /\ WorkingDays(Absent(n)) = WorkingDays(n)
      /\ Account(Absent(n)) = Account(n) + 100
  BY DEF Counts, Absent, WorkingDays, Account
<1>6. /\ Early(n) \in Counts
      /\ WorkingDays(Early(n)) = WorkingDays(n)
      /\ Account(Early(n)) = Account(n) + 100
  BY DEF Counts, Early, WorkingDays, Account
<1>7. WorkingDays(n) \in Int /\ Account(n) \in Nat
  BY DEF Counts, WorkingDays, Account
<1>8. QED
  BY <1>1, <1>2, <1>3, <1>4, <1>5, <1>6, <1>7

(* The same of what a part of a day, or a late mark, adds.                 *)
LEMMA PartSteps ==
  ASSUME NEW n \in Counts, NEW share \in Nat
  PROVE  /\ Worked(n, share) \in Counts /\ WorkingDays(Worked(n, share)) = WorkingDays(n)
         /\ Account(Worked(n, share)) = Account(n) + share
         /\ OnLeave(n, share) \in Counts /\ WorkingDays(OnLeave(n, share)) = WorkingDays(n)
         /\ Account(OnLeave(n, share)) = Account(n) + share
<1>1. /\ Worked(n, share) \in Counts
      /\ WorkingDays(Worked(n, share)) = WorkingDays(n)
      /\ Account(Worked(n, share)) = Account(n) + share
  BY DEF Counts, Worked, WorkingDays, Account
<1>2. /\ OnLeave(n, share) \in Counts
      /\ WorkingDays(OnLeave(n, share)) = WorkingDays(n)
      /\ Account(OnLeave(n, share)) = Account(n) + share
  BY DEF Counts, OnLeave, WorkingDays, Account
<1>3. QED
  BY <1>1, <1>2

(* A day counts once: a closed one not at all, any other with what it is   *)
(* accounted for.                                                          *)
LEMMA DayCounted ==
  ASSUME NEW n \in Counts, NEW status \in Statuses
  PROVE  /\ WithDay(n, status) \in Counts
         /\ 100 * WorkingDays(n) = Account(n) =>
              100 * WorkingDays(WithDay(n, status)) = Account(WithDay(n, status))
<1>1. OneDay(n) \in Counts
  BY CounterSteps
<1>2. 50 \in Nat /\ 100 \in Nat
  OBVIOUS
<1>3. CASE status \in Closed
  <2>1. WithDay(n, status) = Off(OneDay(n))
    BY <1>3 DEF WithDay, Closed
  <2>2. QED
    BY <1>1, <1>2, <2>1, CounterSteps, PartSteps
<1>4. CASE status \in {"present", "field", "future"}
  <2>1. WithDay(n, status) = Worked(OneDay(n), 100)
    BY <1>4 DEF WithDay, Closed
  <2>2. QED
    BY <1>1, <1>2, <2>1, CounterSteps, PartSteps
<1>5. CASE status = "late"
  <2>1. WithDay(n, status) = Late(Worked(OneDay(n), 100))
    BY <1>5 DEF WithDay, Closed
  <2>2. QED
    BY <1>1, <1>2, <2>1, CounterSteps, PartSteps
<1>6. CASE status = "halfDay"
  <2>1. WithDay(n, status) = Half(Worked(OneDay(n), 50))
    BY <1>6 DEF WithDay, Closed
  <2>2. QED
    BY <1>1, <1>2, <2>1, CounterSteps, PartSteps
<1>7. CASE status = "leave"
  <2>1. WithDay(n, status) = OnLeave(OneDay(n), 100)
    BY <1>7 DEF WithDay, Closed
  <2>2. QED
    BY <1>1, <1>2, <2>1, CounterSteps, PartSteps
<1>8. CASE status = "halfLeave"
  <2>1. WithDay(n, status) = OnLeave(Worked(OneDay(n), 50), 50)
    BY <1>8 DEF WithDay, Closed, HalfLeave
  <2>2. Worked(OneDay(n), 50) \in Counts
    BY <1>1, <1>2, PartSteps
  <2>3. QED
    BY <1>1, <1>2, <2>1, <2>2, CounterSteps, PartSteps
<1>9. CASE status = "absent"
  <2>1. WithDay(n, status) = Absent(OneDay(n))
    BY <1>9 DEF WithDay, Closed
  <2>2. QED
    BY <1>1, <1>2, <2>1, CounterSteps, PartSteps
<1>10. QED
  BY <1>3, <1>4, <1>5, <1>6, <1>7, <1>8, <1>9 DEF Statuses, Closed

(* A day before the employee joined is not counted.                        *)
LEMMA EarlyDayCounted ==
  ASSUME NEW n \in Counts
  PROVE  /\ WithEarlyDay(n) \in Counts
         /\ 100 * WorkingDays(n) = Account(n) =>
              100 * WorkingDays(WithEarlyDay(n)) = Account(WithEarlyDay(n))
  BY CounterSteps DEF WithEarlyDay

(* The counters of the loop stay counters, for a month of any length.      *)
THEOREM LineTypeCorrect == LineSpec => []LineTypeOK
<1>1. LineInit => LineTypeOK
  BY DEF LineInit, LineTypeOK, NoDays, Counts
<1>2. LineTypeOK /\ [LineNext]_lineVars => LineTypeOK'
  <2> SUFFICES ASSUME LineTypeOK, [LineNext]_lineVars PROVE LineTypeOK'
    OBVIOUS
  <2>1. CASE DayBeforeStart
    BY <2>1, EarlyDayCounted DEF DayBeforeStart, LineTypeOK
  <2>2. ASSUME NEW status \in Statuses, Day(status)
        PROVE  LineTypeOK'
    BY <2>2, DayCounted DEF Day, LineTypeOK
  <2>3. CASE UNCHANGED lineVars
    BY <2>3 DEF lineVars, LineTypeOK
  <2>4. QED
    BY <2>1, <2>2, <2>3 DEF LineNext
<1>3. QED
  BY <1>1, <1>2, PTL DEF LineSpec

(* Every working day of the month is accounted for, once.                  *)
LEMMA Accounted == LineSpec => []DaysAccounted
<1>1. LineInit => DaysAccounted
  BY DEF LineInit, DaysAccounted, WorkingDays, Account, NoDays
<1>2. LineTypeOK /\ DaysAccounted /\ [LineNext]_lineVars => DaysAccounted'
  <2> SUFFICES ASSUME LineTypeOK, DaysAccounted, [LineNext]_lineVars PROVE DaysAccounted'
    OBVIOUS
  <2>0. counted \in Counts /\ 100 * WorkingDays(counted) = Account(counted)
    BY DEF LineTypeOK, DaysAccounted
  <2>1. CASE DayBeforeStart
    <3>1. /\ counted' = WithEarlyDay(counted) /\ counted' \in Counts
          /\ 100 * WorkingDays(WithEarlyDay(counted)) = Account(WithEarlyDay(counted))
      BY <2>0, <2>1, EarlyDayCounted DEF DayBeforeStart
    <3>2. QED
      BY <3>1 DEF DaysAccounted, WorkingDays, Account
  <2>2. ASSUME NEW status \in Statuses, Day(status)
        PROVE  DaysAccounted'
    <3>1. /\ counted' = WithDay(counted, status) /\ counted' \in Counts
          /\ 100 * WorkingDays(WithDay(counted, status)) = Account(WithDay(counted, status))
      BY <2>0, <2>2, DayCounted DEF Day
    <3>2. QED
      BY <3>1 DEF DaysAccounted, WorkingDays, Account
  <2>3. CASE UNCHANGED lineVars
    BY <2>3 DEF lineVars, DaysAccounted
  <2>4. QED
    BY <2>1, <2>2, <2>3 DEF LineNext
<1>3. QED
  BY <1>1, <1>2, LineTypeCorrect, PTL DEF LineSpec

-----------------------------------------------------------------------------

(* The terms of a salary are amounts, and the late rate a percentage.      *)
LEMMA TermsAreNat ==
  ASSUME TermsInRange, NEW t \in Terms
  PROVE  /\ t.monthly \in Nat /\ t.quota \in Nat /\ t.lateRate \in 0..100
         /\ t.bonus \in Nat /\ t.advance \in Nat /\ t.other \in Nat
  BY DEF TermsInRange, Terms

(* Days unpaid are never fewer than none.                                  *)
LEMMA UnpaidNat ==
  ASSUME TermsInRange, NEW n \in Counts, NEW t \in Terms
  PROVE  UnpaidDays(n, t) \in Nat
<1>1. n.late * t.lateRate \in Nat
  BY TermsAreNat, ProductNat DEF Counts
<1>2. n.leave - PaidLeave(n, t) \in Nat
  BY TermsAreNat DEF PaidLeave, Least, Counts
<1>3. n.absent \in Nat /\ n.half \in Nat /\ n.preJoin \in Nat
  BY DEF Counts
<1>4. QED
  BY <1>1, <1>2, <1>3 DEF UnpaidDays

(* Working days are not negative when every one of them is accounted for.  *)
LEMMA WorkingNat ==
  ASSUME NEW n \in Counts, 100 * WorkingDays(n) = Account(n)
  PROVE  WorkingDays(n) \in Nat
  BY CounterSteps

(* The deduction is not negative, and none without a day unpaid.           *)
LEMMA DeductionNat ==
  ASSUME TermsInRange, NEW n \in Counts, NEW t \in Terms, WorkingDays(n) \in Nat
  PROVE  /\ Deduction(n, t) \in Nat
         /\ UnpaidDays(n, t) = 0 => Deduction(n, t) = 0
<1> DEFINE u == UnpaidDays(n, t)
           w == WorkingDays(n)
           dividend == 2 * u * t.monthly + 100 * w
<1>1. u \in Nat /\ t.monthly \in Nat
  BY UnpaidNat, TermsAreNat
<1>2. u * t.monthly \in Nat /\ 2 * u * t.monthly = 2 * (u * t.monthly)
  BY <1>1, ProductNat
<1>3. dividend \in Nat /\ (u = 0 => dividend = 100 * w)
  BY <1>1, <1>2
<1>4. CASE w = 0
  BY <1>4 DEF Deduction
<1>5. CASE w > 0
  <2>1. Deduction(n, t) = dividend \div (200 * w)
    BY <1>5 DEF Deduction
  <2>2. 200 * w \in Nat /\ 200 * w > 0 /\ 100 * w < 200 * w
    BY <1>5
  <2>3. dividend \div (200 * w) \in Nat /\ (dividend < 200 * w => dividend \div (200 * w) = 0)
    BY <1>3, <2>2, DivNat
  <2>4. QED
    BY <1>3, <2>1, <2>2, <2>3
<1>6. QED
  BY <1>4, <1>5

(* For every month, salary and terms: the days add up, and the pay is      *)
(* between nothing and the salary with the bonus, and in full for whoever  *)
(* missed nothing.                                                         *)
THEOREM PayCorrect == ASSUME TermsInRange PROVE LineSpec => []PayRight
<1>1. LineTypeOK /\ DaysAccounted => PayRight
  <2> SUFFICES ASSUME LineTypeOK, DaysAccounted PROVE PayInRange
    BY DEF PayRight
  <2>1. counted \in Counts /\ terms \in Terms /\ WorkingDays(counted) \in Nat
    BY WorkingNat DEF LineTypeOK, DaysAccounted
  <2>2. /\ Deduction(counted, terms) \in Nat
        /\ UnpaidDays(counted, terms) = 0 => Deduction(counted, terms) = 0
    BY <2>1, DeductionNat
  <2>3. QED
    BY <2>1, <2>2, TermsAreNat DEF PayInRange, Payable, Most
<1>2. QED
  BY <1>1, LineTypeCorrect, Accounted, PTL

-----------------------------------------------------------------------------

(* What each step of a counter adds to the unpaid days: a part of leave    *)
(* may be within the quota, a late day costs its rate.                     *)
LEMMA UnpaidSteps ==
  ASSUME TermsInRange, NEW n \in Counts, NEW t \in Terms, NEW share \in Nat
  PROVE  /\ UnpaidDays(OneDay(n), t) = UnpaidDays(n, t)
         /\ UnpaidDays(Worked(n, share), t) = UnpaidDays(n, t)
         /\ UnpaidDays(Late(n), t) = UnpaidDays(n, t) + t.lateRate
         /\ UnpaidDays(Half(n), t) = UnpaidDays(n, t) + 50
         /\ UnpaidDays(Absent(n), t) = UnpaidDays(n, t) + 100
         /\ UnpaidDays(OnLeave(n, share), t) \in UnpaidDays(n, t)..(UnpaidDays(n, t) + share)
<1>1. t.quota \in Nat /\ t.lateRate \in Nat
  BY TermsAreNat
<1>2. n.late * t.lateRate \in Nat /\ (n.late + 1) * t.lateRate = n.late * t.lateRate + t.lateRate
  BY <1>1, ProductNat DEF Counts
<1>3. UnpaidDays(OneDay(n), t) = UnpaidDays(n, t)
  BY DEF Counts, OneDay, UnpaidDays, PaidLeave
<1>4. UnpaidDays(Worked(n, share), t) = UnpaidDays(n, t)
  BY DEF Counts, Worked, UnpaidDays, PaidLeave
<1>5. UnpaidDays(Late(n), t) = UnpaidDays(n, t) + t.lateRate
  BY <1>1, <1>2 DEF Counts, Late, UnpaidDays, PaidLeave, Least
<1>6. UnpaidDays(Half(n), t) = UnpaidDays(n, t) + 50
  BY <1>1, <1>2 DEF Counts, Half, UnpaidDays, PaidLeave, Least
<1>7. UnpaidDays(Absent(n), t) = UnpaidDays(n, t) + 100
  BY <1>1, <1>2 DEF Counts, Absent, UnpaidDays, PaidLeave, Least
<1>8. UnpaidDays(OnLeave(n, share), t) \in UnpaidDays(n, t)..(UnpaidDays(n, t) + share)
  BY <1>1, <1>2 DEF Counts, OnLeave, UnpaidDays, PaidLeave, Least
<1>9. QED
  BY <1>3, <1>4, <1>5, <1>6, <1>7, <1>8

(* A working day costs a whole day at most: absence all of it, coming      *)
(* nothing.                                                                *)
LEMMA DayCosts ==
  ASSUME TermsInRange, NEW n \in Counts, NEW t \in Terms, NEW status \in Statuses \ Closed
  PROVE  /\ WorkingDays(WithDay(n, status)) = WorkingDays(n) + 1
         /\ UnpaidDays(WithDay(n, status), t) \in UnpaidDays(n, t)..(UnpaidDays(n, t) + 100)
         /\ status = "absent" => UnpaidDays(WithDay(n, status), t) = UnpaidDays(n, t) + 100
         /\ status = "present" => UnpaidDays(WithDay(n, status), t) = UnpaidDays(n, t)
<1>1. /\ OneDay(n) \in Counts /\ WorkingDays(OneDay(n)) = WorkingDays(n) + 1
      /\ WorkingDays(n) \in Int
  BY CounterSteps
<1>2. 50 \in Nat /\ 100 \in Nat
  OBVIOUS
<1>3. UnpaidDays(OneDay(n), t) = UnpaidDays(n, t) /\ UnpaidDays(n, t) \in Nat
  BY <1>2, UnpaidSteps, UnpaidNat
<1>4. t.lateRate \in 0..100
  BY TermsAreNat
<1>5. CASE status \in {"present", "field", "future"}
  <2>1. WithDay(n, status) = Worked(OneDay(n), 100)
    BY <1>5 DEF WithDay, Closed
  <2>2. WorkingDays(Worked(OneDay(n), 100)) = WorkingDays(n) + 1
    BY <1>1, <1>2, CounterSteps, PartSteps
  <2>3. QED
    BY <1>5, <1>1, <1>2, <1>3, <2>1, <2>2, UnpaidSteps
<1>6. CASE status = "late"
  <2>1. WithDay(n, status) = Late(Worked(OneDay(n), 100))
    BY <1>6 DEF WithDay, Closed
  <2>2. /\ Worked(OneDay(n), 100) \in Counts
        /\ WorkingDays(Worked(OneDay(n), 100)) = WorkingDays(n) + 1
        /\ UnpaidDays(Worked(OneDay(n), 100), t) = UnpaidDays(n, t)
    BY <1>1, <1>2, <1>3, PartSteps, UnpaidSteps
  <2>3. WorkingDays(Late(Worked(OneDay(n), 100))) = WorkingDays(n) + 1
    BY <2>2, <1>2, CounterSteps, PartSteps
  <2>4. UnpaidDays(Late(Worked(OneDay(n), 100)), t) \in UnpaidDays(n, t)..(UnpaidDays(n, t) + 100)
    BY <2>2, <1>2, <1>3, <1>4, UnpaidSteps
  <2>5. QED
    BY <1>6, <2>1, <2>3, <2>4
<1>7. CASE status = "halfDay"
  <2>1. WithDay(n, status) = Half(Worked(OneDay(n), 50))
    BY <1>7 DEF WithDay, Closed
  <2>2. /\ Worked(OneDay(n), 50) \in Counts
        /\ WorkingDays(Worked(OneDay(n), 50)) = WorkingDays(n) + 1
        /\ UnpaidDays(Worked(OneDay(n), 50), t) = UnpaidDays(n, t)
    BY <1>1, <1>2, <1>3, PartSteps, UnpaidSteps
  <2>3. WorkingDays(Half(Worked(OneDay(n), 50))) = WorkingDays(n) + 1
    BY <2>2, <1>2, CounterSteps, PartSteps
  <2>4. UnpaidDays(Half(Worked(OneDay(n), 50)), t) \in UnpaidDays(n, t)..(UnpaidDays(n, t) + 100)
    BY <2>2, <1>2, <1>3, <1>4, UnpaidSteps
  <2>5. QED
    BY <1>7, <2>1, <2>3, <2>4
<1>8. CASE status = "leave"
  <2>1. WithDay(n, status) = OnLeave(OneDay(n), 100)
    BY <1>8 DEF WithDay, Closed
  <2>2. WorkingDays(OnLeave(OneDay(n), 100)) = WorkingDays(n) + 1
    BY <1>1, <1>2, CounterSteps, PartSteps
  <2>3. QED
    BY <1>8, <1>1, <1>2, <1>3, <2>1, <2>2, UnpaidSteps
<1>9. CASE status = "halfLeave"
  <2>1. WithDay(n, status) = OnLeave(Worked(OneDay(n), 50), 50)
    BY <1>9 DEF WithDay, Closed, HalfLeave
  <2>2. /\ Worked(OneDay(n), 50) \in Counts
        /\ WorkingDays(Worked(OneDay(n), 50)) = WorkingDays(n) + 1
        /\ UnpaidDays(Worked(OneDay(n), 50), t) = UnpaidDays(n, t)
    BY <1>1, <1>2, <1>3, PartSteps, UnpaidSteps
  <2>3. WorkingDays(OnLeave(Worked(OneDay(n), 50), 50)) = WorkingDays(n) + 1
    BY <2>2, <1>2, CounterSteps, PartSteps
  <2>4. UnpaidDays(OnLeave(Worked(OneDay(n), 50), 50), t) \in UnpaidDays(n, t)..(UnpaidDays(n, t) + 100)
    BY <2>2, <1>2, <1>3, <1>4, UnpaidSteps
  <2>5. QED
    BY <1>9, <2>1, <2>3, <2>4
<1>10. CASE status = "absent"
  <2>1. WithDay(n, status) = Absent(OneDay(n))
    BY <1>10 DEF WithDay, Closed
  <2>2. WorkingDays(Absent(OneDay(n))) = WorkingDays(n) + 1
    BY <1>1, <1>2, CounterSteps, PartSteps
  <2>3. QED
    BY <1>10, <1>1, <1>2, <1>3, <2>1, <2>2, UnpaidSteps
<1>11. QED
  BY <1>5, <1>6, <1>7, <1>8, <1>9, <1>10 DEF Statuses, Closed

(* More days unpaid of as many working days never deduct less.             *)
LEMMA DeductionGrows ==
  ASSUME TermsInRange, NEW n \in Counts, NEW m \in Counts, NEW t \in Terms,
         WorkingDays(n) \in Nat, WorkingDays(n) > 0, WorkingDays(m) = WorkingDays(n),
         UnpaidDays(n, t) <= UnpaidDays(m, t)
  PROVE  Deduction(n, t) <= Deduction(m, t)
<1> DEFINE d == 200 * WorkingDays(n)
           a == 2 * UnpaidDays(n, t) * t.monthly + 100 * WorkingDays(n)
           b == 2 * UnpaidDays(m, t) * t.monthly + 100 * WorkingDays(n)
<1>1. UnpaidDays(n, t) \in Nat /\ UnpaidDays(m, t) \in Nat /\ t.monthly \in Nat
  BY UnpaidNat, TermsAreNat
<1>2. 2 * UnpaidDays(n, t) \in Nat /\ 2 * UnpaidDays(m, t) \in Nat
  BY <1>1
<1>3. /\ 2 * UnpaidDays(n, t) * t.monthly \in Nat
      /\ 2 * UnpaidDays(m, t) * t.monthly \in Nat
  BY <1>1, <1>2, ProductNat
<1>4. 2 * UnpaidDays(n, t) * t.monthly <= 2 * UnpaidDays(m, t) * t.monthly
  BY <1>1, <1>2, ProductGrows
<1>5. a \in Nat /\ b \in Nat /\ a <= b /\ d \in Nat /\ d > 0
  BY <1>3, <1>4
<1>6. a \div d <= b \div d
  BY <1>5, DivGrows
<1>7. Deduction(n, t) = a \div d /\ Deduction(m, t) = b \div d
  BY DEF Deduction
<1>8. QED
  BY <1>6, <1>7

(* For every month of two days or more, every salary and all terms: no day *)
(* is paid better than one the office values more, so it never pays to     *)
(* stay away.                                                              *)
THEOREM BetterDayCorrect == ASSUME TermsInRange PROVE LineSpec => []BetterDayNeverCosts
<1>1. LineTypeOK /\ DaysAccounted => BetterDayNeverCosts
  <2> SUFFICES ASSUME LineTypeOK, DaysAccounted, NEW pair \in WorthMore
               PROVE  Payable(WithDay(counted, pair[1]), terms)
                        <= Payable(WithDay(counted, pair[2]), terms)
    BY DEF BetterDayNeverCosts
  <2> DEFINE less == WithDay(counted, pair[1])
             more == WithDay(counted, pair[2])
  <2>1. counted \in Counts /\ terms \in Terms /\ WorkingDays(counted) \in Nat
    BY WorkingNat DEF LineTypeOK, DaysAccounted
  <2>2. /\ pair[1] \in Statuses \ Closed /\ pair[2] \in Statuses \ Closed
        /\ pair[1] = "absent" \/ pair[2] = "present"
    BY DEF WorthMore, Statuses, Closed
  <2>3. less \in Counts /\ more \in Counts
    BY <2>1, <2>2, DayCounted
  <2>4. /\ WorkingDays(less) = WorkingDays(counted) + 1
        /\ WorkingDays(more) = WorkingDays(counted) + 1
        /\ UnpaidDays(more, terms) <= UnpaidDays(less, terms)
    BY <2>1, <2>2, DayCosts, UnpaidNat
  <2>5. Deduction(more, terms) <= Deduction(less, terms)
    BY <2>1, <2>3, <2>4, DeductionGrows
  <2>6. Deduction(more, terms) \in Nat /\ Deduction(less, terms) \in Nat
    BY <2>1, <2>3, <2>4, DeductionNat
  <2>7. QED
    BY <2>1, <2>5, <2>6, TermsAreNat DEF Payable, Most
<1>2. QED
  BY <1>1, LineTypeCorrect, Accounted, PTL

-----------------------------------------------------------------------------
(* The run explores the office's parts by one specification (MCOffice).    *)

(* What the run explores is what the theorems here and in DeedsProofs are  *)
(* about: each part behaves as its own specification says, whichever moves.*)
THEOREM OfficePartsImplemented ==
  OfficeSpec =>
    /\ DeedSpec /\ StarterSpec /\ PresenceSpec
    /\ AttendanceSpec /\ Spec /\ LineSpec
<1>1. OfficeInit => /\ DeedInit /\ StarterInit /\ PresenceInit
                    /\ AttendanceInit /\ Init /\ LineInit
  BY DEF OfficeInit
<1>2. ASSUME [OfficeNext]_everything
      PROVE  /\ [DeedNext]_deedVars /\ [StarterNext]_starterVars /\ [PresenceNext]_presenceVars
             /\ [AttendanceNext]_attendanceVars /\ [Next]_vars /\ [LineNext]_lineVars
  <2>1. UNCHANGED deeds => UNCHANGED deedVars /\ UNCHANGED starterVars /\ UNCHANGED presenceVars
    BY DEF deeds
  <2>2. UNCHANGED people => UNCHANGED attendanceVars /\ UNCHANGED vars /\ UNCHANGED lineVars
    BY DEF people
  <2>3. UNCHANGED everything => UNCHANGED deeds /\ UNCHANGED people
    BY DEF everything
  <2> QED BY <1>2, <2>1, <2>2, <2>3 DEF OfficeNext
<1> QED BY <1>1, <1>2, PTL
  DEF OfficeSpec, DeedSpec, StarterSpec, PresenceSpec, AttendanceSpec, Spec, LineSpec

(* Deeds, starters, rooms, records, sheets and lines keep their types, and *)
(* so does what a page, a tab or a call holds of them.                     *)
THEOREM OfficeTyped == ASSUME Bounds PROVE OfficeSpec => []PartsTyped
<1>1. PresenceInv => PresenceTypeOK
  BY DEF PresenceInv
<1>2. DeedTypeOK /\ StarterTypeOK /\ PresenceTypeOK /\ AttendanceTypeOK /\ TypeOK /\ LineTypeOK
        => PartsTyped
  BY DEF PartsTyped
<1> QED BY <1>1, <1>2, OfficePartsImplemented, DeedTypesCorrect, StarterTypesCorrect,
  PresenceAlways, AttendanceTypesCorrect, PayrollTypeCorrect, LineTypeCorrect, PTL
=============================================================================
