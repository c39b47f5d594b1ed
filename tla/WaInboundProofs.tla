--------------------------- MODULE WaInboundProofs ---------------------------
(***************************************************************************)
(* What the inbound pipeline guarantees for any messages, deliveries,      *)
(* failures and restarts.  The proofs rest on InboundAssumption alone.     *)
(*                                                                         *)
(* A step of the lane, of the window or of a run moves whole batches: the  *)
(* function f of Rearranged says where each batch of the next state comes  *)
(* from.  What is said of the places of messages is proved once for every  *)
(* such step, and for the two steps that are none: a message is recorded,  *)
(* or it joins the window.                                                 *)
(***************************************************************************)
EXTENDS WaInbound, FiniteSetTheorems, SequenceTheorems, TLAPS

NoRepeats(s) == \A a, b \in DOMAIN s : s[a] = s[b] => a = b

InHands == laneAt \in {"routed", "flushing"}

LaneInv ==
  /\ Shapes
  /\ laneAt # "idle" => lane # << >>
  /\ laneAt \in {"flushing", "handling"} <=> laneRun # 0
  /\ laneAt = "flushing" => pending = << >> /\ Head(lane) \in Files
  /\ NoRepeats(recorded)
  /\ ~debounced => pending = << >>

(* Every run, waiting text and message in hand has a stored id or a failed *)
(* insert of its own.                                                      *)
Counted ==
  Len(runs) + Len(pending) + (IF InHands THEN 1 ELSE 0) <= Len(recorded) + dbErrors

(* Until an insert fails, what is answered is stored, once and in order.   *)
Tracked ==
  dbErrors = 0 =>
    /\ \A i \in DOMAIN Batches : \A k \in DOMAIN Batches[i] : Contains(recorded, Batches[i][k])
    /\ Once(Batches)
    /\ InOrder(Batches)

(* Without a window only the run the lane waits for is under way, and what *)
(* it has read is what it will overwrite.                                  *)
Alone ==
  ~debounced =>
    /\ \A i \in DOMAIN runs : Running(i) => i = laneRun
    /\ \A i \in DOMAIN runs : runs[i].at = "save" => runs[i].seen = row
    /\ AnswersKept

-----------------------------------------------------------------------------
(* Shapes and counts.                                                      *)

USE InboundAssumption DEF Msgs

LEMMA NewRun ==
  ASSUME NEW msgs \in Seq(Msgs)
  PROVE  Run(msgs) \in RunRecords
BY DEF Run, RunRecords

LEMMA Distinct ==
  ASSUME NEW s \in Seq(Msgs), NoRepeats(s)
  PROVE  Len(s) <= Cardinality(Msgs)
<1>1. s \in [1..Len(s) -> Msgs] /\ Len(s) \in Nat /\ DOMAIN s = 1..Len(s)
  BY LenProperties
<1>2. s \in Injection(1..Len(s), Msgs)
  BY <1>1 DEF NoRepeats, Injection, IsInjective
<1>3. Cardinality(1..Len(s)) <= Cardinality(Msgs)
  BY <1>2, FS_Injection
<1>4. Cardinality(1..Len(s)) = Len(s)
  <2>1. Cardinality(1..Len(s)) = IF 1 > Len(s) THEN 0 ELSE Len(s) - 1 + 1
    BY <1>1, FS_Interval
  <2> QED BY <1>1, <2>1
<1> QED BY <1>3, <1>4

LEMMA LaneInit == Init => LaneInv /\ Counted
<1> SUFFICES ASSUME Init PROVE LaneInv /\ Counted
  OBVIOUS
<1>1. Shapes
  BY EmptySeq DEF Init, Shapes
<1>2. Counted
  BY EmptySeq DEF Init, Counted, InHands
<1> QED BY <1>1, <1>2 DEF Init, LaneInv, NoRepeats

LEMMA AwaitShape ==
  ASSUME LaneInv, NEW msgs \in Seq(Msgs), NEW point \in {"flushing", "handling"},
         Await(msgs, point)
  PROVE  /\ runs' \in Seq(RunRecords) /\ Len(runs') = Len(runs) + 1
         /\ laneRun' \in 1..Len(runs') /\ laneAt' = point /\ lane' = lane
<1>1. Run(msgs) \in RunRecords
  BY NewRun
<1>2. runs \in Seq(RunRecords) /\ Len(runs) \in Nat
  BY LenProperties DEF LaneInv, Shapes
<1> QED BY <1>1, <1>2, AppendProperties DEF Await

LEMMA RunShape ==
  ASSUME LaneInv, NEW i \in DOMAIN runs, RunStep(i)
  PROVE  /\ runs' \in Seq(RunRecords) /\ Len(runs') = Len(runs)
         /\ row' \subseteq Msgs
         /\ \A j \in DOMAIN runs : runs'[j].msgs = runs[j].msgs
         /\ UNCHANGED <<due, recorded, lane, laneAt, laneRun, pending, dbErrors, crashes>>
<1>1. runs \in Seq(RunRecords) /\ i \in 1..Len(runs) /\ row \subseteq Msgs
  BY LenProperties DEF LaneInv, Shapes
<1>2. runs[i] \in RunRecords
  BY <1>1, ElementOfSeq
<1>3. ToSet(runs[i].msgs) \subseteq Msgs
  BY <1>2, LenProperties, ElementOfSeq DEF RunRecords, ToSet
<1>4. PICK r \in RunRecords : SetRun(i, r) /\ r.msgs = runs[i].msgs
  <2>1. CASE ReadRow(i)
    <3>1. [runs[i] EXCEPT !.at = "save", !.seen = row] \in RunRecords
      BY <1>1, <1>2 DEF RunRecords
    <3> QED BY <1>2, <2>1, <3>1 DEF ReadRow, RunRecords
  <2>2. CASE SaveRow(i)
    <3>1. [runs[i] EXCEPT !.at = "reply", !.saved = TRUE] \in RunRecords
      BY <1>2 DEF RunRecords
    <3> QED BY <1>2, <2>2, <3>1 DEF SaveRow, RunRecords
  <2>3. CASE SaveNothing(i)
    BY <1>2, <2>3 DEF SaveNothing, RunRecords
  <2>4. CASE Reply(i)
    BY <1>2, <2>4 DEF Reply, RunRecords
  <2> QED BY <2>1, <2>2, <2>3, <2>4 DEF RunStep
<1>5. runs' \in Seq(RunRecords) /\ Len(runs') = Len(runs)
  BY <1>1, <1>4, ExceptSeq DEF SetRun
<1>6. \A j \in DOMAIN runs : runs'[j].msgs = runs[j].msgs
  BY <1>1, <1>4 DEF SetRun
<1>7. row' \subseteq Msgs
  BY <1>1, <1>2, <1>3 DEF RunStep, ReadRow, SaveRow, SaveNothing, Reply, NewData, RunRecords
<1> QED BY <1>5, <1>6, <1>7 DEF RunStep, ReadRow, SaveRow, SaveNothing, Reply

LEMMA CrashShape ==
  ASSUME LaneInv, Crash
  PROVE  /\ runs' \in Seq(RunRecords) /\ Len(runs') = Len(runs)
         /\ \A i \in DOMAIN runs : /\ runs'[i].msgs = runs[i].msgs
                                 /\ runs'[i].saved = runs[i].saved
                                 /\ runs'[i].at \in {"done", "lost"}
<1>1. runs \in Seq(RunRecords) /\ Len(runs) \in Nat /\ DOMAIN runs = 1..Len(runs)
  BY LenProperties DEF LaneInv, Shapes
<1>2. \A i \in DOMAIN runs : runs[i] \in RunRecords
  BY <1>1, ElementOfSeq
<1>3. \A i \in DOMAIN runs : /\ runs'[i] \in RunRecords
                             /\ runs'[i].msgs = runs[i].msgs
                             /\ runs'[i].saved = runs[i].saved
                             /\ runs'[i].at \in {"done", "lost"}
  <2> SUFFICES ASSUME NEW i \in DOMAIN runs
               PROVE  /\ runs'[i] \in RunRecords
                      /\ runs'[i].msgs = runs[i].msgs
                      /\ runs'[i].saved = runs[i].saved
                      /\ runs'[i].at \in {"done", "lost"}
    OBVIOUS
  <2>1. [runs[i] EXCEPT !.at = "lost"] \in RunRecords
    BY <1>2 DEF RunRecords
  <2> QED BY <1>2, <2>1 DEF Crash, RunRecords
<1>4. runs' \in [1..Len(runs) -> RunRecords]
  BY <1>1, <1>3 DEF Crash
<1>5. runs' \in Seq(RunRecords)
  BY <1>1, <1>4, SeqDef
<1>6. Len(runs') = Len(runs)
  BY <1>1, <1>4, <1>5, LenProperties
<1> QED BY <1>3, <1>5, <1>6

(* What the head of the lane is, and what is left when it goes.            *)
LEMMA LaneShape ==
  ASSUME LaneInv, lane # << >>
  PROVE  Head(lane) \in Msgs /\ Tail(lane) \in Seq(Msgs)
BY HeadTailProperties DEF LaneInv, Shapes

LEMMA PendingShape ==
  ASSUME LaneInv
  PROVE  /\ pending \in Seq(Msgs) /\ Len(pending) \in Nat
         /\ pending # << >> => Len(pending) >= 1
<1>1. pending \in Seq(Texts)
  BY DEF LaneInv, Shapes
<1> QED BY <1>1, SeqMonotonic, EmptySeq, LenProperties

LEMMA LaneKept ==
  ASSUME LaneInv, Counted, [Next]_vars
  PROVE  LaneInv' /\ Counted'
<1> USE DEF LaneInv, Shapes, Counted, InHands
<1>t. /\ Len(runs) \in Nat /\ Len(recorded) \in Nat /\ Len(pending) \in Nat
      /\ dbErrors \in Nat /\ lane \in Seq(Msgs) /\ runs \in Seq(RunRecords)
  BY LenProperties
<1>1. CASE UNCHANGED vars
  BY <1>1 DEF vars
<1>2. ASSUME NEW m \in Msgs, Receive(m), UNCHANGED debounced PROVE LaneInv' /\ Counted'
  <2>1. lane' \in Seq(Msgs) /\ lane' # << >> /\ (lane # << >> => Head(lane') = Head(lane))
    BY SMTT(30), <1>2, AppendProperties, HeadTailAppend DEF Receive
  <2> QED BY SMTT(30), <1>2, <2>1 DEF Receive
<1>3. CASE SkipDuplicate /\ UNCHANGED debounced
  BY <1>3, LaneShape DEF SkipDuplicate
<1>4. CASE Record /\ UNCHANGED debounced
  <2>1. /\ recorded' \in Seq(Msgs) /\ Len(recorded') = Len(recorded) + 1
        /\ \A k \in DOMAIN recorded : recorded'[k] = recorded[k]
        /\ recorded'[Len(recorded) + 1] = Head(lane)
    BY SMTT(30), <1>4, LaneShape, AppendProperties, LenProperties DEF Record
  <2>2. NoRepeats(recorded')
    BY <1>4, <1>t, <2>1, LenProperties DEF Record, Duplicate, Contains, NoRepeats
  <2> QED BY <1>4, <1>t, <2>1, <2>2 DEF Record
<1>5. CASE HandleUnrecorded /\ UNCHANGED debounced
  BY <1>5, <1>t DEF HandleUnrecorded
<1>6. CASE Route /\ UNCHANGED debounced
  <2> DEFINE m == Head(lane)
  <2>1. m \in Msgs /\ laneAt = "routed" /\ laneRun = 0 /\ <<m>> \in Seq(Msgs)
    BY <1>6, LaneShape DEF Route
  <2>2. CASE m \in Texts /\ Collect(m)
    <3>1. pending' \in Seq(Texts) /\ Len(pending') = Len(pending) + 1
      BY <2>2, AppendProperties DEF Collect, Joined
    <3>2. /\ lane' = Tail(lane) /\ laneAt' = "idle" /\ laneRun' = 0
          /\ UNCHANGED <<runs, debounced, due, recorded, row, dbErrors, crashes>>
      BY <1>6, <2>2 DEF Route, Collect, LeaveLane
    <3>3. Tail(lane) \in Seq(Msgs)
      BY <2>1, LaneShape
    <3>4. debounced
      BY <2>2 DEF Collect
    <3>5. Counted'
      BY <1>t, <2>1, <3>1, <3>2
    <3>6. laneRun' \in 0..Len(runs')
      BY <1>t, <3>2
    <3>7. Shapes'
      BY <3>1, <3>2, <3>3, <3>6
    <3>8. LaneInv'
      BY <3>2, <3>4, <3>7
    <3> QED BY <3>5, <3>8
  <2>3. CASE Await(<<m>>, "handling") /\ UNCHANGED pending
    <3>1. /\ runs' \in Seq(RunRecords) /\ Len(runs') = Len(runs) + 1
          /\ laneRun' \in 1..Len(runs') /\ laneAt' = "handling" /\ lane' = lane
      BY <2>1, <2>3, AwaitShape
    <3> QED BY <1>6, <1>t, <2>3, <3>1 DEF Route
  <2>4. CASE m \in Files /\ pending # << >> /\ Await(pending, "flushing") /\ pending' = << >>
    <3>1. /\ runs' \in Seq(RunRecords) /\ Len(runs') = Len(runs) + 1
          /\ laneRun' \in 1..Len(runs') /\ laneAt' = "flushing" /\ lane' = lane
      BY <2>4, AwaitShape, PendingShape
    <3> QED BY SMTT(30), <1>6, <1>t, <2>4, <3>1, PendingShape, EmptySeq DEF Route
  <2> QED BY <1>6, <2>2, <2>3, <2>4 DEF Route, HandleText, HandleFile
<1>7. CASE LaneResumes /\ UNCHANGED debounced
  <2>1. lane # << >>
    BY <1>7 DEF LaneResumes
  <2>2. CASE laneAt = "flushing" /\ Await(<<Head(lane)>>, "handling")
    <3>1. /\ runs' \in Seq(RunRecords) /\ Len(runs') = Len(runs) + 1
          /\ laneRun' \in 1..Len(runs') /\ laneAt' = "handling" /\ lane' = lane
      <4>1. <<Head(lane)>> \in Seq(Msgs)
        BY <2>1, LaneShape
      <4> QED BY <2>2, <4>1, AwaitShape
    <3> QED BY <1>7, <1>t, <2>2, <3>1 DEF LaneResumes
  <2>3. CASE laneAt = "handling" /\ LeaveLane /\ UNCHANGED runs
    BY <1>7, <1>t, <2>1, <2>3, LaneShape DEF LaneResumes, LeaveLane
  <2> QED BY <1>7, <2>2, <2>3 DEF LaneResumes
<1>8. CASE TimerFires /\ UNCHANGED debounced
  <2>1. Run(pending) \in RunRecords
    BY PendingShape, NewRun
  <2>2. runs' \in Seq(RunRecords) /\ Len(runs') = Len(runs) + 1
    BY <1>8, <2>1, AppendProperties DEF TimerFires
  <2> QED BY <1>8, <1>t, <2>2, PendingShape, EmptySeq DEF TimerFires, Closed
<1>9. ASSUME NEW i \in DOMAIN runs, RunStep(i), UNCHANGED debounced PROVE LaneInv' /\ Counted'
  <2>1. /\ runs' \in Seq(RunRecords) /\ Len(runs') = Len(runs)
        /\ row' \subseteq Msgs
        /\ UNCHANGED <<due, recorded, lane, laneAt, laneRun, pending, dbErrors, crashes>>
    BY <1>9, RunShape
  <2> QED BY <1>9, <2>1
<1>10. CASE Crash /\ UNCHANGED debounced
  <2>1. /\ lane' \in Seq(Msgs) /\ pending' \in Seq(Texts) /\ Len(pending') = 0
    BY <1>10, EmptySeq DEF Crash
  <2>2. runs' \in Seq(RunRecords) /\ Len(runs') = Len(runs)
    BY <1>10, CrashShape
  <2>3. /\ laneAt' = "idle" /\ laneRun' = 0 /\ crashes' \in 0..MaxCrashes /\ pending' = << >>
        /\ UNCHANGED <<debounced, due, recorded, row, dbErrors>>
    BY <1>10 DEF Crash
  <2> QED BY SMTT(30), <1>t, <2>1, <2>2, <2>3
<1> QED BY <1>1, <1>2, <1>3, <1>4, <1>5, <1>6, <1>7, <1>8, <1>9, <1>10 DEF Next, LaneStep

(* The types are those of Shapes, and the count bounds the runs.           *)
LEMMA LaneTyped == LaneInv /\ Counted => TypeOK
<1> SUFFICES ASSUME LaneInv, Counted PROVE Len(runs) <= MaxRuns
  BY DEF LaneInv, TypeOK
<1>1. /\ Len(runs) \in Nat /\ Len(recorded) \in Nat /\ Len(pending) \in Nat
      /\ dbErrors \in 0..MaxDbErrors
  BY LenProperties DEF LaneInv, Shapes
<1>2. Len(recorded) <= Cardinality(Msgs)
  BY Distinct DEF LaneInv, Shapes
<1>3. Cardinality(Msgs) \in Nat
  BY FS_CardinalityType
<1> QED BY <1>1, <1>2, <1>3 DEF Counted, InHands, MaxRuns

(* However often Meta delivers, inserts fail and the server restarts, the  *)
(* lane, the window and the runs keep their shapes, and a handler runs no  *)
(* more often than messages are stored and inserts fail (firstTime).       *)
THEOREM InboundTypesCorrect == Spec => []TypeOK
<1>1. Init => LaneInv /\ Counted
  BY LaneInit
<1>2. LaneInv /\ Counted /\ [Next]_vars => (LaneInv /\ Counted)'
  BY LaneKept
<1> QED BY <1>1, <1>2, LaneTyped, PTL DEF Spec

-----------------------------------------------------------------------------
(* The places of the messages.                                             *)

(* The batches are those of the runs, the window, and the message in hand. *)
PlacesAre ==
  /\ DOMAIN Batches = 1..Len(runs) + 2 /\ Len(runs) \in Nat /\ DOMAIN runs = 1..Len(runs)
  /\ \A i \in DOMAIN runs : Batches[i] = runs[i].msgs
  /\ Batches[Len(runs) + 1] = pending /\ Batches[Len(runs) + 2] = InHand
  /\ \A i \in DOMAIN Batches : Batches[i] \in Seq(Msgs)

LEMMA Places == LaneInv => PlacesAre
<1> SUFFICES ASSUME LaneInv PROVE PlacesAre
  OBVIOUS
<1>1. runs \in Seq(RunRecords) /\ Len(runs) \in Nat /\ DOMAIN runs = 1..Len(runs)
  BY LenProperties DEF LaneInv, Shapes
<1>2. \A i \in DOMAIN runs : runs[i].msgs \in Seq(Msgs)
  <2> SUFFICES ASSUME NEW i \in DOMAIN runs PROVE runs[i].msgs \in Seq(Msgs)
    OBVIOUS
  <2>1. runs[i] \in RunRecords
    BY <1>1, ElementOfSeq
  <2> QED BY <2>1 DEF RunRecords
<1>3. InHand \in Seq(Msgs)
  <2>1. CASE InHands
    BY <2>1, LaneShape DEF InHands, InHand, LaneInv
  <2>2. CASE ~InHands
    BY <2>2, EmptySeq DEF InHands, InHand
  <2> QED BY <2>1, <2>2
<1> QED BY <1>1, <1>2, <1>3, PendingShape DEF Batches, PlacesAre

LEMMA PlacesNext == LaneInv' => PlacesAre'
BY Places, PTL

(* The step gives batch i of the next state the place of batch f[i], and   *)
(* only batches of Others pass those before them.                          *)
Rearranged(f) ==
  /\ recorded' = recorded
  /\ \A i \in DOMAIN Batches' :
       Batches'[i] # << >> => f[i] \in DOMAIN Batches /\ Batches'[i] = Batches[f[i]]
  /\ \A i, j \in DOMAIN Batches' :
       i < j /\ Batches'[i] # << >> /\ Batches'[j] # << >> =>
         \/ f[i] < f[j]
         \/ f[i] # f[j] /\ \A k \in DOMAIN Batches'[i] : Batches'[i][k] \in Others

NothingDropped ==
  /\ recorded' = recorded
  /\ \A i \in DOMAIN Batches :
       Batches[i] # << >> => \E j \in DOMAIN Batches' : Batches'[j] = Batches[i]

LEMMA StaysTracked ==
  ASSUME LaneInv, LaneInv', Tracked, NEW f, Rearranged(f), dbErrors' = 0 => dbErrors = 0
  PROVE  Tracked'
<1> SUFFICES ASSUME dbErrors' = 0
             PROVE  /\ \A i \in DOMAIN Batches' : \A k \in DOMAIN Batches'[i] :
                         Contains(recorded', Batches'[i][k])
                    /\ Once(Batches)'
                    /\ InOrder(Batches)'
  BY DEF Tracked
<1>1. /\ \A i \in DOMAIN Batches : \A k \in DOMAIN Batches[i] : Contains(recorded, Batches[i][k])
      /\ Once(Batches)
      /\ InOrder(Batches)
  BY DEF Tracked
<1>2. /\ DOMAIN Batches' \subseteq Int /\ DOMAIN Batches \subseteq Int
      /\ \A i \in DOMAIN Batches' : DOMAIN Batches'[i] = 1..Len(Batches'[i])
                                  /\ Len(Batches'[i]) \in Nat
  BY Places, PlacesNext, LenProperties DEF PlacesAre
<1>3. \A i \in DOMAIN Batches' : \A k \in DOMAIN Batches'[i] :
        Batches'[i] # << >> /\ f[i] \in DOMAIN Batches /\ Batches'[i] = Batches[f[i]]
  BY <1>2, EmptySeq DEF Rearranged
<1>4. \A i \in DOMAIN Batches' : \A k \in DOMAIN Batches'[i] : Contains(recorded', Batches'[i][k])
  BY <1>1, <1>3 DEF Rearranged
<1>5. \A i, j \in DOMAIN Batches' :
        \A k \in DOMAIN Batches'[i], l \in DOMAIN Batches'[j] :
          /\ i # j => f[i] # f[j]
          /\ i < j /\ Batches'[i][k] \notin Others => f[i] < f[j]
  BY <1>2, <1>3 DEF Rearranged
<1>6. Once(Batches)'
  BY <1>1, <1>3, <1>5 DEF Once
<1>7. InOrder(Batches)'
  <2> SUFFICES ASSUME NEW i \in DOMAIN Batches', NEW j \in DOMAIN Batches',
                      NEW k \in DOMAIN Batches'[i], NEW l \in DOMAIN Batches'[j],
                      i < j \/ (i = j /\ k < l),
                      {Batches'[i][k], Batches'[j][l]} \intersect Others = {}
               PROVE  \E a, b \in DOMAIN recorded :
                        a < b /\ recorded[a] = Batches'[i][k] /\ recorded[b] = Batches'[j][l]
    BY DEF InOrder, RecordedBefore, Rearranged
  <2>1. f[i] < f[j] \/ (f[i] = f[j] /\ k < l)
    BY <1>5
  <2>2. RecordedBefore(Batches[f[i]][k], Batches[f[j]][l])
    BY <1>1, <1>3, <2>1 DEF InOrder
  <2> QED BY <1>3, <2>2 DEF RecordedBefore
<1> QED BY <1>4, <1>6, <1>7

LEMMA StaysHandedOn ==
  ASSUME LaneInv, LaneInv', NoneForgotten, NothingDropped, crashes' = 0 => crashes = 0
  PROVE  NoneForgotten'
<1> SUFFICES ASSUME crashes' = 0, NEW k \in DOMAIN recorded
             PROVE  \E j \in DOMAIN Batches' : Contains(Batches'[j], recorded[k])
  BY DEF NoneForgotten, NothingDropped, Contains
<1>1. PICK i \in DOMAIN Batches : Contains(Batches[i], recorded[k])
  BY DEF NoneForgotten
<1>2. Batches[i] # << >>
  BY <1>1 DEF Contains
<1> QED BY <1>1, <1>2 DEF NothingDropped

SameRuns == /\ Len(runs') = Len(runs) /\ recorded' = recorded
            /\ \A i \in DOMAIN runs : runs'[i].msgs = runs[i].msgs

RunAdded(msgs) ==
  /\ Len(runs') = Len(runs) + 1 /\ recorded' = recorded
  /\ \A i \in DOMAIN runs : runs'[i].msgs = runs[i].msgs
  /\ runs'[Len(runs) + 1].msgs = msgs

LEMMA Appended ==
  ASSUME LaneInv, NEW msgs \in Seq(Msgs), runs' = Append(runs, Run(msgs)), recorded' = recorded
  PROVE  RunAdded(msgs)
<1>1. runs \in Seq(RunRecords) /\ DOMAIN runs = 1..Len(runs) /\ Run(msgs) \in RunRecords
  BY NewRun, LenProperties DEF LaneInv, Shapes
<1>2. /\ Len(runs') = Len(runs) + 1 /\ runs'[Len(runs) + 1] = Run(msgs)
      /\ \A i \in 1..Len(runs) : runs'[i] = runs[i]
  BY <1>1, AppendProperties
<1> QED BY <1>1, <1>2 DEF RunAdded, Run

LEMMA InPlace ==
  ASSUME LaneInv, LaneInv', SameRuns,
         pending' \in {pending, << >>}, InHand' \in {InHand, << >>}
  PROVE  /\ \E f : Rearranged(f)
         /\ pending' = pending /\ InHand' = InHand => NothingDropped
<1>1. PlacesAre /\ PlacesAre'
  BY Places, PlacesNext
<1>2. DOMAIN Batches' = DOMAIN Batches
  BY <1>1 DEF PlacesAre, SameRuns
<1>3. \A i \in DOMAIN Batches : Batches'[i] \in {Batches[i], << >>}
  <2> SUFFICES ASSUME NEW i \in DOMAIN Batches PROVE Batches'[i] \in {Batches[i], << >>}
    OBVIOUS
  <2>1. i \in DOMAIN runs \/ i = Len(runs) + 1 \/ i = Len(runs) + 2
    BY <1>1 DEF PlacesAre
  <2> QED BY <1>1, <2>1 DEF PlacesAre, SameRuns
<1>4. Rearranged([i \in DOMAIN Batches |-> i])
  BY <1>1, <1>2, <1>3 DEF Rearranged, PlacesAre, SameRuns
<1>5. ASSUME pending' = pending, InHand' = InHand PROVE NothingDropped
  <2>1. \A i \in DOMAIN Batches : i \in DOMAIN runs \/ i = Len(runs) + 1 \/ i = Len(runs) + 2
    BY <1>1 DEF PlacesAre
  <2>2. \A i \in DOMAIN Batches : Batches'[i] = Batches[i]
    BY <1>1, <1>5, <2>1 DEF PlacesAre, SameRuns
  <2> QED BY <1>2, <2>2 DEF NothingDropped, SameRuns
<1> QED BY <1>4, <1>5

(* The window's batch becomes a run. *)
LEMMA FromWindow ==
  ASSUME LaneInv, LaneInv', RunAdded(pending), pending' = << >>, InHand' = InHand
  PROVE  (\E f : Rearranged(f)) /\ NothingDropped
<1> DEFINE N == Len(runs)
           f == [i \in 1..N + 3 |-> IF i = N + 3 THEN N + 2 ELSE i]
<1>1. PlacesAre /\ PlacesAre'
  BY Places, PlacesNext
<1>2. /\ N \in Nat /\ DOMAIN Batches = 1..N + 2 /\ DOMAIN Batches' = 1..N + 3
      /\ \A i \in 1..N : Batches'[i] = Batches[i]
      /\ Batches'[N + 1] = Batches[N + 1]
      /\ Batches'[N + 2] = << >>
      /\ Batches'[N + 3] = Batches[N + 2]
  BY SMTT(30), <1>1 DEF PlacesAre, RunAdded
<1> HIDE DEF N
<1>3. /\ \A i \in 1..N : f[i] = i
      /\ f[N + 1] = N + 1 /\ f[N + 2] = N + 2 /\ f[N + 3] = N + 2
      /\ \A i \in 1..N + 3 : i \in 1..N \/ i \in {N + 1, N + 2, N + 3}
  BY <1>2
<1> HIDE DEF f
<1>4. \A i \in 1..N + 3 : Batches'[i] # << >> => f[i] \in 1..N + 2 /\ Batches'[i] = Batches[f[i]]
  BY <1>2, <1>3
<1>5. \A i, j \in 1..N + 3 : i < j /\ Batches'[i] # << >> => f[i] < f[j]
  BY <1>2, <1>3
<1>6. Rearranged(f)
  BY <1>2, <1>4, <1>5 DEF Rearranged, RunAdded
<1>7. NothingDropped
  BY <1>2 DEF NothingDropped, RunAdded
<1> QED BY <1>6, <1>7

(* The message in hand becomes a run, before an open window only if it is  *)
(* one of Others.                                                          *)
LEMMA FromHand ==
  ASSUME LaneInv, LaneInv', RunAdded(InHand), pending' = pending, InHand' = << >>,
         pending = << >> \/ \A k \in DOMAIN InHand : InHand[k] \in Others
  PROVE  (\E f : Rearranged(f)) /\ NothingDropped
<1> DEFINE N == Len(runs)
           f == [i \in 1..N + 3 |-> IF i = N + 1 THEN N + 2 ELSE IF i = N + 2 THEN N + 1 ELSE i]
<1>1. PlacesAre /\ PlacesAre'
  BY Places, PlacesNext
<1>2. /\ N \in Nat /\ DOMAIN Batches = 1..N + 2 /\ DOMAIN Batches' = 1..N + 3
      /\ \A i \in 1..N : Batches'[i] = Batches[i]
      /\ Batches'[N + 1] = Batches[N + 2]
      /\ Batches'[N + 2] = Batches[N + 1]
      /\ Batches'[N + 3] = << >>
      /\ Batches'[N + 1] = InHand /\ Batches'[N + 2] = pending
  <2>1. /\ N \in Nat /\ DOMAIN Batches = 1..N + 2 /\ DOMAIN runs = 1..N
        /\ Batches[N + 1] = pending /\ Batches[N + 2] = InHand
        /\ \A i \in 1..N : Batches[i] = runs[i].msgs
    BY <1>1 DEF PlacesAre
  <2>2. /\ DOMAIN Batches' = 1..N + 3 /\ DOMAIN runs' = 1..N + 1
        /\ Batches'[N + 2] = pending' /\ Batches'[N + 3] = InHand'
        /\ \A i \in 1..N + 1 : Batches'[i] = runs'[i].msgs
    BY <1>1, <2>1 DEF PlacesAre, RunAdded
  <2> QED BY SMTT(30), <2>1, <2>2 DEF RunAdded
<1> HIDE DEF N
<1>3. /\ \A i \in 1..N : f[i] = i
      /\ f[N + 1] = N + 2 /\ f[N + 2] = N + 1 /\ f[N + 3] = N + 3
      /\ \A i \in 1..N + 3 : i \in 1..N \/ i \in {N + 1, N + 2, N + 3}
  BY <1>2
<1> HIDE DEF f
<1>4. \A i \in 1..N + 3 : Batches'[i] # << >> => f[i] \in 1..N + 2 /\ Batches'[i] = Batches[f[i]]
  <2> SUFFICES ASSUME NEW i \in 1..N + 3, Batches'[i] # << >>
               PROVE  f[i] \in 1..N + 2 /\ Batches'[i] = Batches[f[i]]
    OBVIOUS
  <2>1. CASE i \in 1..N
    BY <1>2, <1>3, <2>1
  <2>2. CASE i = N + 1
    <3>1. f[i] = N + 2 /\ N + 2 \in 1..N + 2
      BY <1>2, <1>3, <2>2
    <3>2. Batches'[i] = Batches[N + 2]
      BY <1>2, <2>2
    <3> QED BY <3>1, <3>2
  <2>3. CASE i = N + 2
    <3>1. f[i] = N + 1 /\ N + 1 \in 1..N + 2
      BY <1>2, <1>3, <2>3
    <3>2. Batches'[i] = Batches[N + 1]
      BY <1>2, <2>3
    <3> QED BY <3>1, <3>2
  <2> QED BY <1>2, <1>3, <2>1, <2>2, <2>3
<1>5. \A i, j \in 1..N + 3 :
        i < j /\ Batches'[i] # << >> /\ Batches'[j] # << >> =>
          f[i] < f[j] \/ (i = N + 1 /\ j = N + 2 /\ f[i] # f[j])
  BY <1>2, <1>3
<1>6. Rearranged(f)
  BY <1>2, <1>4, <1>5 DEF Rearranged, RunAdded
<1>7. NothingDropped
  <2>1. \A i \in 1..N + 2 : i \in 1..N \/ i \in {N + 1, N + 2}
    BY <1>2
  <2>2. \A i \in 1..N + 2 : \E j \in 1..N + 3 : Batches'[j] = Batches[i]
    <3> SUFFICES ASSUME NEW i \in 1..N + 2 PROVE \E j \in 1..N + 3 : Batches'[j] = Batches[i]
      OBVIOUS
    <3>1. CASE i \in 1..N
      BY <1>2, <3>1
    <3>2. CASE i = N + 1
      <4>1. N + 2 \in 1..N + 3
        BY <1>2
      <4> QED BY <1>2, <3>2, <4>1
    <3>3. CASE i = N + 2
      <4>1. N + 1 \in 1..N + 3
        BY <1>2
      <4> QED BY <1>2, <3>3, <4>1
    <3> QED BY <2>1, <3>1, <3>2, <3>3
  <2> QED BY <1>2, <2>2 DEF NothingDropped, RunAdded
<1> QED BY <1>6, <1>7

(* A text joins the window: the last place of the window was the lane's    *)
(* hand, every other place stays.                                          *)
LEMMA CollectTracked ==
  ASSUME LaneInv, LaneInv', Tracked, NoneForgotten, InHands, SameRuns,
         Head(lane) \in Msgs, pending' = Append(pending, Head(lane)), InHand' = << >>,
         dbErrors' = dbErrors, crashes' = crashes
  PROVE  Tracked' /\ NoneForgotten'
<1> DEFINE N == Len(runs)
           W == Len(pending)
           I(i, k) == IF i = N + 1 /\ k = W + 1 THEN N + 2 ELSE i
           K(i, k) == IF i = N + 1 /\ k = W + 1 THEN 1 ELSE k
<1>1. /\ N \in Nat /\ DOMAIN Batches = 1..N + 2 /\ DOMAIN runs = 1..N
      /\ Batches[N + 1] = pending /\ Batches[N + 2] = <<Head(lane)>>
      /\ \A i \in 1..N : Batches[i] = runs[i].msgs
      /\ \A i \in 1..N + 2 : Batches[i] \in Seq(Msgs)
  BY Places DEF PlacesAre, InHand, InHands
<1>2. /\ DOMAIN Batches' = 1..N + 2 /\ Batches'[N + 2] = << >>
      /\ Batches'[N + 1] = pending'
      /\ \A i \in 1..N : Batches'[i] = runs'[i].msgs
  BY <1>1, PlacesNext DEF PlacesAre, SameRuns
<1>3. \A i \in 1..N : Batches'[i] = Batches[i]
  BY <1>1, <1>2 DEF SameRuns
<1>4. /\ W \in Nat /\ DOMAIN pending = 1..W /\ DOMAIN pending' = 1..W + 1
      /\ pending'[W + 1] = Head(lane)
      /\ \A k \in 1..W : pending'[k] = pending[k]
      /\ Len(pending') = W + 1
  BY PendingShape, AppendProperties, LenProperties
<1>5. \A i \in 1..N + 2 : i \in 1..N \/ i \in {N + 1, N + 2}
  <2>1. N \in Nat
    BY <1>1
  <2> HIDE DEF N
  <2> QED BY <2>1
<1>6. \A i \in 1..N + 2 : DOMAIN Batches'[i] \subseteq Int
  <2>1. \A i \in 1..N : DOMAIN Batches'[i] = 1..Len(Batches'[i])
    BY <1>1, <1>3, LenProperties
  <2> QED BY <1>2, <1>4, <1>5, <2>1
<1> HIDE DEF N, W
<1>7. \A i \in 1..N + 2 : \A k \in DOMAIN Batches'[i] :
        /\ I(i, k) \in 1..N + 2 /\ K(i, k) \in DOMAIN Batches[I(i, k)]
        /\ Batches'[i][k] = Batches[I(i, k)][K(i, k)]
  <2> SUFFICES ASSUME NEW i \in 1..N + 2, NEW k \in DOMAIN Batches'[i]
               PROVE  /\ I(i, k) \in 1..N + 2 /\ K(i, k) \in DOMAIN Batches[I(i, k)]
                      /\ Batches'[i][k] = Batches[I(i, k)][K(i, k)]
    OBVIOUS
  <2>1. CASE i \in 1..N
    BY <1>1, <1>3, <2>1
  <2>2. CASE i = N + 1 /\ k # W + 1
    <3>1. k \in 1..W
      BY <1>2, <1>4, <2>2
    <3>2. I(i, k) = N + 1 /\ K(i, k) = k /\ N + 1 \in 1..N + 2
      BY <1>1, <2>2
    <3>3. Batches'[i] = pending' /\ Batches[N + 1] = pending
      BY <1>1, <1>2, <2>2
    <3> QED BY <1>4, <3>1, <3>2, <3>3
  <2>3. CASE i = N + 1 /\ k = W + 1
    BY <1>1, <1>2, <1>4, <2>3
  <2> QED BY <1>2, <1>5, <2>1, <2>2, <2>3
<1>8. \A i, j \in 1..N + 2 : \A k \in DOMAIN Batches'[i], l \in DOMAIN Batches'[j] :
        /\ i < j \/ (i = j /\ k < l) =>
             I(i, k) < I(j, l) \/ (I(i, k) = I(j, l) /\ K(i, k) < K(j, l))
        /\ I(i, k) = I(j, l) /\ K(i, k) = K(j, l) => i = j /\ k = l
  <2>1. \A i \in 1..N + 2 : \A k \in DOMAIN Batches'[i] :
          i \in 1..N + 1 /\ k \in Int /\ (i = N + 1 => k \in 1..W + 1)
    <3> SUFFICES ASSUME NEW i \in 1..N + 2, NEW k \in DOMAIN Batches'[i]
                 PROVE  i \in 1..N + 1 /\ k \in Int /\ (i = N + 1 => k \in 1..W + 1)
      OBVIOUS
    <3>1. k \in Int
      BY <1>6
    <3>2. i # N + 2
      BY <1>2
    <3>3. i = N + 1 => k \in 1..W + 1
      BY <1>2, <1>4
    <3>4. i \in 1..N + 1
      BY <1>1, <1>5, <3>2
    <3> QED BY <3>1, <3>3, <3>4
  <2> SUFFICES ASSUME NEW i \in 1..N + 2, NEW j \in 1..N + 2,
                      NEW k \in DOMAIN Batches'[i], NEW l \in DOMAIN Batches'[j]
               PROVE  /\ i < j \/ (i = j /\ k < l) =>
                           I(i, k) < I(j, l) \/ (I(i, k) = I(j, l) /\ K(i, k) < K(j, l))
                      /\ I(i, k) = I(j, l) /\ K(i, k) = K(j, l) => i = j /\ k = l
    OBVIOUS
  <2>2. /\ i \in 1..N + 1 /\ k \in Int /\ (i = N + 1 => k \in 1..W + 1)
        /\ j \in 1..N + 1 /\ l \in Int /\ (j = N + 1 => l \in 1..W + 1)
    BY <2>1
  <2> QED BY ONLY <1>1, <1>4, <2>2
<1> HIDE DEF I, K
<1>9. Tracked'
  <2> SUFFICES ASSUME dbErrors = 0
               PROVE  /\ \A i \in 1..N + 2 : \A k \in DOMAIN Batches'[i] :
                           Contains(recorded, Batches'[i][k])
                      /\ Once(Batches)' /\ InOrder(Batches)'
    BY <1>2 DEF Tracked, SameRuns
  <2>1. /\ \A i \in 1..N + 2 : \A k \in DOMAIN Batches[i] : Contains(recorded, Batches[i][k])
        /\ Once(Batches) /\ InOrder(Batches)
    BY <1>1 DEF Tracked
  <2>2. Once(Batches)'
    BY <1>1, <1>2, <1>7, <1>8, <2>1 DEF Once
  <2>3. InOrder(Batches)'
    <3> SUFFICES ASSUME NEW i \in 1..N + 2, NEW j \in 1..N + 2,
                        NEW k \in DOMAIN Batches'[i], NEW l \in DOMAIN Batches'[j],
                        i < j \/ (i = j /\ k < l),
                        {Batches'[i][k], Batches'[j][l]} \intersect Others = {}
                 PROVE  \E a, b \in DOMAIN recorded :
                          a < b /\ recorded[a] = Batches'[i][k] /\ recorded[b] = Batches'[j][l]
      BY <1>2 DEF InOrder, RecordedBefore, SameRuns
    <3>1. RecordedBefore(Batches[I(i, k)][K(i, k)], Batches[I(j, l)][K(j, l)])
      <4>1. /\ I(i, k) \in DOMAIN Batches /\ K(i, k) \in DOMAIN Batches[I(i, k)]
            /\ I(j, l) \in DOMAIN Batches /\ K(j, l) \in DOMAIN Batches[I(j, l)]
            /\ {Batches[I(i, k)][K(i, k)], Batches[I(j, l)][K(j, l)]} \intersect Others = {}
        BY <1>1, <1>7
      <4>2. I(i, k) < I(j, l) \/ (I(i, k) = I(j, l) /\ K(i, k) < K(j, l))
        BY <1>8
      <4> QED BY <2>1, <4>1, <4>2 DEF InOrder
    <3> QED BY <1>7, <3>1 DEF RecordedBefore
  <2> QED BY <1>7, <2>1, <2>2, <2>3
<1>10. NoneForgotten'
  <2> SUFFICES ASSUME crashes = 0, NEW k \in DOMAIN recorded
               PROVE  \E i \in 1..N + 2 : Contains(Batches'[i], recorded[k])
    <3>1. recorded' = recorded
      BY DEF SameRuns
    <3> QED BY <1>2, <3>1 DEF NoneForgotten
  <2>1. PICK i \in 1..N + 2 : Contains(Batches[i], recorded[k])
    BY <1>1 DEF NoneForgotten
  <2>2. CASE i \in 1..N
    BY <1>1, <1>3, <2>1, <2>2 DEF Contains
  <2>3. CASE i \in {N + 1, N + 2}
    <3>1. Contains(pending', recorded[k])
      <4>1. CASE i = N + 1
        BY <1>1, <1>4, <2>1, <4>1 DEF Contains, W
      <4>2. CASE i = N + 2
        <5>1. recorded[k] = Head(lane)
          BY <1>1, <2>1, <4>2 DEF Contains
        <5> QED BY <1>4, <5>1 DEF Contains
      <4> QED BY <2>3, <4>1, <4>2
    <3>2. N + 1 \in 1..N + 2 /\ Batches'[N + 1] = pending'
      BY <1>1, <1>2
    <3> QED BY <3>1, <3>2
  <2> QED BY <1>5, <2>1, <2>2, <2>3
<1> QED BY <1>9, <1>10

(* A message is stored: it was in no place, and takes the last one.        *)
LEMMA RecordTracked ==
  ASSUME LaneInv, LaneInv', Tracked, NoneForgotten, Record
  PROVE  Tracked' /\ NoneForgotten'
<1> DEFINE N == Len(runs)
           m == Head(lane)
           R == Len(recorded)
<1>1. /\ N \in Nat /\ DOMAIN Batches = 1..N + 2 /\ DOMAIN runs = 1..N
      /\ Batches[N + 1] = pending /\ Batches[N + 2] = << >>
      /\ \A i \in 1..N : Batches[i] = runs[i].msgs
      /\ \A i \in 1..N + 2 : Batches[i] \in Seq(Msgs)
  BY Places DEF PlacesAre, InHand, Record
<1>2. /\ runs' = runs /\ pending' = pending /\ InHand' = <<m>>
  BY DEF Record, InHand
<1>3. /\ DOMAIN Batches' = 1..N + 2 /\ Batches'[N + 2] = <<m>>
      /\ Batches'[N + 1] = pending
      /\ \A i \in 1..N : Batches'[i] = runs[i].msgs
  BY <1>1, <1>2, PlacesNext DEF PlacesAre
<1>4. \A i \in 1..N + 2 : i # N + 2 => Batches'[i] = Batches[i]
  <2>1. \A i \in 1..N + 2 : i # N + 2 => i \in 1..N \/ i = N + 1
    BY <1>1
  <2> QED BY <1>1, <1>3, <2>1
<1>5. /\ R \in Nat /\ DOMAIN recorded = 1..R /\ DOMAIN recorded' = 1..R + 1 /\ Len(recorded') = R + 1
      /\ recorded'[R + 1] = m /\ \A a \in 1..R : recorded'[a] = recorded[a]
  BY LaneShape, AppendProperties, LenProperties DEF Record, LaneInv, Shapes
<1>6. \A x : Contains(recorded, x) => Contains(recorded', x) /\ x # m
  BY <1>5 DEF Contains, Record, Duplicate
<1>7. Contains(recorded', m)
  BY <1>5 DEF Contains
<1>8. \A i \in 1..N + 2 : DOMAIN Batches'[i] \subseteq Int
  <2>1. \A i \in 1..N + 2 : DOMAIN Batches[i] = 1..Len(Batches[i])
    BY <1>1, LenProperties
  <2> QED BY <1>3, <1>4, <2>1
<1> HIDE DEF N, m, R
<1>9. Tracked'
  <2> SUFFICES ASSUME dbErrors = 0
               PROVE  /\ \A i \in 1..N + 2 : \A k \in DOMAIN Batches'[i] :
                           Contains(recorded', Batches'[i][k])
                      /\ Once(Batches)' /\ InOrder(Batches)'
    BY <1>3 DEF Tracked, Record
  <2>1. /\ \A i \in 1..N + 2 : \A k \in DOMAIN Batches[i] : Contains(recorded, Batches[i][k])
        /\ Once(Batches) /\ InOrder(Batches)
    BY <1>1 DEF Tracked
  <2>2. \A i \in 1..N + 2 : \A k \in DOMAIN Batches'[i] :
          \/ /\ i # N + 2 /\ k \in DOMAIN Batches[i] /\ Batches'[i][k] = Batches[i][k]
             /\ Contains(recorded, Batches'[i][k])
          \/ i = N + 2 /\ k = 1 /\ Batches'[i][k] = m
    BY <1>3, <1>4, <2>1
  <2>3. Once(Batches)'
    <3>1. \A i, j \in 1..N + 2 :
            \A k \in DOMAIN Batches'[i], l \in DOMAIN Batches'[j] :
              Batches'[i][k] = Batches'[j][l] => i = j /\ k = l
      <4> SUFFICES ASSUME NEW i \in 1..N + 2, NEW j \in 1..N + 2,
                          NEW k \in DOMAIN Batches'[i], NEW l \in DOMAIN Batches'[j],
                          Batches'[i][k] = Batches'[j][l]
                   PROVE  i = j /\ k = l
        OBVIOUS
      <4>1. CASE i = N + 2 \/ j = N + 2
        BY <1>6, <2>2, <4>1
      <4>2. CASE i # N + 2 /\ j # N + 2
        <5>1. /\ k \in DOMAIN Batches[i] /\ Batches'[i][k] = Batches[i][k]
              /\ l \in DOMAIN Batches[j] /\ Batches'[j][l] = Batches[j][l]
          <6>1. k \in DOMAIN Batches[i] /\ Batches'[i][k] = Batches[i][k]
            BY <2>2, <4>2
          <6>2. l \in DOMAIN Batches[j] /\ Batches'[j][l] = Batches[j][l]
            BY <2>2, <4>2
          <6> QED BY <6>1, <6>2
        <5>2. i \in DOMAIN Batches /\ j \in DOMAIN Batches /\ Batches[i][k] = Batches[j][l]
          BY <1>1, <5>1
        <5> QED BY <2>1, <5>1, <5>2 DEF Once
      <4> QED BY <4>1, <4>2
    <3> QED BY <1>3, <3>1 DEF Once
  <2>4. InOrder(Batches)'
    <3> SUFFICES ASSUME NEW i \in 1..N + 2, NEW j \in 1..N + 2,
                        NEW k \in DOMAIN Batches'[i], NEW l \in DOMAIN Batches'[j],
                        i < j \/ (i = j /\ k < l),
                        {Batches'[i][k], Batches'[j][l]} \intersect Others = {}
                 PROVE  \E a, b \in 1..R + 1 :
                          a < b /\ recorded'[a] = Batches'[i][k] /\ recorded'[b] = Batches'[j][l]
      BY <1>3, <1>5 DEF InOrder, RecordedBefore
    <3>1. CASE j # N + 2
      <4>1. i # N + 2 /\ i \in DOMAIN Batches /\ j \in DOMAIN Batches
        BY <1>1, <3>1
      <4>2. RecordedBefore(Batches[i][k], Batches[j][l])
        BY <2>1, <2>2, <3>1, <4>1 DEF InOrder
      <4>3. PICK a, b \in 1..R : a < b /\ recorded[a] = Batches[i][k] /\ recorded[b] = Batches[j][l]
        BY <1>5, <4>2 DEF RecordedBefore
      <4> QED BY <1>5, <2>2, <3>1, <4>1, <4>3
    <3>2. CASE j = N + 2
      <4>1. i # N + 2
        BY <1>8, <2>2, <3>2
      <4>2. PICK a \in 1..R : recorded[a] = Batches'[i][k]
        BY <2>2, <4>1 DEF Contains, R
      <4>3. a < R + 1 /\ R + 1 \in 1..R + 1 /\ a \in 1..R + 1
        BY <1>5
      <4> QED BY <1>5, <2>2, <3>2, <4>2, <4>3
    <3> QED BY <3>1, <3>2
  <2> QED BY <1>6, <1>7, <2>2, <2>3, <2>4
<1>10. NoneForgotten'
  <2> SUFFICES ASSUME crashes = 0, NEW k \in 1..R + 1
               PROVE  \E i \in 1..N + 2 : Contains(Batches'[i], recorded'[k])
    BY <1>3, <1>5 DEF NoneForgotten, Record
  <2>1. CASE k \in 1..R
    <3>1. PICK i \in 1..N + 2 : Contains(Batches[i], recorded[k])
      BY <1>1, <1>5, <2>1 DEF NoneForgotten
    <3>2. i # N + 2
      BY <1>1, <3>1 DEF Contains
    <3> QED BY <1>4, <1>5, <2>1, <3>1, <3>2
  <2>2. CASE k = R + 1
    <3>1. Contains(Batches'[N + 2], m) /\ N + 2 \in 1..N + 2
      BY <1>1, <1>3 DEF Contains
    <3> QED BY <1>5, <2>2, <3>1
  <2> QED BY <1>5, <2>1, <2>2
<1> QED BY <1>9, <1>10

LEMMA TrackedKept ==
  ASSUME LaneInv, LaneInv', Tracked, NoneForgotten, [Next]_vars
  PROVE  Tracked' /\ NoneForgotten'
<1>t. /\ Len(runs) \in Nat /\ DOMAIN runs = 1..Len(runs) /\ dbErrors \in Nat /\ crashes \in Nat
      /\ lane \in Seq(Msgs) /\ pending \in Seq(Texts)
  BY LenProperties DEF LaneInv, Shapes
<1>s. ASSUME SameRuns, pending' = pending, InHand' = InHand,
             UNCHANGED <<dbErrors, crashes>>
      PROVE  Tracked' /\ NoneForgotten'
  <2>1. (\E f : Rearranged(f)) /\ NothingDropped
    BY <1>s, InPlace
  <2> QED BY <1>s, <2>1, StaysTracked, StaysHandedOn
<1>a. ASSUME RunAdded(InHand), pending' = pending, InHand' = << >>,
             pending = << >> \/ \A k \in DOMAIN InHand : InHand[k] \in Others,
             UNCHANGED <<dbErrors, crashes>>
      PROVE  Tracked' /\ NoneForgotten'
  <2>1. (\E f : Rearranged(f)) /\ NothingDropped
    BY <1>a, FromHand
  <2> QED BY <1>a, <2>1, StaysTracked, StaysHandedOn
<1>w. ASSUME RunAdded(pending), pending' = << >>, InHand' = InHand,
             UNCHANGED <<dbErrors, crashes>>
      PROVE  Tracked' /\ NoneForgotten'
  <2>1. (\E f : Rearranged(f)) /\ NothingDropped
    BY <1>w, FromWindow
  <2> QED BY <1>w, <2>1, StaysTracked, StaysHandedOn
<1>1. CASE UNCHANGED vars
  BY <1>1, <1>s DEF vars, SameRuns, InHand
<1>2. ASSUME NEW m \in Msgs, Receive(m) PROVE Tracked' /\ NoneForgotten'
  <2>1. laneAt # "idle" => Head(lane') = Head(lane)
    BY <1>2, <1>t, HeadTailAppend DEF Receive, LaneInv
  <2>2. InHand' = InHand
    BY <1>2, <2>1 DEF InHand, Receive
  <2> QED BY <1>2, <1>s, <2>2 DEF Receive, SameRuns
<1>3. CASE SkipDuplicate
  BY <1>3, <1>s DEF SkipDuplicate, SameRuns, InHand
<1>4. CASE Record
  BY <1>4, RecordTracked
<1>5. CASE HandleUnrecorded
  <2>1. Tracked'
    BY <1>5, <1>t DEF HandleUnrecorded, Tracked
  <2>2. PlacesAre /\ PlacesAre' /\ runs' = runs /\ recorded' = recorded /\ pending' = pending
    BY <1>5, Places, PlacesNext DEF HandleUnrecorded
  <2>3. InHand = << >>
    BY <1>5 DEF HandleUnrecorded, InHand
  <2>4. \A i \in DOMAIN Batches : Batches[i] # << >> => Batches'[i] = Batches[i]
    <3>1. \A i \in DOMAIN Batches : i \in DOMAIN runs \/ i = Len(runs) + 1 \/ i = Len(runs) + 2
      BY <2>2 DEF PlacesAre
    <3> QED BY <2>2, <2>3, <3>1 DEF PlacesAre
  <2>5. NothingDropped
    BY <2>2, <2>4 DEF NothingDropped, PlacesAre
  <2> QED BY <1>5, <2>1, <2>5, StaysHandedOn DEF HandleUnrecorded
<1>6. CASE Route
  <2> DEFINE m == Head(lane)
  <2>1. m \in Msgs /\ laneAt = "routed" /\ InHands /\ InHand = <<m>> /\ <<m>> \in Seq(Msgs)
    BY <1>6, LaneShape DEF Route, LaneInv, InHands, InHand
  <2>2. UNCHANGED <<due, recorded, row, dbErrors, crashes>>
    BY <1>6 DEF Route
  <2>3. CASE m \in Texts /\ Collect(m)
    BY <2>1, <2>2, <2>3, CollectTracked DEF Collect, Joined, LeaveLane, InHand, SameRuns
  <2>4. CASE /\ Await(<<m>>, "handling") /\ UNCHANGED pending
             /\ pending = << >> \/ m \in Others
    <3>1. RunAdded(InHand)
      BY <2>1, <2>2, <2>4, Appended DEF Await
    <3> QED BY <1>a, <2>1, <2>2, <2>4, <3>1 DEF Await, InHand
  <2>5. CASE Await(pending, "flushing") /\ pending' = << >>
    <3>1. RunAdded(pending)
      BY <2>2, <2>5, Appended, PendingShape DEF Await
    <3> QED BY <1>w, <2>1, <2>2, <2>5, <3>1 DEF Await, InHand
  <2> QED BY <1>6, <2>3, <2>4, <2>5 DEF Route, HandleText, HandleFile, LaneInv
<1>7. CASE LaneResumes
  <2>1. lane # << >> /\ UNCHANGED <<due, recorded, pending, row, dbErrors, crashes>>
    BY <1>7 DEF LaneResumes, LaneInv
  <2>2. CASE laneAt = "flushing" /\ Await(<<Head(lane)>>, "handling")
    <3>1. InHand = <<Head(lane)>> /\ InHand \in Seq(Msgs) /\ pending = << >>
      BY <2>1, <2>2, LaneShape DEF InHand, LaneInv
    <3>2. RunAdded(InHand)
      BY <2>1, <2>2, <3>1, Appended DEF Await
    <3> QED BY <1>a, <2>1, <2>2, <3>1, <3>2 DEF Await, InHand
  <2>3. CASE laneAt = "handling" /\ LeaveLane /\ UNCHANGED runs
    BY <1>s, <2>1, <2>3 DEF LeaveLane, InHand, SameRuns
  <2> QED BY <1>7, <2>2, <2>3 DEF LaneResumes
<1>8. CASE TimerFires
  <2>1. RunAdded(pending)
    BY <1>8, Appended, PendingShape DEF TimerFires
  <2> QED BY <1>8, <1>w, <2>1 DEF TimerFires, Closed, InHand
<1>9. ASSUME NEW i \in DOMAIN runs, RunStep(i) PROVE Tracked' /\ NoneForgotten'
  BY <1>9, <1>s, RunShape DEF SameRuns, InHand
<1>10. CASE Crash
  <2>1. SameRuns
    BY <1>10, CrashShape DEF Crash, SameRuns
  <2>2. PICK f : Rearranged(f)
    BY <1>10, <2>1, InPlace DEF Crash, InHand
  <2>3. Tracked'
    BY <1>10, <2>2, StaysTracked DEF Crash
  <2> QED BY <1>10, <1>t, <2>3 DEF Crash, NoneForgotten
<1> QED BY <1>1, <1>2, <1>3, <1>4, <1>5, <1>6, <1>7, <1>8, <1>9, <1>10 DEF Next, LaneStep

(* The runs, the window and the lane's hand start empty, and stay in step. *)
LEMMA TrackedAlways == Spec => [](Tracked /\ NoneForgotten)
<1>1. Init => LaneInv /\ Counted
  BY LaneInit
<1>2. Init => Tracked /\ NoneForgotten
  <2> SUFFICES ASSUME Init PROVE Tracked /\ NoneForgotten
    OBVIOUS
  <2>1. runs = << >> /\ pending = << >> /\ InHand = << >> /\ recorded = << >>
    BY DEF Init, InHand
  <2>2. \A i \in DOMAIN Batches : Batches[i] = << >>
    BY <2>1 DEF Batches
  <2> QED BY <2>1, <2>2 DEF Tracked, NoneForgotten, Once, InOrder
<1>3. LaneInv /\ Counted /\ Tracked /\ NoneForgotten /\ [Next]_vars =>
        (LaneInv /\ Counted /\ Tracked /\ NoneForgotten)'
  BY LaneKept, TrackedKept
<1> QED BY <1>1, <1>2, <1>3, PTL DEF Spec

(* Unless an insert failed, no message is handled twice, whatever Meta     *)
(* delivers again and whenever the server restarts: in every state its one *)
(* place is a run, the open window, or the lane's hand (whatsapp.service,  *)
(* debouncer).                                                             *)
THEOREM HandledAtMostOnce == Spec => []HandledOnce
<1>1. Tracked => HandledOnce
  BY DEF Tracked, HandledOnce
<1> QED BY <1>1, TrackedAlways, PTL

(* Until the server restarts every stored message is in a run, in the open *)
(* window or in the lane's hand: what will never be handled again has been *)
(* handed on.                                                              *)
THEOREM NothingForgotten == Spec => []NoneForgotten
BY TrackedAlways, PTL

(* Texts and files reach their handlers in the order in which the lane     *)
(* took them up: a file never overtakes the texts of the open window.      *)
THEOREM TextsBeforeTheFile == Spec => []TakenInOrder
<1>1. Tracked => TakenInOrder
  BY DEF Tracked, TakenInOrder
<1> QED BY <1>1, TrackedAlways, PTL

-----------------------------------------------------------------------------
(* Without a window.                                                       *)

LEMMA AloneKept ==
  ASSUME LaneInv, Alone, [Next]_vars
  PROVE  Alone'
<1> SUFFICES ASSUME ~debounced
             PROVE  /\ \A i \in DOMAIN runs' : Running(i)' => i = laneRun'
                    /\ \A i \in DOMAIN runs' : runs'[i].at = "save" => runs'[i].seen = row'
                    /\ \A i \in DOMAIN runs' : runs'[i].saved => ToSet(runs'[i].msgs) \subseteq row'
  BY DEF Next, vars, Alone, AnswersKept
<1>t. /\ Len(runs) \in Nat /\ DOMAIN runs = 1..Len(runs) /\ laneRun \in 0..Len(runs)
      /\ pending = << >> /\ runs \in Seq(RunRecords)
  BY LenProperties DEF LaneInv, Shapes
<1>a. /\ \A i \in DOMAIN runs : Running(i) => i = laneRun
      /\ \A i \in DOMAIN runs : runs[i].at = "save" => runs[i].seen = row
      /\ \A i \in DOMAIN runs : runs[i].saved => ToSet(runs[i].msgs) \subseteq row
  BY DEF Alone, AnswersKept
<1>s. ASSUME UNCHANGED <<runs, row>>, laneRun' = laneRun \/ ~\E i \in DOMAIN runs : Running(i)
      PROVE  /\ \A i \in DOMAIN runs' : Running(i)' => i = laneRun'
             /\ \A i \in DOMAIN runs' : runs'[i].at = "save" => runs'[i].seen = row'
             /\ \A i \in DOMAIN runs' : runs'[i].saved => ToSet(runs'[i].msgs) \subseteq row'
  BY <1>a, <1>s DEF Running
<1>w. ASSUME NEW msgs \in Seq(Msgs), NEW point, Await(msgs, point), row' = row,
             ~\E i \in DOMAIN runs : Running(i)
      PROVE  /\ \A i \in DOMAIN runs' : Running(i)' => i = laneRun'
             /\ \A i \in DOMAIN runs' : runs'[i].at = "save" => runs'[i].seen = row'
             /\ \A i \in DOMAIN runs' : runs'[i].saved => ToSet(runs'[i].msgs) \subseteq row'
  <2>1. /\ runs' \in Seq(RunRecords) /\ Len(runs') = Len(runs) + 1
        /\ runs'[Len(runs) + 1] = Run(msgs) /\ \A i \in 1..Len(runs) : runs'[i] = runs[i]
        /\ laneRun' = Len(runs) + 1
    BY <1>t, <1>w, NewRun, AppendProperties DEF Await
  <2>2. DOMAIN runs' = 1..Len(runs) + 1
    BY <2>1, LenProperties
  <2>3. \A i \in DOMAIN runs' : i \in DOMAIN runs \/ i = Len(runs) + 1
    BY <1>t, <2>2
  <2>4. ~Run(msgs).saved /\ Run(msgs).at = "read"
    BY DEF Run
  <2> QED BY <1>a, <1>t, <1>w, <2>1, <2>3, <2>4 DEF Running
<1>1. CASE UNCHANGED vars
  BY <1>1, <1>s DEF vars
<1>2. CASE \E m \in Msgs : Receive(m)
  BY <1>2, <1>s DEF Receive
<1>3. CASE SkipDuplicate
  BY <1>3, <1>s DEF SkipDuplicate
<1>4. CASE Record
  BY <1>4, <1>s DEF Record
<1>5. CASE HandleUnrecorded
  BY <1>5, <1>s DEF HandleUnrecorded
<1>6. CASE Route
  <2>1. /\ ~\E i \in DOMAIN runs : Running(i)
        /\ <<Head(lane)>> \in Seq(Msgs)
        /\ row' = row
    BY <1>6, <1>a, <1>t, LaneShape DEF Route, LaneInv
  <2>2. Await(<<Head(lane)>>, "handling")
    <3>1. CASE Head(lane) \in Texts /\ HandleText(Head(lane))
      BY <3>1 DEF HandleText, Collect
    <3>2. CASE Head(lane) \in Files /\ HandleFile(Head(lane))
      BY <1>t, <3>2 DEF HandleFile
    <3> QED BY <1>6, <3>1, <3>2 DEF Route
  <2> QED BY <1>w, <2>1, <2>2
<1>7. CASE LaneResumes
  <2>1. laneRun \in DOMAIN runs /\ ~Running(laneRun)
    BY <1>7, <1>t DEF LaneResumes, Over, Running
  <2>2. /\ ~\E i \in DOMAIN runs : Running(i)
        /\ <<Head(lane)>> \in Seq(Msgs)
        /\ row' = row
    <3>1. lane # << >> /\ row' = row
      BY <1>7 DEF LaneResumes, LaneInv
    <3>2. <<Head(lane)>> \in Seq(Msgs)
      BY <3>1, LaneShape
    <3> QED BY <1>a, <2>1, <3>1, <3>2
  <2> QED BY <1>7, <1>s, <1>w, <2>2 DEF LaneResumes, LeaveLane
<1>8. CASE TimerFires
  BY <1>8, <1>t DEF TimerFires
<1>9. ASSUME NEW i \in DOMAIN runs, RunStep(i)
      PROVE  /\ \A j \in DOMAIN runs' : Running(j)' => j = laneRun'
             /\ \A j \in DOMAIN runs' : runs'[j].at = "save" => runs'[j].seen = row'
             /\ \A j \in DOMAIN runs' : runs'[j].saved => ToSet(runs'[j].msgs) \subseteq row'
  <2>1. i = laneRun /\ laneRun' = laneRun
    BY <1>9, <1>a DEF RunStep, ReadRow, SaveRow, SaveNothing, Reply, Running
  <2>2. \A j \in DOMAIN runs : j # i => runs[j].at # "save" /\ ~Running(j)
    BY <1>a, <2>1 DEF Running
  <2>3. runs[i] \in RunRecords
    BY <1>t, ElementOfSeq
  <2>4. DOMAIN runs' = DOMAIN runs /\ \A j \in DOMAIN runs : j # i => runs'[j] = runs[j]
    BY <1>9, <1>t DEF RunStep, ReadRow, SaveRow, SaveNothing, Reply, SetRun
  <2>5. /\ row \subseteq row'
        /\ runs'[i].at = "save" => runs'[i].seen = row'
        /\ runs'[i].saved => ToSet(runs'[i].msgs) \subseteq row'
    <3>1. CASE ReadRow(i)
      BY <1>9, <1>a, <2>3, <3>1 DEF ReadRow, SetRun, RunRecords
    <3>2. CASE SaveRow(i)
      BY <1>9, <1>a, <2>3, <3>2 DEF SaveRow, SetRun, NewData, RunRecords
    <3>3. CASE SaveNothing(i)
      BY <1>9, <1>a, <2>3, <3>3 DEF SaveNothing, SetRun, RunRecords
    <3>4. CASE Reply(i)
      BY <1>9, <1>a, <2>3, <3>4 DEF Reply, SetRun, RunRecords
    <3> QED BY <1>9, <3>1, <3>2, <3>3, <3>4 DEF RunStep
  <2> QED BY <1>a, <2>1, <2>2, <2>4, <2>5 DEF Running
<1>10. CASE Crash
  <2>1. /\ DOMAIN runs' = DOMAIN runs /\ row' = row
        /\ \A i \in DOMAIN runs : /\ runs'[i].msgs = runs[i].msgs
                                /\ runs'[i].saved = runs[i].saved
                                /\ runs'[i].at \in {"done", "lost"}
    BY <1>10, CrashShape DEF Crash
  <2> QED BY <1>a, <2>1 DEF Running
<1> QED BY <1>1, <1>2, <1>3, <1>4, <1>5, <1>6, <1>7, <1>8, <1>9, <1>10 DEF Next, LaneStep

(* With WA_DEBOUNCE_MS = 0 the handlers of a number never overlap, and no  *)
(* answer that one of them saved is overwritten by another's stale copy of *)
(* DraftIntake.data.                                                       *)
THEOREM OneAtATimeUnbatched == Spec => []UnbatchedInTurn
<1>1. Init => LaneInv /\ Counted
  BY LaneInit
<1>2. Init => Alone
  BY DEF Init, Alone, AnswersKept
<1>3. LaneInv /\ Counted /\ Alone /\ [Next]_vars => (LaneInv /\ Counted /\ Alone)'
  BY LaneKept, AloneKept
<1>4. Alone => UnbatchedInTurn
  BY DEF Alone, UnbatchedInTurn, OneAfterAnother
<1> QED BY <1>1, <1>2, <1>3, <1>4, PTL DEF Spec
-----------------------------------------------------------------------------
(* Refinement.  A message changes its stage when it is recorded, when its  *)
(* run ends and when the server restarts; every other step moves it from   *)
(* the lane's hand or the window to a run, where it waits as before.       *)

(* Only texts share a run, and without a window nothing is flushed.        *)
OneKind ==
  /\ \A i \in DOMAIN runs :
       runs[i].msgs \in Seq(Texts) \/ \E m \in Msgs : runs[i].msgs = <<m>>
  /\ ~debounced => laneAt # "flushing"

RunsHold(m) == \E i \in DOMAIN runs : Running(i) /\ Contains(runs[i].msgs, m)

Stages == [m \in Msgs |-> Stage(m)]

(* The lane or the timer starts a run, which holds its messages. *)
LEMMA RunStarted ==
  ASSUME LaneInv, NEW msgs \in Seq(Msgs), runs' = Append(runs, Run(msgs))
  PROVE  /\ \A i \in DOMAIN runs : i \in DOMAIN runs' /\ runs'[i] = runs[i]
         /\ Len(runs) + 1 \in DOMAIN runs' /\ runs'[Len(runs) + 1].msgs = msgs
         /\ \A i \in DOMAIN runs' : i \in DOMAIN runs \/ i = Len(runs) + 1
         /\ \A m \in Msgs : /\ Answered(m)' <=> Answered(m)
                            /\ RunsHold(m)' <=> RunsHold(m) \/ Contains(msgs, m)
<1>1. /\ runs \in Seq(RunRecords) /\ DOMAIN runs = 1..Len(runs) /\ Len(runs) \in Nat
      /\ Run(msgs) \in RunRecords
  BY NewRun, LenProperties DEF LaneInv, Shapes
<1>2. /\ runs' \in Seq(RunRecords) /\ Len(runs') = Len(runs) + 1
      /\ runs'[Len(runs) + 1] = Run(msgs)
      /\ \A i \in 1..Len(runs) : runs'[i] = runs[i]
  BY <1>1, AppendProperties
<1>3. DOMAIN runs' = 1..Len(runs) + 1
  BY <1>2, LenProperties
<1>4. /\ \A i \in DOMAIN runs : i \in DOMAIN runs' /\ runs'[i] = runs[i]
      /\ Len(runs) + 1 \in DOMAIN runs' /\ runs'[Len(runs) + 1].msgs = msgs
      /\ runs'[Len(runs) + 1].at = "read"
      /\ \A i \in DOMAIN runs' : i \in DOMAIN runs \/ i = Len(runs) + 1
  BY <1>1, <1>2, <1>3 DEF Run
<1>5. \A m \in Msgs : /\ Answered(m)' <=> Answered(m)
                      /\ RunsHold(m)' <=> RunsHold(m) \/ Contains(msgs, m)
  BY <1>4 DEF Answered, RunsHold, Running
<1> QED BY <1>4, <1>5

LEMMA OneKindKept ==
  ASSUME LaneInv, OneKind, [Next]_vars
  PROVE  OneKind'
<1>s. ASSUME DOMAIN runs' = DOMAIN runs, \A i \in DOMAIN runs : runs'[i].msgs = runs[i].msgs,
             debounced' = debounced, laneAt' = "flushing" => laneAt = "flushing"
      PROVE  OneKind'
  BY <1>s DEF OneKind
<1>a. ASSUME NEW msgs \in Seq(Msgs), msgs \in Seq(Texts) \/ \E m \in Msgs : msgs = <<m>>,
             runs' = Append(runs, Run(msgs)),
             debounced' = debounced, ~debounced => laneAt' # "flushing"
      PROVE  OneKind'
  BY <1>a, RunStarted DEF OneKind
<1>1. CASE UNCHANGED vars
  BY <1>1, <1>s DEF vars
<1>2. CASE /\ \/ \E m \in Msgs : Receive(m)
              \/ SkipDuplicate \/ Record \/ HandleUnrecorded
           /\ UNCHANGED debounced
  BY <1>2, <1>s DEF Receive, SkipDuplicate, Record, HandleUnrecorded
<1>3. CASE Route /\ UNCHANGED debounced
  <2>1. lane # << >> /\ Head(lane) \in Msgs /\ <<Head(lane)>> \in Seq(Msgs)
    BY <1>3, LaneShape DEF Route, LaneInv
  <2>2. CASE Await(<<Head(lane)>>, "handling")
    BY <1>3, <1>a, <2>1, <2>2 DEF Await
  <2>3. CASE Await(pending, "flushing") /\ pending # << >>
    <3>1. debounced /\ pending \in Seq(Texts)
      BY <2>3 DEF LaneInv, Shapes
    <3> QED BY <1>3, <1>a, <2>3, <3>1, PendingShape DEF Await
  <2>4. CASE Collect(Head(lane))
    BY <1>3, <1>s, <2>4 DEF Collect, LeaveLane
  <2> QED BY <1>3, <2>2, <2>3, <2>4 DEF Route, HandleText, HandleFile
<1>4. CASE LaneResumes /\ UNCHANGED debounced
  <2>1. lane # << >> /\ Head(lane) \in Msgs /\ <<Head(lane)>> \in Seq(Msgs)
    BY <1>4, LaneShape DEF LaneResumes, LaneInv
  <2>2. CASE Await(<<Head(lane)>>, "handling")
    BY <1>4, <1>a, <2>1, <2>2 DEF Await
  <2>3. CASE LeaveLane /\ UNCHANGED runs
    BY <1>4, <1>s, <2>3 DEF LeaveLane
  <2> QED BY <1>4, <2>2, <2>3 DEF LaneResumes
<1>5. CASE TimerFires /\ UNCHANGED debounced
  <2>1. pending \in Seq(Texts)
    BY DEF LaneInv, Shapes
  <2> QED BY <1>5, <1>a, <2>1, PendingShape DEF TimerFires, OneKind
<1>6. ASSUME NEW i \in DOMAIN runs, RunStep(i), UNCHANGED debounced PROVE OneKind'
  <2>1. DOMAIN runs' = DOMAIN runs
    BY <1>6 DEF RunStep, ReadRow, SaveRow, SaveNothing, Reply, SetRun
  <2> QED BY <1>6, <1>s, <2>1, RunShape
<1>7. CASE Crash /\ UNCHANGED debounced
  BY <1>7, <1>s, CrashShape DEF Crash
<1> QED BY <1>1, <1>2, <1>3, <1>4, <1>5, <1>6, <1>7 DEF Next, LaneStep

(* Until an insert fails, what waits or is answered was stored, nothing    *)
(* waits that is answered, and a message is in one run.                    *)
LEMMA OnePlace ==
  ASSUME LaneInv, Tracked, dbErrors = 0, NEW m \in Msgs
  PROVE  /\ Answered(m) \/ Waits(m) => Contains(recorded, m)
         /\ ~(Answered(m) /\ Waits(m))
         /\ \A i, j \in DOMAIN runs :
              Contains(runs[i].msgs, m) /\ Contains(runs[j].msgs, m) => i = j
<1>1. PlacesAre
  BY Places
<1>2. \A i \in DOMAIN Batches : DOMAIN Batches[i] = 1..Len(Batches[i])
  BY <1>1, LenProperties DEF PlacesAre
<1>3. \A i \in DOMAIN Batches : Contains(Batches[i], m) => Contains(recorded, m)
  BY <1>2 DEF Tracked, Contains
<1>4. \A i, j \in DOMAIN Batches : Contains(Batches[i], m) /\ Contains(Batches[j], m) => i = j
  BY <1>2 DEF Tracked, Once, Contains
<1>5. /\ \A i \in DOMAIN runs : i \in DOMAIN Batches /\ Batches[i] = runs[i].msgs
      /\ Len(runs) + 1 \in DOMAIN Batches \ DOMAIN runs /\ Batches[Len(runs) + 1] = pending
      /\ Len(runs) + 2 \in DOMAIN Batches \ DOMAIN runs /\ Batches[Len(runs) + 2] = InHand
  BY <1>1 DEF PlacesAre
<1>6. \A i \in DOMAIN runs : runs[i].at = "done" => ~Running(i)
  BY DEF Running
<1> QED BY <1>3, <1>4, <1>5, <1>6 DEF Answered, Waits

LEMMA WaitsSplit ==
  \A m : Waits(m) <=> Contains(pending, m) \/ Contains(InHand, m) \/ RunsHold(m)
BY DEF Waits, RunsHold

LEMMA SameStages ==
  ASSUME recorded' = recorded,
         \A m \in Msgs : (Answered(m)' <=> Answered(m)) /\ (Waits(m)' <=> Waits(m))
  PROVE  Stages' = Stages
<1>1. \A m \in Msgs : Stage(m)' = Stage(m)
  BY DEF Stage
<1> QED BY <1>1 DEF Stages

(* Every step maps to a step of Mailbox or leaves its variables alone. *)
LEMMA MailStep ==
  ASSUME LaneInv, LaneInv', Tracked, Alone, OneKind, [Next]_vars
  PROVE  Box!Next \/ UNCHANGED Box!vars
<1> DEFINE Same == UNCHANGED <<debounced, crashes, dbErrors>>
<1>q. ASSUME Same, recorded' = recorded,
             \A m \in Msgs : (Answered(m)' <=> Answered(m)) /\ (Waits(m)' <=> Waits(m))
      PROVE  UNCHANGED Box!vars
  BY <1>q, SameStages DEF Box!vars, Stages
<1>r. ASSUME Same, UNCHANGED <<recorded, runs>>,
             \A m \in Msgs : Contains(pending', m) \/ Contains(InHand', m)
                               <=> Contains(pending, m) \/ Contains(InHand, m)
      PROVE  UNCHANGED Box!vars
  <2>1. \A m \in Msgs : (Answered(m)' <=> Answered(m)) /\ (RunsHold(m)' <=> RunsHold(m))
    BY <1>r DEF Answered, RunsHold, Running
  <2>2. \A m \in Msgs : Waits(m)' <=> Contains(pending', m) \/ Contains(InHand', m) \/ RunsHold(m)'
    BY DEF Waits, RunsHold
  <2>3. \A m \in Msgs : Waits(m)' <=> Waits(m)
    BY <1>r, <2>1, <2>2, WaitsSplit
  <2> QED BY <1>q, <1>r, <2>1, <2>3
<1>a. ASSUME Same, recorded' = recorded, NEW msgs \in Seq(Msgs), runs' = Append(runs, Run(msgs)),
             \A m \in Msgs : Contains(pending', m) \/ Contains(InHand', m) \/ Contains(msgs, m)
                               <=> Contains(pending, m) \/ Contains(InHand, m)
      PROVE  UNCHANGED Box!vars
  <2>1. \A m \in Msgs : /\ Answered(m)' <=> Answered(m)
                        /\ RunsHold(m)' <=> RunsHold(m) \/ Contains(msgs, m)
    BY <1>a, RunStarted
  <2>2. \A m \in Msgs : Waits(m)' <=> Contains(pending', m) \/ Contains(InHand', m) \/ RunsHold(m)'
    BY DEF Waits, RunsHold
  <2>3. \A m \in Msgs : Waits(m)' <=> Waits(m)
    BY <1>a, <2>1, <2>2, WaitsSplit
  <2> QED BY <1>q, <1>a, <2>1, <2>3
<1>e. /\ \A m : ~Contains(<< >>, m)
      /\ \A m, n : Contains(<<n>>, m) <=> m = n
  BY DEF Contains
<1>f. ASSUME dbErrors' > 0, UNCHANGED debounced PROVE Box!Next
  BY <1>f DEF Box!Next
<1>t. dbErrors \in Nat /\ (dbErrors # 0 => dbErrors > 0)
  BY DEF LaneInv, Shapes
<1>1. CASE UNCHANGED vars
  BY <1>1, <1>r DEF vars, InHand
<1>2. ASSUME NEW m \in Msgs, Receive(m), UNCHANGED debounced PROVE UNCHANGED Box!vars
  <2>1. laneAt # "idle" => Head(lane') = Head(lane)
    BY <1>2, HeadTailAppend DEF Receive, LaneInv, Shapes
  <2>2. InHand' = InHand
    BY <1>2, <2>1 DEF InHand, Receive
  <2> QED BY <1>2, <1>r, <2>2 DEF Receive
<1>3. CASE SkipDuplicate /\ UNCHANGED debounced
  BY <1>3, <1>r DEF SkipDuplicate, InHand
<1>4. CASE Record /\ UNCHANGED debounced
  <2>0. CASE dbErrors # 0
    BY <1>4, <1>f, <1>t, <2>0 DEF Record
  <2>1. CASE dbErrors = 0
    <3>0. Head(lane) \in Msgs
      BY <1>4, LaneShape DEF Record
    <3> PICK m \in Msgs : m = Head(lane)
      BY <3>0
    <3>1. ~Contains(recorded, m) /\ UNCHANGED <<runs, pending, crashes, dbErrors, debounced>>
      BY <1>4 DEF Record, Duplicate
    <3>2. InHand = << >> /\ InHand' = <<m>>
      BY <1>4 DEF Record, InHand
    <3>3. \A n \in Msgs : Contains(recorded', n) <=> Contains(recorded, n) \/ n = m
      <4>1. /\ recorded \in Seq(Msgs) /\ Len(recorded) \in Nat /\ recorded' = Append(recorded, m)
        BY <1>4, LenProperties DEF Record, LaneInv, Shapes
      <4>2. /\ Len(recorded') = Len(recorded) + 1 /\ recorded'[Len(recorded) + 1] = m
            /\ \A k \in 1..Len(recorded) : recorded'[k] = recorded[k]
        BY <3>1, <4>1, AppendProperties
      <4>3. 1..Len(recorded) + 1 = 1..Len(recorded) \union {Len(recorded) + 1}
        BY <4>1
      <4> QED BY <4>2, <4>3 DEF Contains
    <3>4. \A n \in Msgs : (Answered(n)' <=> Answered(n)) /\ (RunsHold(n)' <=> RunsHold(n))
      BY <3>1 DEF Answered, RunsHold, Running
    <3>5. \A n \in Msgs : Waits(n)' <=> Contains(pending', n) \/ Contains(InHand', n) \/ RunsHold(n)'
      BY DEF Waits, RunsHold
    <3>6. \A n \in Msgs : Waits(n)' <=> Waits(n) \/ n = m
      BY <1>e, <3>1, <3>2, <3>4, <3>5, WaitsSplit
    <3>7. ~Answered(m) /\ ~Waits(m)
      BY <2>1, <3>1, OnePlace
    <3>8. Stage(m) = "new" /\ Stage(m)' = "waiting"
      BY <3>1, <3>4, <3>6, <3>7 DEF Stage
    <3>9. \A n \in Msgs \ {m} : Stage(n)' = Stage(n)
      BY <3>3, <3>4, <3>6 DEF Stage
    <3>10. Stages[m] = "new" /\ Stages' = [Stages EXCEPT ![m] = "waiting"]
      BY <3>1, <3>8, <3>9 DEF Stages
    <3>11. debounced \/ \A n \in Msgs : Stages[n] # "waiting"
      <4> SUFFICES ASSUME ~debounced, NEW n \in Msgs PROVE ~Waits(n)
        BY DEF Stages, Stage
      <4>1. laneRun = 0 /\ pending = << >> /\ \A i \in DOMAIN runs : Running(i) => i = 0
        BY <1>4 DEF Record, LaneInv, Alone
      <4>2. 0 \notin DOMAIN runs
        BY LenProperties DEF LaneInv, Shapes
      <4>3. ~RunsHold(n)
        BY <4>1, <4>2 DEF RunsHold
      <4> QED BY <1>e, <3>2, <4>1, <4>3, WaitsSplit
    <3>12. Box!Take(m)
      BY <3>1, <3>10, <3>11 DEF Box!Take, Box!Waiting, Stages
    <3> QED BY <3>1, <3>12 DEF Box!Next
  <2> QED BY <2>0, <2>1
<1>5. CASE HandleUnrecorded /\ UNCHANGED debounced
  BY <1>5, <1>f, <1>t DEF HandleUnrecorded
<1>6. CASE Route /\ UNCHANGED debounced
  <2> DEFINE m == Head(lane)
  <2>1. m \in Msgs /\ laneAt = "routed" /\ InHand = <<m>> /\ <<m>> \in Seq(Msgs)
    BY <1>6, LaneShape DEF Route, LaneInv, InHand
  <2>2. Same /\ recorded' = recorded
    BY <1>6 DEF Route
  <2>3. CASE Collect(m)
    <3>1. pending' = Append(pending, m) /\ InHand' = << >> /\ runs' = runs
      BY <2>3 DEF Collect, Joined, LeaveLane, InHand
    <3>2. \A n \in Msgs : Contains(pending', n) <=> Contains(pending, n) \/ n = m
      <4>1. pending \in Seq(Msgs) /\ Len(pending) \in Nat
        BY PendingShape
      <4>2. /\ Len(pending') = Len(pending) + 1 /\ pending'[Len(pending) + 1] = m
            /\ \A k \in 1..Len(pending) : pending'[k] = pending[k]
        BY <2>1, <3>1, <4>1, AppendProperties
      <4>3. 1..Len(pending) + 1 = 1..Len(pending) \union {Len(pending) + 1}
        BY <4>1
      <4> QED BY <4>2, <4>3 DEF Contains
    <3> HIDE DEF m
    <3> QED BY <1>e, <1>r, <2>1, <2>2, <3>1, <3>2
  <2>4. CASE Await(<<m>>, "handling") /\ UNCHANGED pending
    <3>1. InHand' = << >> /\ runs' = Append(runs, Run(<<m>>))
      BY <2>4 DEF Await, InHand
    <3> HIDE DEF m
    <3> QED BY <1>a, <1>e, <2>1, <2>2, <2>4, <3>1
  <2>5. CASE Await(pending, "flushing") /\ pending' = << >>
    <3>1. InHand' = InHand /\ runs' = Append(runs, Run(pending))
      BY <2>1, <2>5 DEF Await, InHand
    <3> QED BY <1>a, <1>e, <2>2, <2>5, <3>1, PendingShape
  <2> QED BY <1>6, <2>3, <2>4, <2>5 DEF Route, HandleText, HandleFile
<1>7. CASE LaneResumes /\ UNCHANGED debounced
  <2>1. lane # << >> /\ Same /\ UNCHANGED <<recorded, pending>>
    BY <1>7 DEF LaneResumes, LaneInv
  <2>2. CASE laneAt = "flushing" /\ Await(<<Head(lane)>>, "handling")
    <3>1. /\ InHand = <<Head(lane)>> /\ InHand' = << >> /\ InHand \in Seq(Msgs)
          /\ runs' = Append(runs, Run(InHand))
      BY <2>1, <2>2, LaneShape DEF InHand, Await
    <3> QED BY <1>a, <1>e, <2>1, <3>1
  <2>3. CASE laneAt = "handling" /\ LeaveLane /\ UNCHANGED runs
    <3>1. InHand' = InHand
      BY <2>3 DEF LeaveLane, InHand
    <3> QED BY <1>r, <2>1, <2>3, <3>1
  <2> QED BY <1>7, <2>2, <2>3 DEF LaneResumes
<1>8. CASE TimerFires /\ UNCHANGED debounced
  <2>1. /\ InHand' = InHand /\ runs' = Append(runs, Run(pending)) /\ pending' = << >>
        /\ Same /\ recorded' = recorded
    BY <1>8 DEF TimerFires, InHand, Closed
  <2> QED BY <1>a, <1>e, <2>1, PendingShape
<1>9. ASSUME NEW i \in DOMAIN runs, RunStep(i), UNCHANGED debounced
      PROVE Box!Next \/ UNCHANGED Box!vars
  <2>1. /\ DOMAIN runs' = DOMAIN runs /\ \A j \in DOMAIN runs : runs'[j].msgs = runs[j].msgs
        /\ \A j \in DOMAIN runs : j # i => runs'[j] = runs[j]
        /\ Same /\ UNCHANGED <<recorded, pending>> /\ InHand' = InHand
    BY <1>9, RunShape DEF RunStep, ReadRow, SaveRow, SaveNothing, Reply, SetRun, InHand
  <2>2. runs[i] \in RunRecords
    BY ElementOfSeq DEF LaneInv, Shapes
  <2>3. \A m \in Msgs : Waits(m)' <=> Contains(pending', m) \/ Contains(InHand', m) \/ RunsHold(m)'
    BY DEF Waits, RunsHold
  <2>4. CASE ReadRow(i) \/ SaveRow(i) \/ SaveNothing(i)
    <3>1. runs[i].at \in {"read", "save"} /\ runs'[i].at \in {"save", "reply"}
      <4>1. CASE ReadRow(i)
        BY <2>2, <4>1 DEF ReadRow, SetRun, RunRecords
      <4>2. CASE SaveRow(i)
        BY <2>2, <4>2 DEF SaveRow, SetRun, RunRecords
      <4>3. CASE SaveNothing(i)
        BY <2>2, <4>3 DEF SaveNothing, SetRun, RunRecords
      <4> QED BY <2>4, <4>1, <4>2, <4>3
    <3>2. \A j \in DOMAIN runs : /\ Running(j)' <=> Running(j)
                                 /\ runs'[j].at = "done" <=> runs[j].at = "done"
      BY <2>1, <3>1 DEF Running
    <3>3. \A m \in Msgs : (Answered(m)' <=> Answered(m)) /\ (RunsHold(m)' <=> RunsHold(m))
      BY <2>1, <3>2 DEF Answered, RunsHold
    <3>4. \A m \in Msgs : Waits(m)' <=> Waits(m)
      BY <2>1, <2>3, <3>3, WaitsSplit
    <3> QED BY <1>q, <2>1, <3>3, <3>4
  <2>5. CASE Reply(i)
    <3> DEFINE S == {m \in Msgs : Contains(runs[i].msgs, m)}
    <3>0. CASE dbErrors # 0
      BY <1>9, <1>f, <1>t, <2>1, <3>0
    <3>1. CASE dbErrors = 0
      <4>1. Running(i) /\ ~Running(i)' /\ runs'[i].at = "done" /\ runs[i].at # "done"
        BY <2>2, <2>5 DEF Reply, SetRun, Running, RunRecords
      <4>2. \A j \in DOMAIN runs : j # i => /\ Running(j)' <=> Running(j)
                                            /\ runs'[j].at = runs[j].at
        BY <2>1 DEF Running
      <4>3. \A m \in Msgs : Answered(m)' <=> Answered(m) \/ m \in S
        BY <2>1, <4>1, <4>2 DEF Answered
      <4>4. \A m \in Msgs \ S : RunsHold(m)' <=> RunsHold(m)
        BY <2>1, <4>1, <4>2 DEF RunsHold
      <4>5. \A m \in Msgs \ S : Waits(m)' <=> Waits(m)
        BY <2>1, <2>3, <4>4, WaitsSplit
      <4>6. \A m \in S : Waits(m)
        BY <4>1 DEF Waits
      <4>7. \A m \in S : Stage(m) = "waiting" /\ Stage(m)' = "answered"
        BY <3>1, <4>3, <4>6, OnePlace DEF Stage
      <4>8. \A m \in Msgs \ S : Stage(m)' = Stage(m)
        BY <2>1, <4>3, <4>5 DEF Stage
      <4>9. S \subseteq Texts \/ \E m \in Msgs : S = {m}
        <5>1. CASE runs[i].msgs \in Seq(Texts)
          BY <5>1, LenProperties, ElementOfSeq DEF Contains
        <5>2. ASSUME NEW m \in Msgs, runs[i].msgs = <<m>> PROVE S = {m}
          BY <1>e, <5>2
        <5> QED BY <5>1, <5>2 DEF OneKind
      <4>10. S \subseteq Msgs
        OBVIOUS
      <4> HIDE DEF S
      <4>11. Box!Answer(S)
        BY <2>1, <4>7, <4>8, <4>9, <4>10 DEF Box!Answer, Box!Waiting
      <4> QED BY <1>9, <2>1, <4>10, <4>11 DEF Box!Next
    <3> QED BY <3>0, <3>1
  <2> QED BY <1>9, <2>4, <2>5 DEF RunStep
<1>10. CASE Crash /\ UNCHANGED debounced
  <2>0. CASE dbErrors # 0
    BY <1>10, <1>f, <1>t, <2>0 DEF Crash
  <2>1. CASE dbErrors = 0
    <3>1. /\ DOMAIN runs' = DOMAIN runs /\ \A i \in DOMAIN runs : runs'[i].msgs = runs[i].msgs
          /\ \A i \in DOMAIN runs : runs'[i].at = "done" <=> runs[i].at = "done"
          /\ \A i \in DOMAIN runs : ~Running(i)'
      <4>1. DOMAIN runs' = DOMAIN runs
        BY <1>10 DEF Crash
      <4>2. \A i \in DOMAIN runs : runs[i] \in RunRecords
        BY ElementOfSeq DEF LaneInv, Shapes
      <4>3. \A i \in DOMAIN runs : runs'[i].at = IF runs[i].at = "done" THEN "done" ELSE "lost"
        BY <1>10, <4>2 DEF Crash, RunRecords
      <4> QED BY <1>10, <4>1, <4>3, CrashShape DEF Running
    <3>2. pending' = << >> /\ InHand' = << >> /\ recorded' = recorded /\ dbErrors' = dbErrors
          /\ crashes' = crashes + 1
      BY <1>10 DEF Crash, InHand
    <3>3. \A m \in Msgs : Answered(m)' <=> Answered(m)
      BY <3>1 DEF Answered
    <3>4. \A m \in Msgs : ~Waits(m)'
      <4>1. \A m \in Msgs : ~RunsHold(m)'
        BY <3>1 DEF RunsHold
      <4>2. \A m \in Msgs : Waits(m)' <=> Contains(pending', m) \/ Contains(InHand', m) \/ RunsHold(m)'
        BY DEF Waits, RunsHold
      <4> QED BY <1>e, <3>2, <4>1, <4>2
    <3>5. \A m \in Msgs : Stage(m)' = IF Stage(m) = "waiting" THEN "lost" ELSE Stage(m)
      BY <2>1, <3>2, <3>3, <3>4, OnePlace DEF Stage
    <3>6. Box!Restart
      BY <3>2, <3>5 DEF Box!Restart, Box!Waiting
    <3> QED BY <1>10, <3>2, <3>6 DEF Box!Next
  <2> QED BY <2>0, <2>1
<1> QED BY <1>1, <1>2, <1>3, <1>4, <1>5, <1>6, <1>7, <1>8, <1>9, <1>10 DEF Next, LaneStep

(* Whatever Meta delivers again, in which order timers, flushes and calls  *)
(* return and whenever the server restarts: until a message could not be   *)
(* stored the pipeline takes every message up once, answers it once, lets  *)
(* only texts share an answer, and loses only what waits at a restart;     *)
(* with WA_DEBOUNCE_MS = 0 it takes one up when the last is answered.      *)
THEOREM MailboxImplemented == Spec => ImplementsMailbox
<1>1. Init => LaneInv /\ Counted
  BY LaneInit
<1>2. Init => Alone /\ OneKind
  BY DEF Init, Alone, AnswersKept, OneKind
<1>3. LaneInv /\ Counted /\ Alone /\ OneKind /\ [Next]_vars =>
        (LaneInv /\ Counted /\ Alone /\ OneKind)'
  BY LaneKept, AloneKept, OneKindKept
<1>4. Init => Box!Init
  <2> SUFFICES ASSUME Init PROVE Box!Init
    OBVIOUS
  <2>1. /\ runs = << >> /\ pending = << >> /\ InHand = << >> /\ recorded = << >>
        /\ crashes = 0 /\ dbErrors = 0 /\ debounced \in BOOLEAN
    BY DEF Init, InHand
  <2>2. \A m \in Msgs : Stage(m) = "new"
    BY <2>1 DEF Stage, Answered, Waits, Contains
  <2> QED BY <2>1, <2>2 DEF Box!Init
<1>5. /\ LaneInv /\ LaneInv' /\ Tracked /\ Alone /\ OneKind /\ [Next]_vars
      => [Box!Next]_(Box!vars)
  BY MailStep
<1> QED
  BY <1>1, <1>2, <1>3, <1>4, <1>5, TrackedAlways, PTL DEF Spec, ImplementsMailbox, Box!Spec
==============================================================================
