------------------------------- MODULE MCLive -------------------------------
(***************************************************************************)
(* What must happen in the end, in the inbound pipeline and in the daily   *)
(* job of the follow-ups, each explored on its own: "part" says which.     *)
(***************************************************************************)
EXTENDS WaInbound

CONSTANTS Ids, Desk, Jobs, MaxDay, MaxFails, NoId

VARIABLES
  part, today, request, optedOut, posted, silenced, pc, local, fails, overlap

\* The row of FollowUps is the table of the follow-ups, here "table".
VARIABLE table
F == INSTANCE FollowUps WITH row <- table

followUps == <<today, request, optedOut, table, posted, silenced, pc, local, fails, overlap>>
liveVars == <<part, vars, followUps>>

LiveInit ==
  \/ part = "followUps" /\ F!Init
     /\ debounced = FALSE /\ due = 0 /\ recorded = <<>> /\ lane = <<>> /\ laneAt = "idle"
     /\ laneRun = 0 /\ pending = <<>> /\ runs = <<>> /\ row = {} /\ dbErrors = 0 /\ crashes = 0
  \/ part = "inbound" /\ Init
     /\ today = 0 /\ request = F!NoLocals.seen /\ optedOut = FALSE /\ table = 0 /\ posted = 0
     /\ silenced = {} /\ pc = 0 /\ local = 0 /\ fails = 0 /\ overlap = FALSE

OnFollowUps(A) == part = "followUps" /\ A /\ UNCHANGED <<part, vars>>
OnInbound(A) == part = "inbound" /\ A /\ UNCHANGED <<part, followUps, debounced>>

LiveNext == OnFollowUps(F!Next) \/ OnInbound(Next)

(* The fairness of the two modules, for the part that runs. *)
LiveFairness ==
  /\ \A p \in Jobs : WF_liveVars(OnFollowUps(F!SendStep(p)))
  /\ WF_liveVars(OnInbound(LaneStep))
  /\ WF_liveVars(OnInbound(TimerFires))
  /\ \A i \in 1..MaxRuns : WF_liveVars(OnInbound(i \in DOMAIN runs /\ RunStep(i)))

LiveSpec == LiveInit /\ [][LiveNext]_liveVars /\ LiveFairness

-----------------------------------------------------------------------------
(* The properties of the parts, stated in FollowUps and WaInbound.         *)

DueSettled ==
  \A f \in Ids :
    (part = "followUps" /\ F!Overdue(f)) ~> (part = "followUps" /\ F!Settled(f))

MessagesAnswered ==
  \A m \in Msgs, c \in 0..MaxCrashes :
    (part = "inbound" /\ Delivered(m, c)) ~> (part = "inbound" /\ Done(m, c))
=============================================================================
