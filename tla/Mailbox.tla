------------------------------- MODULE Mailbox -------------------------------
(***************************************************************************)
(* What a customer's number promises, whatever Meta delivers again and in  *)
(* which order timers and calls return: a message is taken up once and     *)
(* answered once; only texts share an answer, and without the text window  *)
(* a message is taken up when the one before it is answered; only a        *)
(* restart loses a message, and then those that wait.  The promise ends    *)
(* with the first message that could not be stored.                        *)
(***************************************************************************)
EXTENDS Naturals

CONSTANTS Msgs, Texts

VARIABLES
  stage,     \* message -> how far it has come
  batched,   \* are quick texts collected?
  restarts,  \* how often the server has restarted
  failures   \* how many messages were handled without being stored

vars == <<stage, batched, restarts, failures>>

Init ==
  /\ stage = [m \in Msgs |-> "new"]
  /\ batched \in BOOLEAN
  /\ restarts = 0
  /\ failures = 0

Waiting == {m \in Msgs : stage[m] = "waiting"}

Take(m) ==
  /\ stage[m] = "new"
  /\ batched \/ Waiting = {}
  /\ stage' = [stage EXCEPT ![m] = "waiting"]
  /\ UNCHANGED restarts

Answer(S) ==
  /\ S \subseteq Waiting
  /\ S \subseteq Texts \/ \E m \in Msgs : S = {m}
  /\ stage' = [m \in Msgs |-> IF m \in S THEN "answered" ELSE stage[m]]
  /\ UNCHANGED restarts

Restart ==
  /\ restarts' = restarts + 1
  /\ stage' = [m \in Msgs |-> IF m \in Waiting THEN "lost" ELSE stage[m]]

Next ==
  /\ UNCHANGED batched
  /\ \/ /\ \/ \E m \in Msgs : Take(m)
           \/ \E S \in SUBSET Msgs : Answer(S)
           \/ Restart
        /\ UNCHANGED failures
     \/ failures' > 0

Spec == Init /\ [][Next]_vars
=============================================================================
