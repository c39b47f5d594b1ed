------------------------------ MODULE MCIntake ------------------------------
(***************************************************************************)
(* From a customer's message to a submitted request: the inbound pipeline  *)
(* with its interleavings, and the conversation a message is one step of.  *)
(* Each is explored on its own ("part" says which) by one run: they share  *)
(* no state, and the one not explored stays as it starts.                  *)
(***************************************************************************)
EXTENDS WaInbound, MCDraftIntake, TLC

VARIABLE part

requestVars == <<part, vars, intakeVars>>

(* Where the pipeline is explored, one customer is enough.                 *)
NewCustomer == earlier = [old |-> FALSE, fields |-> {}]

RequestInit ==
  /\ part \in {"inbound", "conversation"}
  /\ Init /\ IntakeInit
  /\ part = "inbound" => NewCustomer

RequestNext ==
  \/ part = "inbound" /\ Next /\ UNCHANGED <<part, debounced, intakeVars>>
  \/ part = "conversation" /\ IntakeNext /\ UNCHANGED <<part, vars>>

RequestSpec == RequestInit /\ [][RequestNext]_requestVars

(* Texts are interchangeable, and so are files. *)
Symmetry == Permutations(Texts) \union Permutations(Files)
=============================================================================
