---------------------------- MODULE DeedPresence ----------------------------
(***************************************************************************)
(* Who has a deed open (deed-presence.service, useDeedPresence): each tab  *)
(* beats while it is open and says when it leaves, the server keeps a room *)
(* of the tabs it heard of and pushes it to the tabs that listen, and a    *)
(* sweep drops those that went silent.  Messages can be lost, late or out  *)
(* of order; a tab can sleep, or close without a word.  Time passes in     *)
(* ticks; each handler of the server runs in one go.                       *)
(***************************************************************************)
EXTENDS Naturals

CONSTANTS
  Tabs,   \* browser tabs, each with a session id of its own
  Beat,   \* HEARTBEAT_MS, in ticks
  Stale,  \* STALE_AFTER_MS
  Sweep,  \* SWEEP_EVERY_MS
  Delay   \* what a message that is in time may take

(* 8 s, 25 s, 5 s: the room for a message is then one second.              *)
ASSUME Pace ==
  /\ {Beat, Stale, Sweep, Delay} \subseteq Nat /\ Sweep > 0
  /\ Delay < Beat /\ 3 * Beat + Delay <= Stale

VARIABLES
  mode,       \* tab -> unopened, open, asleep or closed
  beatIn,     \* tab -> ticks until it beats next
  heard,      \* tabs a beat arrived of since they opened, woke or were said to leave
  missed,     \* tab -> beats in a row that did not arrive in time, up to 3
  beat, wait, \* tabs with a beat under way, and for how long; those with ...
  late, bye,  \* ... one that is not in time, with a word that they leave
  room, age,  \* the tabs in the deed's room, and how long each was not heard of
  hasRoom, hasSubject,   \* is there a room, and a subject, for the deed?
  listening, shown,      \* the tabs that listen, and whom each was shown
  sweepIn     \* ticks until the next sweep

tabVars == <<mode, beatIn, heard, missed>>
mailVars == <<beat, wait, late, bye>>
client == <<tabVars, mailVars>>
screens == <<listening, shown>>
server == <<room, age, hasRoom, hasSubject, screens, sweepIn>>
presenceVars == <<client, server>>

PresenceInit ==
  /\ mode = [t \in Tabs |-> "unopened"] /\ beatIn = [t \in Tabs |-> 0]
  /\ heard = {} /\ missed = [t \in Tabs |-> 0]
  /\ beat = {} /\ wait = [t \in Tabs |-> 0] /\ late = {} /\ bye = {}
  /\ room = {} /\ age = [t \in Tabs |-> 0] /\ hasRoom = FALSE /\ hasSubject = FALSE
  /\ listening = {} /\ shown = [t \in Tabs |-> {}]
  /\ sweepIn = Sweep

-----------------------------------------------------------------------------
(* The tab.                                                                *)

Post(t) == beat' = beat \union {t} /\ wait' = [wait EXCEPT ![t] = 0] /\ UNCHANGED <<late, bye>>

(* It announces itself at once, ... *)
Open(t) ==
  /\ mode[t] = "unopened"
  /\ mode' = [mode EXCEPT ![t] = "open"] /\ beatIn' = [beatIn EXCEPT ![t] = Beat]
  /\ Post(t)
  /\ UNCHANGED <<heard, missed, server>>

(* ... beats, ... *)
SendBeat(t) ==
  /\ mode[t] = "open" /\ beatIn[t] = 0
  /\ beatIn' = [beatIn EXCEPT ![t] = Beat]
  /\ Post(t)
  /\ UNCHANGED <<mode, heard, missed, server>>

(* ... and tells where its caret went. *)
MoveCaret(t) ==
  /\ mode[t] = "open" /\ t \notin beat
  /\ Post(t)
  /\ UNCHANGED <<tabVars, server>>

(* pagehide, or the editor is left: the last beat says so.  The page may   *)
(* come back from the browser's cache. *)
Leave(t) ==
  /\ mode[t] = "open"
  /\ \E to \in {"asleep", "closed"} : mode' = [mode EXCEPT ![t] = to]
  /\ heard' = heard \ {t} /\ bye' = bye \union {t}
  /\ UNCHANGED <<beatIn, missed, beat, wait, late, server>>

(* The laptop sleeps or the browser kills the tab; it may wake later. *)
Sleep(t) ==
  /\ mode[t] = "open"
  /\ mode' = [mode EXCEPT ![t] = "asleep"] /\ heard' = heard \ {t}
  /\ UNCHANGED <<beatIn, missed, mailVars, server>>

Wake(t) ==
  /\ mode[t] = "asleep"
  /\ mode' = [mode EXCEPT ![t] = "open"] /\ missed' = [missed EXCEPT ![t] = 0]
  /\ UNCHANGED <<beatIn, heard, mailVars, server>>

(* A beat that is not in time still travels. *)
BeatLate(t) ==
  /\ t \in beat /\ wait[t] = Delay
  /\ beat' = beat \ {t} /\ late' = late \union {t}
  /\ missed' = [missed EXCEPT ![t] = IF @ < 3 THEN @ + 1 ELSE 3]
  /\ UNCHANGED <<mode, beatIn, heard, wait, bye, server>>

Lose(t) ==
  /\ t \in late \union bye
  /\ \/ late' = late \ {t} /\ UNCHANGED bye
     \/ bye' = bye \ {t} /\ UNCHANGED late
  /\ UNCHANGED <<tabVars, beat, wait, server>>

-----------------------------------------------------------------------------
(* The server.                                                             *)

(* emit: whoever listens is shown the roster; there is a subject then. *)
Shown(roster) == [t \in Tabs |-> IF t \in listening THEN roster ELSE shown[t]]

(* touch. *)
Touch(t) ==
  /\ room' = room \union {t} /\ age' = [age EXCEPT ![t] = 0]
  /\ hasRoom' = TRUE /\ hasSubject' = TRUE
  /\ shown' = Shown(room')
  /\ heard' = IF mode[t] = "open" THEN heard \union {t} ELSE heard
  /\ missed' = [missed EXCEPT ![t] = 0]
  /\ UNCHANGED <<mode, beatIn, wait, bye, listening, sweepIn>>

BeatArrives(t) ==
  \/ t \in beat /\ Touch(t) /\ beat' = beat \ {t} /\ UNCHANGED late
  \/ t \in late /\ Touch(t) /\ late' = late \ {t} /\ UNCHANGED beat

(* leave: nothing to tell of a tab that was not in the room. *)
LeaveArrives(t) ==
  /\ t \in bye /\ bye' = bye \ {t}
  /\ room' = room \ {t} /\ age' = [age EXCEPT ![t] = 0]
  /\ IF t \in room THEN hasSubject' = TRUE /\ shown' = Shown(room')
     ELSE UNCHANGED <<hasSubject, shown>>
  /\ heard' = heard \ {t}
  /\ UNCHANGED <<mode, beatIn, missed, beat, wait, late, hasRoom, listening, sweepIn>>

(* Faulty variants: a tab is gone as soon as the time is up; silent tabs   *)
(* go only where somebody looks. *)
UpToStale(unheard) == unheard >= Stale
OnlyWatched(unheard) == unheard > Stale /\ listening # {}
Silent(unheard) == unheard > Stale

RoomLeft(roster) == roster # {} /\ hasRoom

(* Faulty variant: who went silent is dropped without a word. *)
Unannounced(gone) == shown
ShownAfter(gone) == IF gone # {} THEN Shown(room \ gone) ELSE shown

(* sweep: silent tabs go, then an empty room, then a subject without a     *)
(* room that nobody listens to. *)
DoSweep ==
  LET gone == {t \in room : Silent(age[t])} IN
  /\ sweepIn = 0 /\ sweepIn' = Sweep
  /\ room' = room \ gone
  /\ age' = [t \in Tabs |-> IF t \in gone THEN 0 ELSE age[t]]
  /\ shown' = ShownAfter(gone)
  /\ hasRoom' = RoomLeft(room')
  /\ hasSubject' = ((hasSubject \/ gone # {}) /\ (hasRoom' \/ listening # {}))
  /\ UNCHANGED <<client, listening>>

(* stream: the newcomer is shown who is there. *)
Listen(t) ==
  /\ mode[t] = "open" /\ t \notin listening
  /\ listening' = listening \union {t} /\ shown' = [shown EXCEPT ![t] = room]
  /\ hasSubject' = TRUE
  /\ UNCHANGED <<client, room, age, hasRoom, sweepIn>>

(* An empty screen, until it listens again. *)
Disconnect(t) ==
  /\ t \in listening
  /\ listening' = listening \ {t} /\ shown' = [shown EXCEPT ![t] = {}]
  /\ UNCHANGED <<client, room, age, hasRoom, hasSubject, sweepIn>>

(* A restart of the server forgets the rooms; the tabs connect anew. *)
Restart ==
  /\ room' = {} /\ age' = [t \in Tabs |-> 0] /\ hasRoom' = FALSE /\ hasSubject' = FALSE
  /\ listening' = {} /\ shown' = [t \in Tabs |-> {}]
  /\ sweepIn' = Sweep
  /\ heard' = {}
  /\ UNCHANGED <<mode, beatIn, missed, mailVars>>

(* A tick, once everything that is due at this moment is done. *)
Tick ==
  /\ sweepIn > 0 /\ sweepIn' = sweepIn - 1
  /\ \A t \in Tabs : (mode[t] = "open" => beatIn[t] > 0) /\ (t \in beat => wait[t] < Delay)
  /\ beatIn' = [t \in Tabs |-> IF mode[t] = "open" THEN beatIn[t] - 1 ELSE beatIn[t]]
  /\ wait' = [t \in Tabs |-> IF t \in beat THEN wait[t] + 1 ELSE wait[t]]
  /\ age' = [t \in Tabs |-> IF t \in room THEN age[t] + 1 ELSE age[t]]
  /\ UNCHANGED <<mode, heard, missed, beat, late, bye, room, hasRoom, hasSubject, screens>>

PresenceNext ==
  \/ Tick \/ DoSweep \/ Restart
  \/ \E t \in Tabs :
       \/ Open(t) \/ SendBeat(t) \/ MoveCaret(t) \/ Leave(t) \/ Sleep(t) \/ Wake(t)
       \/ BeatLate(t) \/ Lose(t) \/ BeatArrives(t) \/ LeaveArrives(t)
       \/ Listen(t) \/ Disconnect(t)

PresenceSpec == PresenceInit /\ [][PresenceNext]_presenceVars

-----------------------------------------------------------------------------
PresenceTypeOK ==
  /\ mode \in [Tabs -> {"unopened", "open", "asleep", "closed"}]
  /\ beatIn \in [Tabs -> 0..Beat] /\ missed \in [Tabs -> 0..3]
  /\ heard \subseteq Tabs /\ beat \subseteq Tabs /\ late \subseteq Tabs /\ bye \subseteq Tabs
  /\ wait \in [Tabs -> 0..Delay]
  /\ room \subseteq Tabs /\ age \in [Tabs -> Nat]
  /\ hasRoom \in BOOLEAN /\ hasSubject \in BOOLEAN
  /\ listening \subseteq Tabs /\ shown \in [Tabs -> SUBSET Tabs]
  /\ sweepIn \in 0..Sweep

(* "Two dropped beats still don't drop the cursor" (useDeedPresence.ts):   *)
(* an open tab that was heard of is in the room until a third beat in a    *)
(* row fails to arrive in time.                                            *)
BeatsRideOut == \A t \in heard : missed[t] <= 2 => t \in room

(* No ghost outlives the time and one sweep, also when a late beat brings  *)
(* it back after it left.                                                  *)
NoGhost == \A t \in room : age[t] <= Stale + Sweep

(* Whoever listens sees exactly the tabs in the room.                      *)
ScreensTrue == \A t \in listening : shown[t] = room
=============================================================================
