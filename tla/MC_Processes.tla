---------------------------- MODULE MC_Processes -----------------------------
(* Small instances of what surrounds the reviewed player: threads that call   *)
(* the bridge (BridgeClient), the requests through the adapter's channel      *)
(* (AdapterChannel), the clocks of adapter and helper (PlayClock), and the    *)
(* images that inputs rest on (EvidenceWindow).  A behaviour is about one of  *)
(* them.                                                                      *)
EXTENDS BridgeClient, AdapterChannel, PlayClock, EvidenceWindow

CONSTANTS q1, q2

VARIABLE topic       \* "calls", "requests", "clocks" or "images"

processVars == <<topic, clientVars, channelVars, clockVars, evidenceVars>>

\* A choice within an event, and the fight of an elite behind a door.
TwoSteps ==
  <<[complete |-> FALSE, up |-> FALSE, room |-> "event", what |-> "talk"],
    [complete |-> TRUE, up |-> TRUE, room |-> "elite", what |-> "fight"]>>
Targets == [k \in {"startup", "move", "floor"} |-> IF k = "move" THEN 1 ELSE 2]
Budgets == [k \in {"new_noncombat", "routine", "combat", "elite", "boss"} |-> IF k = "new_noncombat" THEN 1 ELSE 2]
SetBack == {-2}

\* Commands are interchangeable before they begin, so that q1 is the first to.
InOrder == command[q1].phase = "idle" => command'[q2].phase = "idle"

ProcessesInit ==
  /\ topic \in {"calls", "requests", "clocks", "images"}
  /\ ClientInit /\ InitChannel /\ InitClock /\ InitEvidence
  /\ topic # "images" => turn = 1

ProcessesNext ==
  \/ topic = "calls" /\ NextClient /\ UNCHANGED <<topic, channelVars, clockVars, evidenceVars>>
  \/ topic = "requests" /\ NextChannel /\ InOrder /\ UNCHANGED <<topic, clientVars, clockVars, evidenceVars>>
  \/ topic = "clocks" /\ NextClock /\ UNCHANGED <<topic, clientVars, channelVars, evidenceVars>>
  \/ topic = "images" /\ NextEvidence /\ UNCHANGED <<topic, clientVars, channelVars, clockVars>>

ProcessesSpec == ProcessesInit /\ [][ProcessesNext]_processVars

==============================================================================
