------------------------------- MODULE OneInput -------------------------------
(***************************************************************************)
(* What the reviewed player promises about controller inputs, without any  *)
(* session, file, database or crash: an input is first recorded, it is     *)
(* handed to the controller at most once and only while it is the one      *)
(* recorded input, and it is settled before another one is recorded.  An   *)
(* input settled as "skipped" never reaches the game.  ReviewedPlay        *)
(* implements this module.                                                 *)
(***************************************************************************)

CONSTANT Actions

VARIABLES
  phase,   \* "new", "recorded", "settled" or "skipped" for each input
  wire     \* where the input is: not handed over, in flight, executed, dropped

vars == <<phase, wire>>

Init ==
  /\ phase = [a \in Actions |-> "new"]
  /\ wire = [a \in Actions |-> "none"]

\* The intent is committed; no other recorded input may be unsettled.
Record(a) ==
  /\ phase[a] = "new"
  /\ \A b \in Actions : phase[b] # "recorded"
  /\ phase' = [phase EXCEPT ![a] = "recorded"]
  /\ UNCHANGED wire

\* The one hand-over of the input to the controller.
HandOver(a) ==
  /\ phase[a] = "recorded"
  /\ wire[a] = "none"
  /\ wire' = [wire EXCEPT ![a] = "wire"]
  /\ UNCHANGED phase

\* The game receives the input, or it is lost on the way.
Arrive(a) ==
  /\ wire[a] = "wire"
  /\ \E w \in {"executed", "dropped"} : wire' = [wire EXCEPT ![a] = w]
  /\ UNCHANGED phase

\* An observed result settles the input.
Settle(a) ==
  /\ phase[a] = "recorded"
  /\ phase' = [phase EXCEPT ![a] = "settled"]
  /\ UNCHANGED wire

\* Proof that the input never reached the game settles it as skipped.
Skip(a) ==
  /\ phase[a] = "recorded"
  /\ wire[a] \in {"none", "dropped"}
  /\ phase' = [phase EXCEPT ![a] = "skipped"]
  /\ UNCHANGED wire

Next == \E a \in Actions : Record(a) \/ HandOver(a) \/ Arrive(a) \/ Settle(a) \/ Skip(a)

Spec == Init /\ [][Next]_vars

===============================================================================
