------------------------- MODULE MC_AdvisorySession ---------------------------
(* Small instances of EvidenceHistory (one ledger of evidence, and all that   *)
(* it may be told) and AdvisorySession (the session that keeps one): a        *)
(* behaviour is about the one or the other.                                   *)
EXTENDS AdvisorySession, EvidenceHistory, TLC

VARIABLE topic       \* "history" or "session"

adviceVars == <<topic, vars, historyVars>>

\* Two turns of one run, and another run.
Turn1 == [run |-> 1, turn |-> 1]
ThreeContexts == {Turn1, [run |-> 1, turn |-> 2], [run |-> 2, turn |-> 1]}

AdviceInit == topic \in {"history", "session"} /\ Init /\ InitHistory

AdviceNext ==
  \/ topic = "history" /\ NextHistory /\ UNCHANGED <<topic, vars>>
  \/ topic = "session" /\ Next /\ UNCHANGED <<topic, historyVars>>

Symmetry == Permutations(Frames) \cup Permutations(Keys)

AdviceSpec == AdviceInit /\ [][AdviceNext]_adviceVars

===============================================================================
