----------------------------- MODULE MC_Progress -----------------------------
(* Small instances of the dispatcher of the warm bridge (lines and ids are    *)
(* numbers) and of ReviewedPlay, with what must come to an end in both.  A    *)
(* behaviour is about the one or the other.                                   *)
EXTENDS BridgeDispatcher, ReviewedPlay

VARIABLE topic       \* "bridge" or "play"

progressVars == <<topic, serverVars, vars>>

\* Lines are interchangeable before they arrive, and ids before they are used:
\* they are taken in order.  (With liveness to check, this is instead of SYMMETRY.)
InOrder ==
  \A c \in Calls : at[c] = "none" /\ at'[c] # "none" =>
    /\ \A d \in Calls : d < c => at[d] # "none"
    /\ \A i \in Ids : i < req'[c].id => \E d \in Calls : d < c /\ req[d].id = i

\* At most one of the lines is not a good tap.
MostlyTaps == Cardinality({c \in Calls : req'[c].kind # "tap"}) <= 1

ProgressInit ==
  /\ topic \in {"bridge", "play"} /\ ServerInit /\ Init
  /\ topic = "bridge" => \A s \in Sessions : policy[s] = "strict"

ProgressNext ==
  \/ topic = "bridge" /\ NextServer /\ InOrder /\ MostlyTaps /\ UNCHANGED <<topic, vars>>
  \/ topic = "play" /\ Next /\ UNCHANGED <<topic, serverVars>>

\* The fairness of ReviewedPlay, where it is at work; nothing that is fair in
\* BridgeDispatcher is enabled in its initial state.
Play(A) == topic = "play" /\ A
PlayFairness ==
  \A s \in Sessions :
    /\ WF_vars(Play(Reopen(s))) /\ WF_vars(Play(LeavePoisoned(s))) /\ SF_vars(Play(Finalize(s)))
    /\ WF_vars(Play(LogOutcome(s))) /\ WF_vars(Play(LogReplayed(s)))
    /\ WF_vars(Play(LogFails(s))) /\ WF_vars(Play(Clear(s)))

ProgressSpec == ProgressInit /\ [][ProgressNext]_progressVars /\ Fairness /\ PlayFairness

==============================================================================
