----------------------------- MODULE PlayPolicy ------------------------------
(* What the menus and the fights of a session share: the mark of an absent    *)
(* value, and the decision policy it was opened with (decision_policy.py).    *)
CONSTANTS None,
          Policy      \* "strict": complete readings only; "learning": gaps are said, not filled

POLICIES == {"strict", "learning"}

ASSUME PolicyAssumption == Policy \in POLICIES

=============================================================================
