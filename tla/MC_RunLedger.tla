----------------------------- MODULE MC_RunLedger ------------------------------
(* Small instances of the memory: the rows of runs, floors, fights and        *)
(* decisions that commands write (RunLedger), and what is replayed of the     *)
(* belongings and of the cards of a fight (MemoryReplay).  A behaviour is     *)
(* about one of these.                                                        *)
EXTENDS RunLedger, MemoryReplay, TLC

VARIABLE topic       \* "runs", "belongings" or "cards"

ledgerVars == <<topic, vars, memoryVars>>

\* Legal lists of transitions, and some that are refused.
SomeMoves ==
  {<<>>, <<"start_combat", "start_turn">>, <<"end_turn", "start_turn">>, <<"end_turn", "end_combat">>,
   <<"end_combat">>, <<"advance_floor">>}

Symmetry == Permutations(Procs) \cup Permutations(Ops)

\* Two cards and a relic: a card is gained, exchanged, or given for the relic.
TwoCards == [card |-> {"Strike", "Bash"}, relic |-> {"Anchor"}, potion |-> {}]
Change(category, action, item, related) ==
  [category |-> category, action |-> action, item |-> item, related |-> related]
SomeChanges ==
  {<<Change("card", "acquired", "Bash", Lacking)>>,
   <<Change("card", "replaced", "Strike", "Bash")>>,
   <<Change("card", "removed", "Strike", Lacking), Change("relic", "acquired", "Anchor", Lacking)>>}
Looks ==
  {[card |-> c, relic |-> r, potion |-> "unknown"] :
     <<c, r>> \in {<<"complete", "complete">>, <<"partial", "complete">>, <<"unknown", "partial">>}}

\* Three cards.  One is discarded, exhausted, or made by another; and the last
\* card is discarded, shuffled back and drawn.
ThreeCards == [Strike |-> 2, Bash |-> 1]
Movement(kind, card, from, to) == [kind |-> kind, card |-> card, from |-> from, to |-> to]
SomeMovements ==
  {<<Movement("moved", "Strike", "hand", "discard")>>,
   <<Movement("moved", "Bash", "hand", "exhaust")>>,
   <<Movement("moved", "Bash", Lacking, "hand")>>,
   <<Movement("moved", "Strike", "hand", "discard"), Movement("shuffle", Lacking, "discard", "draw"),
     Movement("moved", "Strike", "draw", "hand")>>}

LedgerInit ==
  /\ topic \in {"runs", "belongings", "cards"}
  /\ Init /\ InitMemory
  /\ topic # "belongings" => owned = Nothing
  /\ topic # "cards" => piles = Opening(NoCards)

LedgerNext ==
  \/ topic = "runs" /\ Next /\ UNCHANGED <<topic, memoryVars>>
  \/ topic = "belongings" /\ NextBelongings /\ UNCHANGED <<topic, vars>>
  \/ topic = "cards" /\ NextZones /\ UNCHANGED <<topic, vars>>

LedgerSpec == LedgerInit /\ [][LedgerNext]_ledgerVars

===============================================================================
