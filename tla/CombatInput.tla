---------------------------- MODULE CombatInput ------------------------------
(* One tap at a time through a fight (combat_input.py, combat_requests.py,    *)
(* controller_state_machine.py, combat_inspection.py, the rules of            *)
(* decision_policy.py, and the verification of reviewed_play.py).  From a     *)
(* reviewed reading r and an action, Inputs gives the taps that may be sent;  *)
(* CombatVerdicts compares the reading after the tap with what was promised.  *)
(* Both are sets: empty where the code refuses.  A reading is                 *)
(*   hand, complete       the cards seen, and whether the hand is all of them *)
(*   energy, block, foes, up, turn   the numbers; up are the upgraded cards   *)
(*   phase, domain, tip, subject     where the focus is, and what help shows  *)
(*   focus, selected, target         the card focused, the card taken up, and *)
(*                                   the enemy aimed at                       *)
(*   picker               the game asks which card to upgrade                 *)
(*   image                the pixels                                          *)
(* Every card costs one; an action is [kind, card, target]; enemies are        *)
(* numbered from left to right.                                               *)
EXTENDS PlayPolicy, Integers, Sequences, SequencesExt

CONSTANTS Stride,      \* most cards one command may move the focus (4 in the code)
          FocusLimit   \* taps tried outside the hand in one turn (8 in the code)

ASSUME InputAssumption == Stride \in 1..4 /\ FocusLimit \in 1..8

Away == {"relic", "potion", "player_status", "enemy", "unknown"}

NeedsTarget(card) == card \in {"strike", "headbutt"}

Index(s, x) == CHOOSE k \in DOMAIN s : s[k] = x
Has(s, x) == x \in ToSet(s)

\* The enemies still standing, in the order the target moves over them.
Alive(r) == {f \in DOMAIN r.foes : r.foes[f] > 0}

-----------------------------------------------------------------------------
(* What a reading must be. *)

\* The visible focus, its help box and what is taken up agree with each other.
FocusOk(r) ==
  /\ r.focus = None \/ Has(r.hand, r.focus)
  /\ r.selected = None \/ Has(r.hand, r.selected)
  /\ CASE r.phase = "targeting" ->
            r.domain = "enemy" /\ r.tip = "none" /\ r.selected # None /\ r.target # None
       [] r.phase # "targeting" /\ r.domain = "hand" ->
            /\ r.phase \in {"hand", "card_selected"} /\ r.tip \in {"none", "card_keyword"}
            /\ r.subject = None /\ r.target = None
            /\ r.focus # None \/ r.selected # None
       [] r.phase # "targeting" /\ r.domain = "none" ->
            r.phase = "hand" /\ r.tip = "none" /\ {r.subject, r.focus, r.selected, r.target} = {None}
       [] OTHER ->
            /\ r.phase \in {"inspect", "tooltip"} /\ {r.focus, r.selected, r.target} = {None}
            /\ r.domain \in Away
            /\ r.tip \in {r.domain, "none"}
            /\ r.subject # None \/ r.domain = "unknown"

\* The strict policy reads the whole hand; the learning policy says what it cannot see.
ReadingOk(r) == FocusOk(r) /\ (Policy = "strict" => r.complete)

\* A chosen action is possible as far as the reading shows.
ActionOk(r, act) ==
  act.kind = "card" =>
    /\ Has(r.hand, act.card)
    /\ r.energy >= 1
    /\ (NeedsTarget(act.card) \/ act.target # None) => act.target \in Alive(r)

-----------------------------------------------------------------------------
(* Trying to get the focus back to the hand. *)

FocusOf(r) == <<r.domain, r.subject>>

\* Faulty variant: what was tried from another image is forgotten.
MayTryAgain(tries, focus, button) == Cardinality(tries) < FocusLimit

\* Down once from each focus; Circle once, after Down was seen to change nothing.
MayTry(tries, focus, button) ==
  LET here == {t \in tries : t.focus = focus}
  IN  /\ Cardinality(tries) < FocusLimit
      /\ \A t \in here : t.button # button
      /\ button = "circle" => \E t \in here : t.button = "down" /\ t.effect = "unchanged"

Try(focus, button) == [focus |-> focus, button |-> button, effect |-> None]

\* What the tap was verified to do is written to its try.
Tried(tries, focus, button, effect) ==
  {IF t.focus = focus /\ t.button = button THEN [t EXCEPT !.effect = effect] ELSE t : t \in tries}

-----------------------------------------------------------------------------
(* The next tap. *)

Command(buttons, kind, card, goal) == [buttons |-> buttons, kind |-> kind, card |-> card, goal |-> goal]

\* Left or right along seq from a towards b, n places at most.
Along(seq, a, b, n, kind, card) ==
  LET i == Index(seq, a)
      j == Index(seq, b)
      far == IF j > i THEN j - i ELSE i - j
  IN  {Command([x \in 1..k |-> IF j > i THEN "right" ELSE "left"], kind, card,
           seq[IF j > i THEN i + k ELSE i - k]) :
         k \in IF kind = "card_focus" THEN {1, IF far < n THEN far ELSE n} ELSE {1}}

\* An open upgrade picker: move to the card, take it with Cross, confirm it.
PickerInputs(r, act) ==
  CASE r.selected = act.card -> {Command(<<"triangle">>, "upgrade_confirm", act.card, None)}
    [] r.selected # act.card /\ r.focus = act.card -> {Command(<<"cross">>, "advance", act.card, None)}
    [] OTHER -> IF r.selected = r.focus /\ r.focus # None
                THEN Along(r.hand, r.selected, act.card, Stride, "card_focus", act.card) ELSE {}

\* A card taken up: aim, then play it; never a card that was not asked for.
HeldInputs(r, act) ==
  IF r.selected # act.card THEN {}
  ELSE IF r.phase = "targeting" /\ r.target # act.target
  THEN LET order == SetToSortSeq(Alive(r), LAMBDA a, b : a < b)
       IN  IF r.target \in Alive(r) /\ act.target \in Alive(r)
           THEN Along(order, r.target, act.target, 1, "target_focus", act.card) ELSE {}
  ELSE {Command(<<"cross">>, "advance", act.card, None)}

\* One atomic input.  Outside the hand the way back is looked for first.
\* Triangle ends the turn from any reviewed focus in the hand - also while the
\* picker is open, where the same button confirms the upgrade.
Inputs(r, act) ==
  IF r.phase \in {"inspect", "tooltip"} \/ (r.domain = "none" /\ act.kind = "card")
  THEN {Command(<<b>>, "focus_probe", None, None) : b \in {"down", "circle"}}
  ELSE CASE act.kind = "end_turn" ->
              IF r.domain \in {"hand", "none"} THEN {Command(<<"triangle">>, "end_turn", None, None)} ELSE {}
         [] r.phase = "card_selected" /\ act.kind = "card" /\ r.picker -> PickerInputs(r, act)
         [] r.phase \in {"card_selected", "targeting"} /\ act.kind = "card" /\ ~r.picker -> HeldInputs(r, act)
         [] OTHER -> IF r.focus = act.card THEN {Command(<<"cross">>, "advance", act.card, None)}
                     ELSE Along(r.hand, r.focus, act.card, Stride, "card_focus", act.card)

PlannedTaps(r, act, tries) ==
  IF ReadingOk(r) /\ ActionOk(r, act)
  THEN {t \in Inputs(r, act) : t.kind = "focus_probe" => MayTry(tries, FocusOf(r), t.buttons[1])} ELSE {}

\* Without a plan, a help box away from the hand may be looked past: Down, and
\* Circle where Down was seen to change nothing, out of the same budget.
InspectionTaps(r, tries) ==
  LET here == {t \in tries : t.focus = FocusOf(r)}
      button == IF here = {} THEN "down" ELSE "circle"
  IN  IF /\ FocusOk(r) /\ r.phase \in {"tooltip", "inspect", "hand"} /\ r.selected = None
         /\ r.domain # "hand" /\ Cardinality(here) < 2 /\ MayTry(tries, FocusOf(r), button)
      THEN {Command(<<button>>, "inspect_focus", None, None)} ELSE {}

-----------------------------------------------------------------------------
(* Comparing what came of a tap with what was promised. *)

Judged(complete) == {[complete |-> complete, effect |-> None]}

\* The game as the reading has it, without the focus.
StateKey(r) == <<r.hand, r.complete, r.energy, r.block, r.foes, r.up, r.turn>>
UiOf(r) == <<r.phase, r.domain, r.tip, r.subject, r.focus, r.selected, r.target, r.picker>>

\* Faulty variant: the hand must be as it was read before.
HandNeverUncovered(b, a) == FALSE

\* More of a hand that was never complete has come into sight.
HandUncovered(b, a) ==
  /\ ~b.complete /\ ~a.complete
  /\ ToSet(b.hand) \subseteq ToSet(a.hand)
  /\ StateKey([b EXCEPT !.hand = a.hand]) = StateKey(a)

\* A moved focus took nothing up; identical pixels prove neither a move nor a return.
FocusVerdict(b, a) ==
  LET prior == <<b.domain, b.tip, b.subject, b.focus, b.selected>>
      actual == <<a.domain, a.tip, a.subject, a.focus, a.selected>>
      returned == a.domain = "hand" /\ a.focus # None
      effect == IF prior = actual THEN "unchanged" ELSE "focus_changed"
  IN  IF /\ a.turn = b.turn /\ (StateKey(a) = StateKey(b) \/ HandUncovered(b, a))
         /\ FocusOk(a) /\ a.phase # "targeting" /\ a.selected \in {None, b.selected}
         /\ a.image = b.image => (~returned /\ a.subject # None /\ effect = "unchanged")
      THEN {[complete |-> FALSE, effect |-> effect]} ELSE {}

\* A navigation tap under the strict policy is where it was sent, or refused.
ExactFocus(t, b, a) ==
  IF StateKey(a) = StateKey(b) /\ (IF t.kind = "card_focus" THEN a.focus ELSE a.target) = t.goal
  THEN Judged(FALSE) ELSE {}

\* The next turn, its hand settled; the learning policy may see part of it.
TurnEnded(b, a) ==
  /\ a.turn # b.turn /\ a.phase = "hand" /\ StateKey(a) # StateKey(b)
  /\ IF Policy = "strict" THEN a.complete
     ELSE a.selected = None /\ (a.complete \/ a.domain = "hand")

\* The picker closed on an upgraded card.
UpgradeConfirmed(b, a) ==
  a.turn = b.turn /\ a.phase \in {"hand", "tooltip"} /\ a.selected = None /\ ToSet(a.hand) \cap a.up # {}

\* The card was taken up and waits; under the learning policy it may be another.
Selected(t, b, a) ==
  /\ StateKey(a) = StateKey(b) /\ UiOf(a) # UiOf(b)
  /\ a.phase \in {"card_selected", "targeting"}
  /\ IF Policy = "strict" THEN a.selected = t.card ELSE Has(a.hand, a.selected)

\* The effect of the planned card, as the strict policy must see it.
AsForecast(t, b, a, act) ==
  /\ a.energy = b.energy - 1
  /\ a.block = IF t.card = "defend" THEN b.block + 1 ELSE b.block
  /\ a.foes = IF NeedsTarget(t.card) THEN [b.foes EXCEPT ![act.target] = @ - 1] ELSE b.foes

\* The card has left the hand, and the fight has settled; or, from the picker,
\* the card is upgraded in the hand.
Played(t, b, a, act) ==
  /\ a.turn = b.turn
  /\ \/ Policy = "strict" /\ a.complete /\ ~Has(a.hand, t.card) /\ AsForecast(t, b, a, act)
     \/ /\ Policy = "learning" /\ a.phase \in {"hand", "tooltip"} /\ a.selected = None
        /\ \/ ~Has(a.hand, t.card)
           \/ Has(b.hand, t.card) /\ Has(a.hand, t.card) /\ t.card \in a.up \ b.up

CombatVerdicts(t, b, a, act) ==
  IF a.image = b.image /\ t.kind # "focus_probe" THEN {}
  ELSE CASE t.kind = "focus_probe" \/ (t.kind = "card_focus" /\ Policy = "learning") -> FocusVerdict(b, a)
         [] (t.kind = "card_focus" /\ Policy = "strict") \/ t.kind = "target_focus" -> ExactFocus(t, b, a)
         [] t.kind = "end_turn" -> IF TurnEnded(b, a) THEN Judged(TRUE) ELSE {}
         [] t.kind = "upgrade_confirm" -> IF UpgradeConfirmed(b, a) THEN Judged(TRUE) ELSE {}
         [] t.kind = "advance" ->
              IF a.turn = b.turn /\ Selected(t, b, a) THEN Judged(FALSE)
              ELSE IF Played(t, b, a, act) THEN Judged(TRUE) ELSE {}

\* Looking past a help box changes nothing but the focus.
InspectionVerdicts(b, a) ==
  LET effect == IF <<b.domain, b.tip, b.subject, b.focus>> = <<a.domain, a.tip, a.subject, a.focus>>
                THEN "unchanged" ELSE "focus_changed"
  IN  IF /\ StateKey(a) = StateKey(b) /\ a.turn = b.turn /\ FocusOk(a)
         /\ a.phase \in {"tooltip", "inspect", "hand"} /\ {a.selected, a.target} = {None}
         /\ a.image = b.image => effect = "unchanged"
      THEN {[complete |-> FALSE, effect |-> effect]} ELSE {}

\* The cards that make the game ask for another card.
AsksForCard(card) == card = "headbutt"

\* The fight gave way to a choice of cards, or it is over: only an input that
\* plays a card or ends the turn can do that.  The strict policy knows the cards
\* that ask for a choice, and what they cost.
BoundaryVerdicts(t, b, a) ==
  CASE t.kind \notin {"advance", "end_turn"} -> {}
    [] t.kind \in {"advance", "end_turn"} /\ a.screen = "selection" ->
         IF t.kind = "advance" /\ (Policy = "strict" => AsksForCard(t.card) /\ a.energy = b.energy - 1)
         THEN Judged(TRUE) ELSE {}
    [] OTHER -> Judged(TRUE)

=============================================================================
