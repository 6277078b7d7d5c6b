----------------------------- MODULE CombatPlay ------------------------------
(* A fight played one tap at a time: the strategist plans an action and what  *)
(* may follow it, the taps for it are planned, pressed and reviewed, and the  *)
(* plan is kept, promoted or dropped (reviewed_play.py, combat_requests.py,   *)
(* combat_flow.py).  The fight itself is outside the code: it is what the     *)
(* code and its tests say of the game.  A press may be lost, or a longer      *)
(* command cut short; the reviewer is honest, but a raised keyword box may    *)
(* hide a card.                                                               *)
EXTENDS CombatInput

CONSTANTS Deals,     \* the hands a turn may begin with
          Queueable, \* bound: what is planned to follow an action, cards or None for the end of the turn
          MaxTurn,   \* bound: turns of the fight
          MaxMissed  \* bound: commands that do not arrive whole

ASSUME FightAssumption == MaxTurn \in Nat /\ MaxMissed \in Nat

VARIABLES
  fight,     \* the game
  view,      \* the last reviewed reading
  plan,      \* the action planned, what may follow it, and the turn it was made in
  sent,      \* the pending command, and what the game took by it
  tries,     \* taps tried outside the hand in this turn
  verdict,   \* the verdict on the last command
  missed,    \* commands that did not arrive whole
  probed     \* the focus and button of each tap pressed outside the hand this turn

fightVars == <<fight, view, plan, sent, tries, verdict, missed, probed>>

EndTurn == [kind |-> "end_turn", card |-> None, target |-> None]
Play(card, target) == [kind |-> "card", card |-> card, target |-> target]

-----------------------------------------------------------------------------
(* The game. *)

InHand(g) == [g EXCEPT !.phase = "hand", !.domain = "hand", !.tip = "none", !.subject = None,
                       !.focus = g.hand[1], !.selected = None, !.target = None, !.picker = FALSE]
OnRelic(g) == [g EXCEPT !.phase = "tooltip", !.domain = "relic", !.tip = "relic", !.subject = "vajra",
                        !.focus = None, !.selected = None, !.target = None, !.picker = FALSE]
Nowhere(g) == [OnRelic(g) EXCEPT !.phase = "hand", !.domain = "none", !.tip = "none", !.subject = None]

\* Where the focus may be once an action has settled; a turn begins in the
\* hand or nowhere.
Begun(g) ==
  {Nowhere(g)} \cup
    (IF g.hand = <<>> THEN {} ELSE {[InHand(g) EXCEPT !.tip = t] : t \in {"none", "card_keyword"}})
Landed(g) == {OnRelic(g)} \cup Begun(g)

NewTurn(g, n) ==
  UNION {Begun([g EXCEPT !.hand = deal, !.energy = 2, !.block = 0, !.turn = n, !.up = {}]) : deal \in Deals}

\* A played card leaves the hand; a blow may do less than foreseen.
Resolved(g) ==
  LET left == [g EXCEPT !.hand = SelectSeq(@, LAMBDA c : c # g.selected), !.energy = @ - 1]
      hits == IF NeedsTarget(g.selected)
              THEN {[left EXCEPT !.foes[g.target] = @ - n] : n \in {0, 1}}
              ELSE {[left EXCEPT !.block = @ + 1]}
  IN  UNION {IF Alive(h) = {} THEN {[h EXCEPT !.screen = "reward"]}
             ELSE IF g.selected = "headbutt" THEN {[h EXCEPT !.screen = "selection"]}
             ELSE Landed(h) : h \in hits}

\* The cards the picker offers.
Upgradable(g) == ToSet(g.hand) \ ({"armaments"} \cup g.up)

\* Cross on a card takes it up, Cross again plays it; a card that upgrades
\* another opens the picker first.
CrossEffects(g) ==
  CASE g.picker -> {[g EXCEPT !.selected = g.focus]}
    [] ~g.picker /\ g.phase = "targeting" -> Resolved(g)
    [] ~g.picker /\ g.phase = "card_selected" ->
         IF g.selected = "armaments" /\ Upgradable(g) # {}
         THEN {[g EXCEPT !.picker = TRUE, !.selected = c, !.focus = c] : c \in Upgradable(g)} ELSE Resolved(g)
    [] OTHER ->
         IF g.energy = 0 THEN {g}
         ELSE IF NeedsTarget(g.focus)
         THEN {[g EXCEPT !.phase = "targeting", !.domain = "enemy", !.tip = "none", !.subject = "foe",
                         !.selected = g.focus, !.focus = None, !.target = f] : f \in Alive(g)}
         ELSE {[g EXCEPT !.phase = "card_selected", !.selected = g.focus, !.tip = "none"]}

\* Triangle ends the turn, or confirms the picker's choice.
Triangled(g) ==
  IF g.picker
  THEN Landed([g EXCEPT !.up = @ \cup {g.selected}, !.energy = @ - 1,
                        !.hand = SelectSeq(@, LAMBDA c : c # "armaments")])
  ELSE IF g.turn < MaxTurn THEN NewTurn(g, g.turn + 1) ELSE {[g EXCEPT !.screen = "result"]}

Shifted(g, step) ==
  LET to(seq, x) == LET k == Index(seq, x) + step IN IF k \in DOMAIN seq THEN seq[k] ELSE x
  IN  CASE g.phase = "targeting" ->
             {[g EXCEPT !.target = to(SetToSortSeq(Alive(g), <), g.target)]}
        [] g.phase # "targeting" /\ g.focus # None ->
             {[g EXCEPT !.tip = t, !.focus =
                 to(IF g.picker THEN SelectSeq(g.hand, LAMBDA c : c \in Upgradable(g)) ELSE g.hand, g.focus)] :
                t \in IF g.phase = "hand" THEN {"none", "card_keyword"} ELSE {"none"}}
        [] OTHER -> {g}

\* Down or Circle away from the hand: nothing, the hand, or another part.
Probed(g) ==
  {g, OnRelic(g)} \cup (IF g.hand = <<>> THEN {} ELSE {InHand(g)}) \cup
    {[OnRelic(g) EXCEPT !.domain = "potion", !.tip = "none", !.subject = "flask", !.phase = "inspect"]}

Responses(g, b) ==
  CASE b = "cross" -> CrossEffects(g)
    [] b = "triangle" -> Triangled(g)
    [] b = "left" -> Shifted(g, -1)
    [] b = "right" -> Shifted(g, 1)
    [] OTHER -> Probed(g)

RECURSIVE After(_, _)
After(gs, buttons) ==
  IF buttons = <<>> THEN gs ELSE After(UNION {Responses(g, Head(buttons)) : g \in gs}, Tail(buttons))

\* What the game took: a card played, a card upgraded, or the end of the turn.
Took(g, h) ==
  IF g = h THEN None
  ELSE IF h.up # g.up /\ h.turn = g.turn THEN <<"upgrade", g.selected>>
  ELSE IF h.turn # g.turn \/ h.screen = "result" THEN <<"end_turn">>
  ELSE IF Len(h.hand) < Len(g.hand) THEN <<"card", g.selected, g.target>>
  ELSE None

-----------------------------------------------------------------------------
(* What a person sees. *)

Fields == {"hand", "energy", "block", "foes", "up", "turn", "phase", "domain", "tip", "subject",
           "focus", "selected", "target", "picker"}

\* A raised keyword box may cover one card beside the focused one.
Looks(g, image) ==
  LET full == [f \in Fields \cup {"complete", "image"} |->
                 CASE f = "complete" -> TRUE [] f = "image" -> image [] OTHER -> g[f]]
      covered == IF g.tip = "card_keyword" THEN {c \in ToSet(g.hand) : c # g.focus} ELSE {}
  IN  {full} \cup {[full EXCEPT !.complete = FALSE, !.hand = SelectSeq(@, LAMBDA x : x # c)] : c \in covered}

\* The reviewer may also attest that the hand is as it was, or, of a hand not
\* all seen before, that it still is not.
Attested(g, image, prior) ==
  LET full == [f \in Fields \cup {"complete", "image"} |->
                 CASE f = "complete" -> prior.complete [] f = "image" -> image [] OTHER -> g[f]]
  IN  IF prior.complete THEN {r \in {full} : r.hand = prior.hand}
      ELSE {[full EXCEPT !.hand = h] : h \in {x \in {prior.hand, g.hand} : ToSet(x) \subseteq ToSet(g.hand)}}

Baseline(r) == [r EXCEPT !.image = 0]

-----------------------------------------------------------------------------

\* The first readings of a fight.
Openings ==
  {p \in UNION {{<<g, r>> : r \in Looks(g, 0)} : g \in UNION {Landed([hand |-> deal, energy |-> 2, block |-> 0,
       foes |-> <<1, 1>>, up |-> {}, turn |-> 1, screen |-> "combat", phase |-> "hand", domain |-> "none",
       tip |-> "none", subject |-> None, focus |-> None, selected |-> None, target |-> None,
       picker |-> FALSE]) : deal \in Deals}} : ReadingOk(p[2])}

OpenFight(p) ==
  /\ fight = p[1] /\ view = p[2]
  /\ plan = None /\ sent = None /\ verdict = None /\ tries = {} /\ missed = 0 /\ probed = {}

InitFight == \E p \in Openings : OpenFight(p)

Playing == fight.screen = "combat" /\ sent = None

Actions(r) ==
  {EndTurn} \cup {Play(c, None) : c \in {x \in ToSet(r.hand) : ~NeedsTarget(x)}}
            \cup {Play(c, f) : c \in {x \in ToSet(r.hand) : NeedsTarget(x)}, f \in Alive(r)}

\* The strategist plans an action, and perhaps one more to follow it.
PlanAction ==
  /\ Playing /\ plan = None
  /\ \E act \in {x \in Actions(view) : ActionOk(view, x)}, queue \in {<<>>} \cup {<<q>> : q \in {x \in Actions(view) : x.card \in Queueable}} :
       plan' = [act |-> act, queue |-> queue, turn |-> fight.turn]
  /\ UNCHANGED <<fight, view, sent, tries, verdict, missed, probed>>

\* A plan may be given up for another between two taps.
Reconsider ==
  /\ Playing /\ plan # None
  /\ plan' = None
  /\ UNCHANGED <<fight, view, sent, tries, verdict, missed, probed>>

\* The command is recorded - a tap outside the hand in the turn's budget - and
\* sent; the game takes all of it, or what arrived before it was cut off.
Send(t, act) ==
  LET focus == FocusOf(view)
      probe == t.kind \in {"focus_probe", "inspect_focus"}
      pending(h, unsent) == [tap |-> t, act |-> act, took |-> Took(fight, h), unsent |-> unsent]
  IN  /\ \/ \E h \in After({fight}, t.buttons) : fight' = h /\ sent' = pending(h, FALSE) /\ missed' = missed
         \/ /\ missed < MaxMissed
            /\ missed' = missed + 1
            /\ \E k \in 0..Len(t.buttons) - 1 : \E h \in After({fight}, SubSeq(t.buttons, 1, k)) :
                 fight' = h /\ sent' = pending(h, k = 0)
      /\ tries' = IF probe THEN tries \cup {Try(focus, t.buttons[1])} ELSE tries
      /\ probed' = IF probe THEN probed \cup {<<focus, t.buttons[1]>>} ELSE probed
      /\ verdict' = None
      /\ UNCHANGED <<view, plan>>

PressPlanned ==
  /\ Playing /\ plan # None
  /\ \E t \in PlannedTaps(view, plan.act, tries) : Send(t, plan.act)

\* A help box may be looked past before anything is planned.
PressInspection ==
  /\ Playing /\ plan = None
  /\ \E t \in InspectionTaps(view, tries) : Send(t, None)

\* What a review may come to: <<reading, verdict>>.
FightResults ==
  LET images == {1} \cup (IF \A f \in Fields : fight[f] = view[f] THEN {0} ELSE {})
      looks == UNION {Looks(fight, i) \cup Attested(fight, i, view) : i \in images}
      verdicts(a) == IF sent.act = None THEN InspectionVerdicts(view, a)
                     ELSE CombatVerdicts(sent.tap, view, a, sent.act)
  IN  IF fight.screen = "combat" THEN UNION {{<<a, v>> : v \in verdicts(a)} : a \in looks}
      ELSE {<<view, v>> : v \in BoundaryVerdicts(sent.tap, view, fight)}

\* Faulty variant: what was queued is promoted without looking at the result.
QueuedUnseen(p, v, a) == IF v.complete /\ p.queue # <<>> THEN {p.queue[1]} ELSE {}

\* The queued action is promoted if the result leaves it possible.
Queued(p, v, a) ==
  IF /\ v.complete /\ p.queue # <<>> /\ fight.screen = "combat"
     /\ a.phase = "hand" /\ a.tip = "none" /\ a.turn = view.turn /\ a.complete
     /\ LET q == p.queue[1]
        IN  /\ q.target # None => q.target \in Alive(a)
            /\ q.kind = "card" => Has(a.hand, q.card) /\ a.energy >= 1
  THEN {p.queue[1]} ELSE {}

\* The result is reviewed, compared and finalised; an unfinished action keeps
\* its plan, and the budget of taps belongs to the turn.
ReviewFight ==
  /\ sent # None
  /\ \E r \in FightResults :
       LET a == r[1] v == r[2]
           key == <<FocusOf(view), sent.tap.buttons[1]>>
       IN  /\ verdict' = v
           /\ view' = Baseline(a)
           /\ plan' = IF plan = None \/ ~v.complete THEN plan
                      ELSE IF Queued(plan, v, a) = {} THEN None
                      ELSE [plan EXCEPT !.act = CHOOSE q \in Queued(plan, v, a) : TRUE, !.queue = Tail(@)]
           /\ tries' = IF a.turn # view.turn THEN {}
                       ELSE IF v.effect = None THEN tries ELSE Tried(tries, key[1], key[2], v.effect)
  /\ probed' = IF fight.turn # view.turn THEN {} ELSE probed
  /\ sent' = None
  /\ UNCHANGED <<fight, missed>>

\* A command proven never sent is recorded as not performed; its try remains.
NotPerformed ==
  /\ sent # None /\ sent.unsent
  /\ sent' = None
  /\ UNCHANGED <<fight, view, plan, tries, verdict, missed, probed>>

\* The choice a card asked for is made on its own screen, and the fight goes on.
ChoiceMade ==
  /\ sent = None /\ fight.screen = "selection"
  /\ \E g \in Landed([fight EXCEPT !.screen = "combat"]) :
       fight' = g /\ \E r \in Looks(g, 0) : view' = r /\ ReadingOk(r)
  /\ plan' = None
  /\ UNCHANGED <<sent, tries, verdict, missed, probed>>

Over == sent = None /\ fight.screen \in {"reward", "result"} /\ UNCHANGED fightVars

NextFight ==
  PlanAction \/ Reconsider \/ PressPlanned \/ PressInspection \/ ReviewFight \/ NotPerformed \/ ChoiceMade \/ Over

SpecFight == InitFight /\ [][NextFight]_fightVars

-----------------------------------------------------------------------------
(* Properties. *)

\* A plan is only carried out in the turn it was made in and as far as the fight
\* allows it, also when it was promoted from the queue.  The game takes nothing
\* but the planned action: the planned card at the planned enemy, the upgrade of
\* the planned card, or the end of the turn; moving the focus takes nothing.
\* Ending the turn while the picker is open is the exception: the same button
\* confirms the upgrade.  A command is judged complete when, and only when, the
\* game took something by it.
PlayedAsPlanned ==
  [][/\ sent = None /\ sent' # None /\ plan # None => plan.turn = fight.turn /\ ActionOk(fight, plan.act)
     /\ sent # None /\ sent' # sent =>
          \/ sent.took = None
          \/ sent.tap.kind = "advance" /\ sent.took = <<"card", sent.act.card, sent.act.target>>
          \/ sent.tap.kind = "upgrade_confirm" /\ sent.took = <<"upgrade", sent.act.card>>
          \/ sent.tap.kind = "end_turn" /\ (sent.took = <<"end_turn">> \/ view.picker)
     /\ sent # None /\ verdict' # None => (verdict'.complete <=> sent.took # None)]_fightVars

\* The search for the hand ends: in one turn no button is pressed twice from
\* the same place, however the focus wanders and whoever asks.
SearchIsBounded ==
  [][sent = None /\ sent' # None /\ sent'.tap.kind \in {"focus_probe", "inspect_focus"} =>
       <<FocusOf(fight), sent'.tap.buttons[1]>> \notin probed]_fightVars

\* Under the learning policy every command is settled by an honest review or
\* proven never sent, except an end of turn pressed over the picker, and a
\* Cross pressed while part of the hand was hidden.
CombatSettles ==
  sent # None /\ Policy = "learning" =>
    \/ sent.unsent \/ FightResults # {}
    \/ sent.tap.kind = "end_turn" /\ view.picker
    \/ sent.tap.kind = "advance" /\ ~view.complete

=============================================================================
