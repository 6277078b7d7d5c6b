----------------------------- MODULE ChoiceStep ------------------------------
(* One tap at a time through the menus of the game (choice_execution.py and   *)
(* the menu rules of menu_controls.py, shop_controls.py, campfire_controls.py,*)
(* neow_start.py; the verification of reviewed_play.py, map_focus.py).        *)
(* From a reviewed observation o and a choice ch, PlanSteps gives the tap to  *)
(* send; Verdicts compares the observation after it with what was promised.   *)
(* Both are sets: empty where the code refuses.  A choice is                  *)
(*   [kind, option, posts]   posts: the outcomes declared, one or several     *)
(* and a post says screen, phase, ctx, the set of values each resource may    *)
(* take, inv, facts, and in allow the facts that may change.  The image of an *)
(* observation is its pixels; at orders the images in time; answers is the    *)
(* tap its review speaks of.                                                  *)
EXTENDS MenuControls

Resources == {"gold", "hp", "deck"}

-----------------------------------------------------------------------------
(* What an observation must be before anything is planned on it. *)

WellFormed(o) ==
  /\ o.focus \in Ids(o) \cup {None}
  /\ o.selected \in Ids(o) \cup {None} /\ o.pending \in Ids(o) \cup {None}
  /\ \A i \in Ids(o) : o.options[i].cost >= 0
  /\ LET nav == Navigation(o) IN \A e, f \in nav : e[1] = f[1] /\ e[2] = f[2] => e = f

\* A profile applies to a focused menu outside combat; only a loot Skip may
\* carry a shortcut of its own.
Base(o, combatToo) ==
  /\ o.focus \in Ids(o)
  /\ combatToo \/ ~o.ctx.combat
  /\ \A i \in Ids(o) : Shortcut(o, i) # None =>
       o.fam = "loot_rewards" /\ o.options[i].role = "skip"

NothingTaken(o) == o.selected = None /\ o.pending = None /\ o.confirm = None

\* A menu that asks to confirm names the option taken up, focused on it.
AsksFor(o, roles) ==
  /\ o.selected # None /\ o.pending = o.selected /\ o.focus = o.selected
  /\ o.confirm # None
  /\ o.options[o.selected].role \in roles

LootOk(o) ==
  /\ Base(o, FALSE)
  /\ IF o.phase = "choose" THEN NothingTaken(o)
     ELSE o.phase = "confirm" /\ AsksFor(o, IF o.fam = "loot_cards" THEN {"card"} ELSE {"relic"})
  /\ \/ o.facts.source \in {"combat", "treasure"}
     \/ o.facts.source = None /\ o.facts.node_type = "treasure"

EventOk(o) ==
  /\ Base(o, FALSE) /\ o.phase = "choose" /\ NothingTaken(o)
  /\ o.facts.stage \in {None, "reward_options"}

TreasureOk(o) ==
  /\ Base(o, FALSE) /\ o.phase = "choose" /\ NothingTaken(o)
  /\ o.facts.node_type = "treasure"
  /\ Cardinality({i \in Ids(o) : o.options[i].role = "open_chest"}) = 1
  /\ \A i \in Ids(o) : /\ o.options[i].role \in {"open_chest", "skip_chest"}
                       /\ o.options[i].on /\ o.options[i].cost = 0
                       /\ o.options[i].role = "skip_chest" => o.options[i].hint # None
  /\ Cardinality(Ids(o)) \in {1, 2}

UpgradeOk(o) ==
  /\ Base(o, FALSE)
  /\ IF o.phase = "choose" THEN NothingTaken(o)
     ELSE o.phase = "confirm" /\ AsksFor(o, {"card"}) /\ o.confirm \in {"cross", "triangle"}

CombatSelectionOk(o) ==
  /\ Base(o, TRUE) /\ o.phase = "choose" /\ NothingTaken(o)
  /\ \A i \in Ids(o) : o.options[i].role = "card" /\ o.options[i].on /\ o.options[i].cost = 0

\* Neow's only Talk and only Leave, at floor 0, alive and focused.
NeowOk(o) ==
  /\ Base(o, FALSE) /\ o.phase = "choose" /\ NothingTaken(o)
  /\ o.facts.floor = 0 /\ o.res.hp > 0
  /\ \/ o.fam = "neow_talk" /\ o.facts.stage = "opening_dialogue" /\ Ids(o) = {"talk"}
     \/ o.fam = "event_leave" /\ o.facts.stage = "reward_resolved" /\ Ids(o) = {"leave"}
  /\ \A i \in Ids(o) : o.options[i].on /\ o.options[i].cost = 0 /\ o.options[i].hint = None

\* A complete row of next-floor nodes at distinct places, or one survey direction.
MapOk(o) ==
  /\ Base(o, FALSE) /\ o.phase = "choose" /\ NothingTaken(o) /\ o.res.hp > 0
  /\ \A i \in Ids(o) : o.options[i].on /\ o.options[i].cost = 0
  /\ IF o.fam = "map_nodes"
     THEN /\ Cardinality(Ids(o)) \in 1..7
          /\ o.facts.node \notin Ids(o)
          /\ \A i, j \in Ids(o) : o.options[i].pos[2] = o.options[j].pos[2] => i = j
     ELSE \E d \in {"up", "down"} : /\ Ids(o) = {"inspect_" \o d}
                                    /\ o.options["inspect_" \o d].name = d

ShopOk(o) ==
  /\ ~o.ctx.combat
  /\ o.facts.node_type = "merchant"
  /\ IF o.phase = "confirm"
     THEN /\ o.fam \in {"shop_stock", "shop_remove"}
          /\ AsksFor(o, Items \cup {"remove_card"}) /\ o.confirm \in {"cross", "triangle"}
     ELSE o.phase = "choose" /\ o.selected = None /\ o.pending = None
  /\ \A i \in Ids(o) : o.options[i].role \in Boundary => o.options[i].hint # None

CampfireOk(o) ==
  /\ Base(o, FALSE) /\ o.phase = "choose" /\ NothingTaken(o)
  /\ o.facts.node_type = "rest"
  /\ \A i \in Ids(o) : o.options[i].cost = 0
  /\ o.fam = "campfire_exit" =>
       /\ o.facts.stage = "resolved" /\ Cardinality(Ids(o)) = 1
       /\ \A i \in Ids(o) : o.options[i].role = "proceed" /\ o.options[i].on /\ o.options[i].hint # None

MenuOk(o) ==
  /\ WellFormed(o)
  /\ CASE o.fam \in ShopMenus -> ShopOk(o)
       [] o.fam \in LootMenus -> LootOk(o)
       [] o.fam \in CampMenus -> CampfireOk(o)
       [] o.fam \in {"neow_talk", "event_leave"} -> NeowOk(o)
       [] o.fam \in {"map_nodes", "map_inspect"} -> MapOk(o)
       [] o.fam = "event_options" -> EventOk(o)
       [] o.fam = "treasure_options" -> TreasureOk(o)
       [] o.fam = "card_upgrade" -> UpgradeOk(o)
       [] o.fam = "combat_selection" -> CombatSelectionOk(o)
       [] OTHER -> FALSE

-----------------------------------------------------------------------------
(* What a choice may promise on each menu. *)

Exactly(o, post) ==
  /\ post.inv = o.inv
  /\ \A r \in Resources : post.res[r] = {o.res[r]}

PromiseOk(o, ch, post) ==
  LET opt == o.options[ch.option]
  IN  CASE o.fam = "map_nodes" ->
             /\ post.screen \in RoomScreens(opt.name) /\ post.phase = "result"
             /\ post.inv = o.inv
             /\ post.ctx.floor # o.ctx.floor
             /\ post.ctx.combat = (post.screen = "combat")
             /\ {"floor", "node", "node_type"} \subseteq DOMAIN post.facts
             /\ post.facts["floor"] = o.facts.floor + 1
             /\ post.facts["node"] = ch.option
             /\ post.facts["node_type"] \in
                  {opt.name} \cup IF opt.name = "event"
                                  THEN {"enemy", "rest", "merchant", "treasure", "reward"} ELSE {}
        [] o.fam = "map_inspect" ->
             /\ Exactly(o, post) /\ post.screen = "map" /\ post.phase = "result"
             /\ post.ctx = o.ctx /\ post.allow = {}
        [] o.fam = "event_leave" ->
             /\ Exactly(o, post) /\ post.screen = "map" /\ post.ctx = o.ctx
             /\ post.allow \subseteq {"stage"}
        [] o.fam = "neow_talk" ->
             /\ Exactly(o, post) /\ post.screen = "event" /\ post.phase = "choose"
             /\ post.ctx = o.ctx /\ post.allow = {"stage"} /\ "stage" \notin DOMAIN post.facts
        [] o.fam = "card_upgrade" ->
             /\ post.inv # o.inv
             /\ \A r \in Resources : post.res[r] = {o.res[r]}
             /\ post.ctx = o.ctx /\ "upgraded" \in DOMAIN post.facts
             /\ post.facts["upgraded"] = ch.option
        [] o.fam = "combat_selection" ->
             /\ Exactly(o, post) /\ post.ctx = o.ctx
             /\ post.screen = "combat" /\ post.phase = "result" /\ post.allow = {}
        [] o.fam \in CampMenus ->
             /\ post.ctx = o.ctx /\ post.inv = o.inv
             /\ post.screen \in (CASE opt.role = "rest" -> {"rest", "map"}
                                   [] opt.role = "smith" -> {"selection"}
                                   [] opt.role = "proceed" -> {"map"}
                                   [] OTHER -> {})
             /\ \A r \in Resources : r # "hp" \/ opt.role # "rest" => post.res[r] = {o.res[r]}
        [] OTHER -> TRUE

KindOf(o) ==
  CASE o.screen = "card_reward" -> "reward"
    [] OTHER -> o.screen

\* The choice names an enabled option it can pay; a price is debited exactly in
\* every outcome; several outcomes only where the game may differ.
ChoiceOk(o, ch) ==
  /\ ch.kind = KindOf(o)
  /\ ch.option \in Ids(o) /\ o.options[ch.option].on
  /\ o.selected \in {None, ch.option}
  /\ \/ Cardinality(ch.posts) = 1
     \/ ch.kind \in {"map", "event", "reward"} /\ Cardinality(ch.posts) \in 2..8
  /\ \A post \in ch.posts : /\ PromiseOk(o, ch, post)
                            /\ DOMAIN post.facts \cap post.allow = {}
  /\ LET cost == o.options[ch.option].cost
     IN  /\ cost <= o.res.gold
         /\ cost > 0 => \A post \in ch.posts : post.res["gold"] = {o.res.gold - cost}

-----------------------------------------------------------------------------
(* The next tap. *)

\* First edges of the shortest walks from the focus to the target: what the
\* breadth-first search finds, up to the order of the edges.  near[k] are the
\* options from which the target is at most k moves away.
FirstEdges(o, target) ==
  LET nav == Navigation(o)
      near[k \in Nat] ==
        IF k = 0 THEN {target}
        ELSE LET closer == near[k - 1] IN closer \cup {e[1] : e \in {f \in nav : f[3] \in closer}}
      far == {k \in 1..Cardinality(Ids(o)) : o.focus \in near[k]}
  IN  {e \in nav : far # {} /\ e[1] = o.focus /\ e[3] \in near[Min(far) - 1]}

\* Confirm what is taken up; else use a shortcut; else move the focus one step
\* nearer; else take the focused option.
TapFor(o, ch) ==
  LET i == ch.option
      tap(kind, button, to) == [kind |-> kind, button |-> button, to |-> to]
  IN  CASE o.phase = "confirm" ->
             IF o.selected = i /\ o.pending = i /\ o.confirm # None
             THEN {tap("commit", o.confirm, None)} ELSE {}
        [] o.phase = "choose" /\ (o.pending # None \/ o.selected = i) -> {}
        [] o.phase = "choose" /\ o.pending = None /\ o.selected # i ->
             CASE Shortcut(o, i) # None -> {tap("commit", Shortcut(o, i), None)}
               [] Shortcut(o, i) = None /\ o.focus # i ->
                    {tap("focus", e[2], e[3]) : e \in FirstEdges(o, i)}
               [] Shortcut(o, i) = None /\ o.focus = i /\ Activate(o, i) = None -> {}
               [] Shortcut(o, i) = None /\ o.focus = i /\ Activate(o, i) # None ->
                    {tap(CASE \/ o.fam = "shop_stock" /\ o.options[i].role \in Items
                              \/ o.fam = "loot_cards" /\ o.options[i].role = "card"
                              \/ Toggles(o) -> "select"
                           [] o.fam = "map_inspect" -> "inspect"
                           [] OTHER -> "commit",
                         Activate(o, i), None)}
        [] OTHER -> {}

PlanSteps(o, ch) == IF MenuOk(o) /\ ChoiceOk(o, ch) THEN TapFor(o, ch) ELSE {}

-----------------------------------------------------------------------------
(* Comparing what came of a tap with what was promised. *)

Stable(b, a) == a.ctx = b.ctx /\ a.res = b.res /\ a.inv = b.inv /\ a.facts = b.facts

\* The part of a menu a focus or a selection leaves alone.
MenuOf(o) == [fam |-> o.fam, screen |-> o.screen, phase |-> o.phase, focus |-> o.focus,
              selected |-> o.selected, pending |-> o.pending, learned |-> o.learned,
              options |-> o.options]

Later(b, a) == a.at > b.at

\* One declared outcome against the observation.
Meets(post, b, a) ==
  /\ a.screen = post.screen /\ a.phase = post.phase /\ a.ctx = post.ctx
  /\ \A r \in Resources : a.res[r] \in post.res[r]
  /\ a.inv = post.inv
  /\ \A f \in DOMAIN a.facts :
       IF f \in DOMAIN post.facts THEN a.facts[f] = post.facts[f]
       ELSE f \in post.allow \/ a.facts[f] = b.facts[f]

\* Exactly one of the declared outcomes is the one observed.
MeetsOne(ch, b, a) == Cardinality({post \in ch.posts : Meets(post, b, a)}) = 1

\* The game has answered: something of the state, the screen or the offers changed.
Progress(b, a) == ~Stable(b, a) \/ a.screen # b.screen \/ a.phase # b.phase \/ a.options # b.options

\* An upgrade picker may shrink to the preview of the card taken up.
PreviewOf(b, a, i) ==
  /\ UpgradeOk(a) /\ a.phase = "confirm" /\ b.phase = "choose"
  /\ a.selected = i /\ a.pending = i
  /\ Ids(a) \in {{i}, Ids(b)}
  /\ \A j \in Ids(a) : a.options[j] = b.options[j]

\* The verdict of verify_choice_step: as planned, or nothing.
AsPlanned(t, b, a) ==
  /\ Later(b, a)
  /\ a.image # b.image \/ t.tap.kind = "inspect"
  /\ CASE t.tap.kind = "inspect" ->
            /\ Stable(b, a) /\ MeetsOne(t.choice, b, a) /\ a.answers = t.id
            /\ Ids(a) = {} /\ (a.image = b.image => a.view = b.view)
       [] t.tap.kind = "focus" ->
            Stable(b, a) /\ MenuOf(a) = [MenuOf(b) EXCEPT !.focus = t.tap.to]
       [] t.tap.kind = "select" ->
            /\ Stable(b, a)
            /\ IF b.fam = "card_upgrade" THEN PreviewOf(b, a, t.choice.option)
               ELSE MenuOf(a) = [MenuOf(b) EXCEPT !.selected = t.choice.option,
                                   !.pending = t.choice.option, !.phase = "confirm"]
       [] t.tap.kind = "commit" ->
            /\ MeetsOne(t.choice, b, a) /\ a.answers = t.id /\ Progress(b, a)
            /\ b.fam = "neow_talk" => a.facts.stage \in {"dialogue", "reward_options"}

Verdict(complete, surprise) == [complete |-> complete, surprise |-> surprise]

Complete(t) == t.tap.kind = "commit"

Belongs(t, b, a) == Later(b, a) /\ a.answers = t.id

\* The recoveries of the learning policy, tried in this order when the step is
\* not as planned.  `flag' is what the reviewer declares besides the picture.
Recover(t, b, a, flag) ==
  LET same == b.ctx.floor = a.ctx.floor /\ b.res = a.res /\ b.facts = a.facts /\ b.inv = a.inv
      loot == b.fam \in LootMenus
  IN  CASE t.tap.kind \in {"select", "commit"} /\ b.fam = "loot_cards" /\ a.fam = "loot_rewards" ->
             IF Belongs(t, b, a) /\ same /\ a.phase = "choose"
             THEN {Verdict(TRUE, "loot_reward_handoff")} ELSE {}
        [] t.tap.kind = "focus" /\ b.fam = "map_nodes" ->
             CASE /\ Belongs(t, b, a) /\ Stable(b, a) /\ a.fam = "map_nodes" /\ a.image # b.image
                  /\ flag = "map_reobservation" /\ MapOk(a) -> {Verdict(FALSE, "map_selectable_set")}
               [] /\ Belongs(t, b, a) /\ Stable(b, a) /\ a.fam = "map_nodes" /\ a.image # b.image
                  /\ flag = None /\ a.focus \in Ids(b) /\ Ids(a) = Ids(b)
                  /\ \A i \in Ids(a) : [a.options[i] EXCEPT !.name = b.options[i].name] = b.options[i]
                    -> {Verdict(FALSE, "map_focus")}
               [] OTHER -> {}
        [] t.tap.kind = "focus" /\ b.fam \in {"shop_stock", "shop_remove"} ->
             IF /\ Belongs(t, b, a) /\ Stable(b, a)
                /\ MenuOf(a) = [MenuOf(b) EXCEPT !.focus = a.focus,
                     !.learned = RecordFocus(b.learned, b.focus, t.tap.button, a.focus)]
                /\ a.image # b.image \/ a.focus = b.focus
             THEN {Verdict(FALSE, IF a.focus = t.tap.to THEN None ELSE "shop_focus")} ELSE {}
        [] t.tap.kind = "focus" /\ loot ->
             IF Later(b, a) /\ same /\ a.fam = b.fam /\ a.phase = "choose" /\ a.focus \in Ids(a)
             THEN {Verdict(FALSE, "loot_focus_reobservation")} ELSE {}
        [] t.tap.kind = "commit" /\ b.fam = "loot_rewards" /\ a.phase = "confirm" ->
             IF /\ Later(b, a) /\ same /\ a.fam = "loot_rewards" /\ AsksFor(a, {"relic"})
             THEN {Verdict(FALSE, "loot_relic_confirmation")} ELSE {}
        [] OTHER ->
             IF t.tap.kind # "commit" \/ ~Belongs(t, b, a) \/ a.image = b.image THEN {}
             ELSE IF b.fam = "map_nodes" /\ a.fam = "map_nodes" THEN {Verdict(TRUE, "map_room_entry")}
             ELSE IF Progress(b, a) THEN {Verdict(TRUE, "choice_postconditions")}
             ELSE {v \in {Verdict(FALSE, "no_op_reconciliation")} : flag = "no_op"}

\* Faulty variant: any picture after a commit is taken for its result.
VerdictsOfAnyPicture(t, b, a, flag, policy) ==
  IF t.tap.kind = "commit" THEN {Verdict(TRUE, None)}
  ELSE IF AsPlanned(t, b, a) THEN {Verdict(FALSE, None)} ELSE {}

Verdicts(t, b, a, flag, policy) ==
  IF AsPlanned(t, b, a) THEN {Verdict(Complete(t), None)}
  ELSE IF policy = "learning" THEN Recover(t, b, a, flag) ELSE {}

=============================================================================
