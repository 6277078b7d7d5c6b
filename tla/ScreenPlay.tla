------------------------------ MODULE ScreenPlay ------------------------------
(* A floor played through its menus: a routine planner (loot.py, shop.py,     *)
(* campfire.py) or the strategist decides what to take; one tap at a time is  *)
(* planned, pressed and reviewed (menu_requests.py, menu_results.py,          *)
(* reviewed_play.py); a press may be lost on its way.  The reviewer is        *)
(* honest: the observation written down is what the settled game shows.       *)
EXTENDS GameScreens

CONSTANT MaxLost      \* bound: presses that never reach the game

ASSUME PlayAssumption == MaxLost \in Nat

VARIABLES
  game,      \* the menu the game shows
  seen,      \* the last reviewed observation
  decision,  \* the option decided on, with the key of what it was decided for
  tap,       \* the pending tap, and the option the game took by it
  last,      \* the verdict on the last tap
  owned,     \* belongings according to the recorded inventory events
  taps,      \* presses for the current decision
  lost       \* presses lost so far

playVars == <<game, seen, decision, tap, last, owned, taps, lost>>

\* A capture of the game, at a later time, reviewed as the answer to a tap.
Capture(g, image, learned) ==
  [f \in DOMAIN g \cup {"image", "at", "answers"} |->
     CASE f = "image" -> image [] f = "at" -> 1 [] f = "answers" -> "tap"
       [] f = "learned" -> learned [] OTHER -> g[f]]

\* The same observation as the one before the next tap.
Before(a) == [a EXCEPT !.at = 0, !.image = 0]

-----------------------------------------------------------------------------
(* What each option is expected to do. *)

Post(o, screen, phase) ==
  [screen |-> screen, phase |-> phase, ctx |-> o.ctx, res |-> [r \in Resources |-> {o.res[r]}],
   inv |-> o.inv, facts |-> o.facts, allow |-> {}]

Paying(post, o, n) == [post EXCEPT !.res["gold"] = {o.res.gold - n}]
Having(post, o, kind, item) ==
  [post EXCEPT !.inv[kind] = @ \cup {item},
               !.res["deck"] = IF kind = "card" THEN {o.res.deck + 1} ELSE @]
Allowing(post, fields) ==
  [post EXCEPT !.facts = [f \in DOMAIN post.facts \ fields |-> post.facts[f]], !.allow = fields]

LootPost(o, i) ==
  LET role == o.options[i].role
  IN  CASE role = "gold" -> Paying(Post(o, o.screen, "choose"), o, -1)
        [] role \in {"potion", "relic"} -> Having(Post(o, o.screen, "choose"), o, role, i)
        [] role = "card" -> Having(Post(o, "reward", "choose"), o, role, i)
        [] role = "card_reward" -> Post(o, "card_reward", "choose")
        [] role = "skip" /\ o.fam = "loot_cards" -> Post(o, "reward", "choose")
        [] OTHER -> Post(o, "map", "result")

ShopPost(o, i) ==
  LET role == o.options[i].role
      base == Paying(Post(o, "shop", "choose"), o, o.options[i].cost)
  IN  CASE role = "proceed" -> [base EXCEPT !.screen = "map", !.phase = "result"]
        [] role \in Items -> Having(base, o, role, i)
        [] role = "remove_service" -> [base EXCEPT !.screen = "selection"]
        [] role = "remove_card" -> [base EXCEPT !.inv.card = @ \ {i}, !.res["deck"] = {o.res.deck - 1}]
        [] OTHER -> base

CampPost(o, i) ==
  LET role == o.options[i].role
  IN  CASE o.fam = "card_upgrade" ->
             [Post(o, "rest", "choose") EXCEPT !.inv.card = (@ \ {i}) \cup {i \o "+"},
                !.facts.stage = "resolved", !.facts.upgraded = i]
        [] role = "rest" -> [Post(o, "rest", "choose") EXCEPT !.res["hp"] = o.res.hp .. MaxHp,
                               !.facts.stage = "resolved"]
        [] role = "smith" -> Post(o, "selection", "choose")
        [] OTHER -> Post(o, "map", "result")

\* The kind of room a screen reveals.
Revealed(screen) ==
  CASE screen = "combat" -> "enemy" [] screen = "shop" -> "merchant" [] OTHER -> screen

MapPosts(o, i) ==
  {Allowing([Post(o, screen, "result") EXCEPT
      !.ctx.floor = o.ctx.floor + 1, !.ctx.combat = (screen = "combat"),
      !.facts.floor = o.facts.floor + 1, !.facts.node = i,
      !.facts.node_type = IF o.options[i].name = "event" THEN Revealed(screen) ELSE o.options[i].name],
      {"stage"}) : screen \in RoomScreens(o.options[i].name)}

\* The strategist's own declarations where no planner speaks.
OtherPosts(o, i) ==
  CASE o.fam = "neow_talk" -> {Allowing(Post(o, "event", "choose"), {"stage"})}
    [] o.fam = "event_options" ->
         {Allowing(Paying(Post(o, "event", "choose"), o, -n), {"stage"}) : n \in IF i = "coins" THEN {1, 2} ELSE {0}}
    [] o.fam = "event_leave" -> {Allowing(Post(o, "map", "choose"), {"stage"})}
    [] o.fam = "map_nodes" -> MapPosts(o, i)
    [] o.fam = "map_inspect" -> {Post(o, "map", "result")}
    [] o.fam = "treasure_options" ->
         {IF i = "chest" THEN Allowing(Post(o, "reward", "choose"), {"source"}) ELSE Post(o, "map", "result")}
    [] OTHER -> {Post(o, "combat", "result")}

Draft(o, i) ==
  [kind |-> KindOf(o), option |-> i,
   posts |-> CASE o.fam \in LootMenus -> {LootPost(o, i)}
               [] o.fam \in ShopMenus -> {ShopPost(o, i)}
               [] o.fam \in CampMenus \cup {"card_upgrade"} -> {CampPost(o, i)}
               [] OTHER -> OtherPosts(o, i)]

-----------------------------------------------------------------------------
(* Decisions. *)

Offer(o, role) == {i \in Ids(o) : o.options[i].on /\ o.options[i].cost = 0 /\ o.options[i].role = role}

BeltHasRoom(o) == Cardinality(o.inv.potion) < o.facts.capacity /\ "sozu" \notin o.inv.relic

\* What a planner takes without asking: gold, then a potion for an empty slot,
\* then the card offers, then the way on; the merchant's door; the campfire's
\* way on, Smith in good health with Armaments, Rest at half health.
Routine(o) ==
  CASE o.fam = "loot_cards" /\ o.phase = "confirm" -> {o.selected}
    [] o.fam = "loot_rewards" /\ o.facts.source = "combat" ->
         CASE Offer(o, "gold") # {} -> Offer(o, "gold")
           [] Offer(o, "gold") = {} /\ BeltHasRoom(o) /\ Offer(o, "potion") # {} -> Offer(o, "potion")
           [] OTHER -> IF Offer(o, "card_reward") # {} THEN Offer(o, "card_reward")
                       ELSE IF Cardinality(Ids(o)) = 1 THEN Offer(o, "proceed") ELSE {}
    [] o.fam = "shop_entry" -> Offer(o, "open")
    [] o.fam \in {"shop_exit", "campfire_exit"} -> Offer(o, "proceed")
    [] o.fam = "card_upgrade" /\ o.phase = "confirm" -> {o.selected}
    [] o.fam = "campfire_options" ->
         IF "armaments" \in o.inv.card /\ 4 * o.res.hp >= 3 * MaxHp THEN Offer(o, "smith")
         ELSE IF 2 * o.res.hp <= MaxHp THEN Offer(o, "rest") ELSE {}
    [] OTHER -> {}

\* A decision belongs to the offers, belongings and resources it was made for;
\* focus and learned moves do not change it, nor does taking a purchase up.
Key(o) ==
  <<o.ctx, o.inv, o.res, o.facts, o.fam, [i \in Ids(o) |-> [o.options[i] EXCEPT !.hint = None, !.pos = None]],
    IF o.fam \in {"shop_entry", "shop_exit", "shop_remove"} THEN <<o.phase, o.selected, o.pending>> ELSE <<>>>>

\* A potion is neither bought nor taken onto a full belt.
Refused(o, i) ==
  o.options[i].role = "potion" /\ ~(IF o.fam = "loot_rewards" THEN Cardinality(o.inv.potion) < o.facts.capacity
                                   ELSE BeltHasRoom(o))

Taps(o, i) == IF Refused(o, i) THEN {} ELSE PlanSteps(o, Draft(o, i))

-----------------------------------------------------------------------------
(* What a review of the settled game may write down. *)

\* Faulty variant: the map's own kind must be met under every policy.
ArrivalOkExactly(o, i, a) ==
  /\ a.facts.node = i /\ a.facts.floor = o.facts.floor + 1
  /\ a.facts.node_type = Revealed(a.screen)
  /\ o.options[i].name = "event" \/ a.facts.node_type = o.options[i].name

\* A room is entered as the node chosen, on its floor; combat is recorded as an
\* enemy room, and only the learning policy lets the map's own kind differ.
ArrivalOk(o, i, a) ==
  /\ a.facts.node = i /\ a.facts.floor = o.facts.floor + 1
  /\ a.facts.node_type = Revealed(a.screen)
  /\ \/ o.options[i].name = "event"
     \/ a.facts.node_type = o.options[i].name
     \/ Policy = "learning"

\* The observation each kind of result builds from the one before and the game.
Reviewed(kind, image) ==
  LET b == seen
      t == tap.tap
      shown == Capture(game, image, <<>>)
      taken == [b EXCEPT !.phase = "confirm", !.selected = tap.choice.option, !.pending = tap.choice.option,
                         !.focus = tap.choice.option, !.confirm = game.confirm, !.at = 1, !.image = image]
      rest == [shown EXCEPT !.phase = "result", !.options = <<>>, !.focus = None, !.fam = None]
  IN  CASE kind = "focus" ->
             IF t.kind = "focus"
             THEN {[b EXCEPT !.focus = game.focus, !.at = 1, !.image = image,
                      !.learned = IF b.fam \in {"shop_stock", "shop_remove"}
                                  THEN RecordFocus(b.learned, b.focus, t.button, game.focus) ELSE b.learned]}
             ELSE {}
        [] kind = "confirmation" ->
             IF t.kind = "select" /\ b.fam \in {"shop_stock", "loot_cards"} THEN {taken} ELSE {}
        [] kind = "preview" ->
             IF t.kind = "select" /\ b.fam = "card_upgrade"
             THEN {[taken EXCEPT !.options = [j \in {tap.choice.option} |-> b.options[j]]]} ELSE {}
        [] kind = "room" ->
             IF t.kind = "commit" /\ b.fam = "map_nodes"
             THEN {a \in {[rest EXCEPT !.facts.node_type = k] : k \in {rest.facts.node_type, Revealed(rest.screen)}} :
                     ArrivalOk(b, tap.choice.option, a)}
             ELSE {}
        [] kind = "view" -> IF t.kind = "inspect" THEN {rest} ELSE {}
        [] kind = "menu" ->
             IF b.fam = "map_nodes" /\ t.kind = "commit" /\ game.fam # "map_nodes" THEN {} ELSE {shown}

\* An honest reviewer writes down what is there.
Honest(a) ==
  /\ a.screen = game.screen /\ a.focus \in {game.focus, None} /\ a.res = game.res /\ a.inv = game.inv
  /\ a.phase \in {game.phase, "result"} /\ a.selected \in {game.selected, None} /\ a.ctx = game.ctx
  /\ \A i \in Ids(a) : i \in Ids(game) /\ a.options[i] = game.options[i]

\* Faulty variant: only what was gained is recorded.
EventsOfGains(b, a) ==
  [kind \in {"card", "relic", "potion"} |-> <<a.inv[kind] \ b.inv[kind], {}>>]

\* The inventory events a completed commit is recorded with.
Events(b, a) ==
  IF b.fam \in LootMenus \cup {"shop_stock", "shop_remove", "card_upgrade"}
  THEN [kind \in {"card", "relic", "potion"} |-> <<a.inv[kind] \ b.inv[kind], b.inv[kind] \ a.inv[kind]>>]
  ELSE [kind \in {"card", "relic", "potion"} |-> <<{}, {}>>]

-----------------------------------------------------------------------------
(* The player's steps. *)

\* A clean look at the game between taps, when no decision is under way.
Fresh(g) == Before(Capture(g, 0, <<>>))

OpenPlay(hp) ==
  /\ game = Opening(hp)
  /\ seen = Before(Capture(game, 0, <<>>))
  /\ decision = None /\ tap = None /\ last = None /\ taps = 0 /\ lost = 0
  /\ owned = game.inv

InitPlay == \E hp \in Hps : OpenPlay(hp)

\* The strategist or a routine planner decides for an option of the menu.
Decide(i) ==
  /\ tap = None /\ decision = None
  /\ seen.phase # "result" /\ i \in Ids(seen) /\ seen.options[i].on
  /\ seen.selected \in {None, i}
  /\ Routine(seen) = {} \/ i \in Routine(seen)
  /\ decision' = [option |-> i, key |-> Key(seen)]
  /\ UNCHANGED <<game, seen, tap, last, owned, taps, lost>>

\* The decision no longer fits what is seen, or nothing can be planned for it.
GiveUp ==
  /\ tap = None /\ decision # None
  /\ \/ decision.key # Key(seen)
     \/ decision.key = Key(seen) /\ Taps(seen, decision.option) = {}
  /\ decision' = None /\ taps' = 0
  /\ UNCHANGED <<game, seen, tap, last, owned, lost>>

\* The map may be looked over before a node is chosen.
LookOver ==
  /\ tap = None /\ decision = None /\ game.fam = "map_nodes" /\ game.view = "here"
  /\ seen.fam = "map_nodes"
  /\ seen' = Before(Capture(Show(game, "map_inspect",
               [i \in {"inspect_up"} |-> Option("inspect", 0, "up", None, None)], "inspect_up"), 0, <<>>))
  /\ UNCHANGED <<game, decision, tap, last, owned, taps, lost>>

\* Plan the tap, record it and hand it over; it may be lost.
Press ==
  /\ tap = None /\ decision # None /\ decision.key = Key(seen)
  /\ \E t \in Taps(seen, decision.option) :
       LET pending(acted) == [id |-> "tap", tap |-> t, choice |-> Draft(seen, decision.option), acted |-> acted]
       IN  \/ \E r \in React(game, t.button) : game' = r[1] /\ tap' = pending(r[2]) /\ lost' = lost
           \/ lost < MaxLost /\ lost' = lost + 1 /\ tap' = pending(None) /\ game' = game
  /\ taps' = taps + 1 /\ last' = None
  /\ UNCHANGED <<seen, decision, owned>>

\* What a review of the settled game may come to: <<observation, verdict>>.
Results ==
  LET moved == game.options # seen.options \/ game.focus # seen.focus \/ game.phase # seen.phase
               \/ game.screen # seen.screen \/ game.view # seen.view
      images == {1} \cup (IF moved THEN {} ELSE {0})
      kinds == {"focus", "confirmation", "preview", "room", "view", "menu"}
      views == {a \in UNION {Reviewed(kind, image) : kind \in kinds, image \in images} : Honest(a)}
  IN  UNION {{<<a, v>> : v \in UNION {Verdicts(tap, seen, a, flag, Policy) :
                                     flag \in {None, "no_op", "map_reobservation"}}} : a \in views}

\* The settled game is reviewed and compared with what the tap promised.
Review ==
  /\ tap # None
  /\ \E r \in Results :
       LET a == r[1] v == r[2] e == Events(seen, a)
       IN  /\ last' = v
           /\ seen' = Before(IF a.phase = "result" THEN Capture(game, a.image, <<>>) ELSE a)
           /\ decision' = IF v.complete THEN None ELSE decision
           /\ taps' = IF v.complete THEN 0 ELSE taps
           /\ owned' = IF v.complete
                       THEN [k \in DOMAIN owned |-> (owned[k] \cup e[k][1]) \ e[k][2]] ELSE owned
  /\ tap' = None
  /\ UNCHANGED <<game, lost>>

\* The fight goes on without menus; the next menu is captured afresh.
Fight ==
  /\ tap = None /\ decision = None
  /\ \E g \in FightStep(game) : game' = g /\ seen' = Fresh(g)
  /\ UNCHANGED <<decision, tap, last, owned, taps, lost>>

\* Back at the map the floor is over.
FloorDone ==
  /\ tap = None /\ game.screen = "map" /\ game.phase = "result"
  /\ UNCHANGED playVars

NextPlay == (\E i \in Ids(seen) : Decide(i)) \/ GiveUp \/ LookOver \/ Press \/ Review \/ Fight \/ FloorDone

SpecPlay == InitPlay /\ [][NextPlay]_playVars

-----------------------------------------------------------------------------
(* Properties. *)

\* Whatever is pressed, and however the shop's focus really moves, the game
\* takes no option but the one decided on, and moving the focus or looking
\* around takes none.  A tap is judged complete when the game took the option,
\* and not complete when it took nothing - but for a map activation after which
\* the same map is shown (see NoOpIsNoSuccess).  A selection is never complete.
VerdictIsTrue ==
  [][tap # None /\ tap' = None =>
       /\ tap.acted \in {None, decision.option}
       /\ last'.complete => tap.acted # None \/ last'.surprise = "map_room_entry"
       /\ tap.tap.kind = "commit" /\ tap.acted # None =>
            last'.complete \/ last'.surprise = "loot_relic_confirmation"
       /\ tap.tap.kind \in {"focus", "inspect"} => ~last'.complete /\ tap.acted = None]_playVars

\* A decision is carried out within twice as many taps as the menu has
\* options, and one more for each tap lost: a wrong guess about the shop's
\* focus is not made twice, for a move taught by a tap in the shop is what the
\* shop really does, or "stays where it is" where a tap was lost.
WalkIsShort ==
  /\ taps <= 2 * Cardinality(Ids(seen)) + lost
  /\ tap = None /\ seen.fam = "shop_stock" =>
       \A m \in DOMAIN seen.learned :
         seen.learned[m] = m[1] \/ seen.learned[m] = Moves([game EXCEPT !.focus = m[1]], m[2])

\* The belongings the memory can rebuild from the recorded inventory events
\* are those of the game, whenever no tap is pending.
RecordedIsOwned == tap = None => owned = game.inv

\* A selecting tap that was lost, or a lost focus tap on a menu whose focus is
\* not re-observed (events, the campfire, the upgrade picker): no result fits
\* it, and it stays pending for a person.
Stranded ==
  /\ tap # None /\ tap.acted = None
  /\ \/ tap.tap.kind = "select"
     \/ tap.tap.kind = "focus" /\ seen.fam \in {"event_options", "campfire_options", "card_upgrade"}

\* Under the learning policy every tap can be settled by an honest review of
\* what the game then shows, except a stranded one.
CanBeSettled == tap # None /\ Policy = "learning" => Stranded \/ Results # {}

\* "This records an unresolved no-op and leaves planning on the current menu;
\* it never claims that the choice succeeded" (Reviewer.verify): a tap that
\* left the game as it was is not complete.
NoOpIsNoSuccess ==
  [][tap # None /\ tap' = None /\ tap.acted = None => ~last'.complete]_playVars

=============================================================================
