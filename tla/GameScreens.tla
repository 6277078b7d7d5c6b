----------------------------- MODULE GameScreens -----------------------------
(* The game's own menus, as far as the player meets them: what a button does. *)
(* External: modelled from what the planners and the checks of results expect *)
(* of it.  One floor: Neow, the map, then the shop, a campfire, an elite, or  *)
(* a question mark that hides a treasure room.  The game asks to confirm a    *)
(* purchase, a card offer, a relic and an upgrade; it pays the removal of a   *)
(* card when the card goes, not when the service is opened.                   *)
EXTENDS ChoiceStep

CONSTANTS Rooms,      \* the nodes of the map: "shop", "camp", "fight", "mark"
          Hps,        \* the health on arrival
          MaxHp       \* the most health

\* <<kind on the map, kind revealed>> of each node.
Kind == [shop |-> <<"merchant", "merchant">>, camp |-> <<"rest", "rest">>,
         fight |-> <<"elite", "elite">>, mark |-> <<"event", "treasure">>]
Column == [shop |-> 0, camp |-> 1, fight |-> 2, mark |-> 3]

\* The ways the focus may really move in a shop, where the player guesses.
Plain == [s \in {"strike2", "brew", "service"}, b \in Directions |->
            CASE s = "strike2" /\ b = "right" -> "brew"
              [] s = "strike2" /\ b = "down" -> "service"
              [] s = "brew" /\ b = "left" -> "strike2"
              [] s = "brew" /\ b = "down" -> "service"
              [] s = "service" /\ b = "up" -> "strike2"
              [] OTHER -> s]
Blocked == [Plain EXCEPT !["strike2", "down"] = "strike2"]
Crossed == [Plain EXCEPT !["strike2", "down"] = "brew", !["brew", "left"] = "brew"]
Shops == [plain |-> Plain, blocked |-> Blocked, crossed |-> Crossed]

Option(role, cost, name, hint, pos) ==
  [role |-> role, on |-> TRUE, cost |-> cost, name |-> name, hint |-> hint, pos |-> pos]

\* The same world under another menu.
Show(w, fam, options, focus) ==
  [w EXCEPT !.fam = fam, !.screen = ScreenOf(fam), !.phase = "choose",
     !.options = options, !.focus = focus, !.selected = None, !.pending = None,
     !.confirm = None, !.learned = <<>>]

\* A screen without controls.
Result(w, screen) == [Show(w, None, <<>>, None) EXCEPT !.screen = screen, !.phase = "result"]

NeowTalk(w) == Show(w, "neow_talk", [talk |-> Option("talk", 0, "talk", None, <<0, 0>>)], "talk")
Blessings(w) == Show(w, "event_options",
  [coins |-> Option("event", 0, "coins", None, <<0, 0>>),
   refuse |-> Option("event", 0, "refuse", None, <<1, 0>>)], "coins")
Leave(w) == Show(w, "event_leave", [leave |-> Option("leave_event", 0, "leave", None, <<0, 0>>)], "leave")
MapRow(w) == Show(w, "map_nodes",
  [n \in Rooms |-> Option("node", 0, Kind[n][1], None, <<0, Column[n]>>)],
  CHOOSE n \in Rooms : \A m \in Rooms : Column[n] <= Column[m])

Counter(w) == Show(w, "shop_entry",
  [open |-> Option("open", 0, "open", "square", None),
   go |-> Option("proceed", 0, "go", "triangle", None)], "open")
Stock(w, sold) ==
  LET offers == [strike2 |-> Option("card", 1, "strike2", None, <<0, 0>>),
                 brew |-> Option("potion", 1, "brew", None, <<0, 10>>),
                 service |-> Option("remove_service", 1, "service", None, <<10, 0>>),
                 leave |-> Option("leave", 0, "leave", "circle", None)]
      left == [i \in DOMAIN offers \ sold |-> [offers[i] EXCEPT !.on = offers[i].cost <= w.res.gold]]
  IN  [Show(w, "shop_stock", left,
            CHOOSE i \in DOMAIN left : i = "leave" => DOMAIN left = {"leave"}) EXCEPT !.sold = sold]
Deck(w, fam, cost) ==
  [c \in w.inv.card |-> Option(IF fam = "shop_remove" THEN "remove_card" ELSE "card", cost, c, None,
                               <<0, IF c = "armaments" THEN 0 ELSE IF c = "strike" THEN 10 ELSE 20>>)]
Purge(w) == Show(w, "shop_remove", Deck(w, "shop_remove", 1), CHOOSE c \in w.inv.card : TRUE)
ShopDoor(w) == Show(w, "shop_exit", [go |-> Option("proceed", 0, "go", "triangle", None)], "go")

Campfire(w) == Show(w, "campfire_options",
  [rest |-> Option("rest", 0, "rest", None, <<0, 0>>),
   smith |-> Option("smith", 0, "smith", None, <<0, 1>>)], "rest")
Upgrades(w) == Show(w, "card_upgrade",
  [c \in w.inv.card |-> Option("card", 0, c, None, <<0, IF c = "armaments" THEN 0 ELSE 1>>)], "armaments")
FireOut(w) == Show([w EXCEPT !.facts.stage = "resolved"], "campfire_exit",
  [go |-> Option("proceed", 0, "go", "triangle", None)], "go")

Chest(w) == Show(w, "treasure_options",
  [chest |-> Option("open_chest", 0, "chest", None, <<0, 0>>),
   skip |-> Option("skip_chest", 0, "skip", "circle", None)], "chest")
Spoils(w, left) ==
  LET rows == [coins |-> Option("gold", 0, "coins", None, <<0, 0>>),
               brew |-> Option("potion", 0, "brew", None, <<1, 0>>),
               relic |-> Option("relic", 0, "relic", None, <<0, 0>>),
               cards |-> Option("card_reward", 0, "cards", None, <<2, 0>>),
               skip |-> Option("skip", 0, "skip", "circle", None),
               go |-> Option("proceed", 0, "go", None, <<3, 0>>)]
      shown == left \cup (IF left \cap {"coins", "brew", "relic", "cards"} = {} THEN {"go"} ELSE {"skip"})
  IN  [Show(w, "loot_rewards", [i \in shown |-> rows[i]],
            CHOOSE i \in shown : i # "skip" \/ shown = {"skip"}) EXCEPT !.sold = left]
Offers(w) == Show(w, "loot_cards",
  [bash |-> Option("card", 0, "bash", None, <<0, 0>>),
   clash |-> Option("card", 0, "clash", None, <<0, 1>>),
   skip |-> Option("skip", 0, "skip", None, <<1, 0>>)], "bash")
Hand(w) == Show(w, "combat_selection",
  [x |-> Option("card", 0, "x", None, None)], "x")

\* The world a run begins in.
Opening(hp) == NeowTalk(
  [fam |-> None, screen |-> "event", phase |-> "choose", options |-> <<>>, focus |-> None,
   selected |-> None, pending |-> None, confirm |-> None, learned |-> <<>>,
   ctx |-> [floor |-> 0, combat |-> FALSE],
   res |-> [gold |-> 1, hp |-> hp, deck |-> 2],
   inv |-> [card |-> {"strike", "armaments"}, relic |-> {}, potion |-> {}],
   facts |-> [node_type |-> "event", node |-> "neow", floor |-> 0,
              stage |-> "opening_dialogue", upgraded |-> None, source |-> None, capacity |-> 1],
   view |-> "here", sold |-> {}, shop |-> "plain"])

-----------------------------------------------------------------------------

Gain(w, kind, item) ==
  [w EXCEPT !.inv[kind] = @ \cup {item}, !.res.deck = IF kind = "card" THEN @ + 1 ELSE @]

\* The room behind node n.
Room(w, n) ==
  LET in == [w EXCEPT !.ctx.floor = 1, !.ctx.combat = (n = "fight"),
               !.facts.floor = 1, !.facts.node = n, !.facts.node_type = Kind[n][2],
               !.facts.stage = None]
  IN  CASE n = "shop" -> Counter(in)
        [] n = "camp" -> Campfire(in)
        [] n = "fight" -> Result(in, "combat")
        [] n = "mark" -> Chest(in)

\* What taking option i of the menu comes to; a blessing of coins is a gamble.
Take(g, i) ==
  CASE i = "talk" -> {Blessings([g EXCEPT !.facts.stage = "reward_options"])}
    [] g.fam = "event_options" ->
         {Leave([g EXCEPT !.facts.stage = "reward_resolved", !.res.gold = @ + n]) :
            n \in IF i = "coins" THEN {1, 2} ELSE {0}}
    [] g.fam = "event_leave" -> {MapRow([g EXCEPT !.facts.stage = None])}
    [] g.fam = "map_nodes" -> {Room(g, i)}
    [] i = "open" -> {Stock([g EXCEPT !.shop = s], {}) : s \in DOMAIN Shops}
    [] g.fam = "shop_stock" /\ i \in {"strike2", "brew"} ->
         {Stock(Gain([g EXCEPT !.res.gold = @ - 1], g.options[i].role, i), g.sold \cup {i})}
    [] i = "service" -> {Purge(g)}
    [] g.fam = "shop_remove" ->
         {Stock([g EXCEPT !.res.gold = @ - 1, !.res.deck = @ - 1, !.inv.card = @ \ {i}],
                g.sold \cup {"service"})}
    [] g.fam = "shop_stock" /\ i = "leave" -> {ShopDoor(g)}
    [] i = "rest" -> {FireOut([g EXCEPT !.res.hp = IF @ < MaxHp THEN @ + 1 ELSE @])}
    [] i = "smith" -> {Upgrades(g)}
    [] g.fam = "card_upgrade" ->
         {FireOut([g EXCEPT !.inv.card = (@ \ {i}) \cup {i \o "+"}, !.facts.upgraded = i])}
    [] i = "chest" -> {Spoils([g EXCEPT !.facts.source = "treasure"], {"relic"})}
    [] g.fam = "loot_rewards" /\ i = "coins" -> {Spoils([g EXCEPT !.res.gold = @ + 1], g.sold \ {i})}
    [] g.fam = "loot_rewards" /\ i \in {"brew", "relic"} -> {Spoils(Gain(g, g.options[i].role, i), g.sold \ {i})}
    [] i = "cards" -> {Offers(g)}
    [] g.fam = "loot_cards" ->
         {IF i = "skip" THEN Spoils(g, g.sold) ELSE Spoils(Gain(g, "card", i), g.sold \ {"cards"})}
    [] g.fam = "combat_selection" -> {Result(g, "combat")}
    [] OTHER -> {Result(g, "map")}

\* The game asks first, with the button Cross.
Asks(g, i) ==
  \/ g.fam = "shop_stock" /\ i \in {"strike2", "brew"}
  \/ g.fam = "shop_remove"
  \/ g.fam = "loot_cards" /\ i # "skip"
  \/ g.fam = "loot_rewards" /\ i = "relic"
  \/ g.fam = "card_upgrade"

\* The preview of an upgrade shows the one card.
Ask(g, i) ==
  [g EXCEPT !.phase = "confirm", !.selected = i, !.pending = i, !.focus = i, !.confirm = "cross",
            !.options = IF g.fam = "card_upgrade" THEN [j \in {i} |-> @[j]] ELSE @]

\* A potion cannot be taken onto a full belt.
Possible(g, i) ==
  g.options[i].on /\ (g.options[i].role = "potion" => Cardinality(g.inv.potion) < g.facts.capacity)

\* Where a direction moves the focus.
Moves(g, b) ==
  CASE g.fam = "shop_stock" /\ g.focus \in {"strike2", "brew", "service"} ->
         IF Shops[g.shop][g.focus, b] \in Ids(g) THEN Shops[g.shop][g.focus, b] ELSE g.focus
    [] g.fam # "shop_stock" /\ \E e \in Navigation(g) : e[1] = g.focus /\ e[2] = b ->
         (CHOOSE e \in Navigation(g) : e[1] = g.focus /\ e[2] = b)[3]
    [] OTHER -> g.focus

\* Every <<world, option>> a button may lead to; the option is None when the
\* button only moved the focus or the view, or did nothing.
React(g, b) ==
  LET printed == {i \in Ids(g) : g.options[i].role \in Boundary \cup {"skip_chest"} /\ g.options[i].hint = b}
      taken(i) == IF Asks(g, i) THEN {<<Ask(g, i), i>>} ELSE {<<h, i>> : h \in Take(g, i)}
  IN  CASE g.phase = "confirm" ->
             IF b = g.confirm THEN {<<h, g.selected>> : h \in Take(g, g.selected)} ELSE {<<g, None>>}
        [] g.phase = "choose" /\ b \in Directions ->
             {<<IF g.fam = "map_nodes" /\ b = "up" THEN [g EXCEPT !.view = "above"]
                ELSE [g EXCEPT !.focus = Moves(g, b)], None>>}
        [] g.phase = "choose" /\ printed # {} -> UNION {taken(i) : i \in printed}
        [] g.phase = "choose" /\ b = "cross" /\ printed = {} ->
             IF Possible(g, g.focus) THEN taken(g.focus) ELSE {<<g, None>>}
        [] OTHER -> {<<g, None>>}

\* A fight goes on without menus; a card may ask for a choice, and it is won.
FightStep(g) ==
  IF g.screen = "combat" /\ g.fam = None
  THEN {Hand(g), Spoils([g EXCEPT !.ctx.combat = FALSE, !.facts.source = "combat"], {"coins", "brew", "cards"})}
  ELSE {}

=============================================================================
