---------------------------- MODULE MenuControls ----------------------------
(* The menus of the game the player knows by name, and the controls it may    *)
(* assume on each of them (menu_controls.py, shop_controls.py,                *)
(* campfire_controls.py, neow_start.py).  An observation o of a menu is       *)
(*   fam, screen, phase      which menu it is and whether it asks to confirm  *)
(*   options, focus          what can be chosen, by id, and what is focused   *)
(*   selected, pending, confirm   the option taken up, and the button that    *)
(*                           confirms it, when the menu asks for that         *)
(*   learned                 the focus moves of this shop seen so far         *)
(*   ctx, res, inv, facts    floor and combat, gold/hp/deck size, belongings  *)
(* An option is [role, on, cost, name, hint, pos]: hint is the button printed *)
(* beside it, pos its cell or its place on the screen.  Every menu takes one  *)
(* option at a time.  Text, hashes and reviewers' names are left out.         *)
EXTENDS PlayPolicy, Integers, Sequences, FiniteSets, FiniteSetsExt

Directions == {"up", "down", "left", "right"}

\* <<row, column>> steps of the four directions; y grows downwards.
Delta == [up |-> <<-1, 0>>, down |-> <<1, 0>>, left |-> <<0, -1>>, right |-> <<0, 1>>]

ShopMenus == {"shop_entry", "shop_stock", "shop_exit", "shop_remove"}
LootMenus == {"loot_rewards", "loot_cards"}
CampMenus == {"campfire_options", "campfire_exit"}
Items == {"card", "relic", "potion"}
Boundary == {"open", "skip", "leave", "proceed"}

\* The screen a menu is shown on, and the screens a kind of node may open.
ScreenOf(fam) ==
  CASE fam \in CampMenus -> "rest"
    [] fam \in {"card_upgrade", "combat_selection", "shop_remove"} -> "selection"
    [] fam \in ShopMenus \ {"shop_remove"} -> "shop"
    [] fam \in {"map_nodes", "map_inspect"} -> "map"
    [] fam = "loot_rewards" -> "reward"
    [] fam = "loot_cards" -> "card_reward"
    [] fam = "treasure_options" -> "treasure"
    [] OTHER -> "event"

RoomScreens(kind) ==
  CASE kind \in {"enemy", "elite", "boss"} -> {"combat"}
    [] kind = "rest" -> {"rest"}
    [] kind = "merchant" -> {"shop"}
    [] kind = "treasure" -> {"treasure", "reward"}
    [] kind = "event" -> {"event", "combat", "shop", "treasure", "reward"}
    [] OTHER -> {}

Ids(o) == DOMAIN o.options

Toggles(o) == o.fam = "card_upgrade"

-----------------------------------------------------------------------------
(* Buttons. *)

\* A button printed beside a boundary option acts wherever the focus is.
Shortcut(o, i) ==
  IF /\ o.fam \in {"shop_entry", "shop_stock", "shop_exit", "loot_rewards"}
     /\ o.options[i].role \in Boundary
  THEN o.options[i].hint ELSE None

\* The button that takes the focused option: the printed one, or Cross where
\* a rule of the default controls says so.
Activate(o, i) ==
  LET opt == o.options[i]
      rule == \/ o.fam \in {"neow_talk", "event_leave", "map_nodes"}
              \/ o.fam \in {"event_options", "card_upgrade", "combat_selection"} \cup LootMenus
                 /\ opt.on /\ o.phase = "choose"
              \/ o.fam = "treasure_options" /\ opt.role = "open_chest"
              \/ o.fam = "campfire_options" /\ opt.on /\ opt.role \in {"rest", "smith"}
              \/ o.fam \in ShopMenus /\ opt.on /\ opt.role \notin Boundary
  IN  CASE o.fam = "map_inspect" -> opt.name
        [] o.fam # "map_inspect" /\ opt.hint # None /\ Shortcut(o, i) = None -> opt.hint
        [] o.fam # "map_inspect" /\ opt.hint = None /\ rule -> "cross"
        [] OTHER -> None

-----------------------------------------------------------------------------
(* Focus moves. *)

\* Neighbouring enabled cells of a grid; no wrap, no skip.
Adjacent(o) ==
  {<<s, b, t>> \in Ids(o) \X Directions \X Ids(o) :
     /\ o.options[s].on /\ o.options[t].on
     /\ o.options[s].pos # None /\ o.options[t].pos # None
     /\ o.options[t].pos = <<o.options[s].pos[1] + Delta[b][1], o.options[s].pos[2] + Delta[b][2]>>}

\* The next node to the left or right of a complete row of siblings.
Siblings(o) ==
  LET x(i) == o.options[i].pos[2]
      between(s, t) == {u \in Ids(o) : x(s) < x(u) /\ x(u) < x(t)}
  IN  {<<s, b, t>> \in Ids(o) \X {"left", "right"} \X Ids(o) :
         \/ b = "right" /\ x(s) < x(t) /\ between(s, t) = {}
         \/ b = "left" /\ x(t) < x(s) /\ between(t, s) = {}}

\* Shop slots have positions; the global Leave has none.
Slots(o) == {i \in Ids(o) : o.options[i].pos # None}

\* How far t lies ahead of s in direction b, and how far aside.
Ahead(o, s, b, t) ==
  LET p == o.options[s].pos q == o.options[t].pos d == Delta[b]
  IN  (q[1] - p[1]) * d[1] + (q[2] - p[2]) * d[2]
Aside(o, s, b, t) ==
  LET p == o.options[s].pos q == o.options[t].pos d == Delta[b]
      side == (q[1] - p[1]) * d[2] - (q[2] - p[2]) * d[1]
  IN  IF side < 0 THEN -side ELSE side

\* The slot a tap is predicted to reach: the best aligned ahead, then the nearest.
Predicted(o, s, b) ==
  LET ahead == {t \in Slots(o) : Ahead(o, s, b, t) > 0}
      f(t) == Ahead(o, s, b, t)
      g(t) == Aside(o, s, b, t)
      better(t, u) == \/ g(t) * f(u) < g(u) * f(t)
                      \/ /\ g(t) * f(u) = g(u) * f(t)
                         /\ f(t) * f(t) + g(t) * g(t) <= f(u) * f(u) + g(u) * g(u)
  IN  IF ahead = {} THEN None
      ELSE CHOOSE t \in ahead : \A u \in ahead : better(t, u)

\* Predictions, corrected by the moves seen: a tap seen to do nothing is no edge.
ShopEdges(o) ==
  {<<s, b, t>> \in Slots(o) \X Directions \X Slots(o) :
     IF <<s, b>> \in DOMAIN o.learned THEN t = o.learned[<<s, b>>] /\ t # s
     ELSE t = Predicted(o, s, b)}

\* Faulty variant: the move is noted for the slot it reached.
RecordFocusAtTarget(learned, s, b, t) ==
  [k \in DOMAIN learned \cup {<<t, b>>} |-> IF k = <<t, b>> THEN s ELSE learned[k]]

\* What a focus tap is seen to do replaces what was known of it.
RecordFocus(learned, s, b, t) ==
  [k \in DOMAIN learned \cup {<<s, b>>} |-> IF k = <<s, b>> THEN t ELSE learned[k]]

\* All focus moves a plan may use on this menu.
Navigation(o) ==
  CASE o.fam \in {"shop_stock", "shop_remove"} -> ShopEdges(o)
    [] o.fam = "map_nodes" -> Siblings(o)
    [] o.fam \in LootMenus \cup {"event_options", "campfire_options"} -> Adjacent(o)
    [] o.fam = "card_upgrade" /\ o.phase = "choose" -> Adjacent(o)
    [] OTHER -> {}

=============================================================================
