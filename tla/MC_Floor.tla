------------------------------ MODULE MC_Floor -------------------------------
(* Small instances of what a floor is made of: the survey of the act's map    *)
(* (MapSurvey), the way through it (MapTravel), the menus of a room           *)
(* (ScreenPlay) and a fight (CombatPlay).  A behaviour is about one of them.  *)
EXTENDS ScreenPlay, CombatPlay, MapTravel

CONSTANT Topics       \* which of "survey", "travel", "menus" and "fight"

VARIABLE topic

floorVars == <<topic, surveyVars, travelVars, playVars, fightVars>>

MCDeals == {<<"strike", "armaments", "defend">>, <<"headbutt">>}

\* A fork of two rooms, each with a way to a third; what is behind the second
\* fork is an elite and a rest, or a rest and a merchant.
Fork(kinds) ==
  [kind |-> (<<0, 0>> :> "enemy") @@ (<<1, 0>> :> "enemy") @@ (<<1, 1>> :> "enemy")
              @@ (<<2, 0>> :> kinds[1]) @@ (<<2, 1>> :> kinds[2]) @@ (<<3, 0>> :> "boss"),
   edges |-> {<< <<0, 0>>, <<1, 0>> >>, << <<0, 0>>, <<1, 1>> >>, << <<1, 0>>, <<2, 0>> >>,
              << <<1, 1>>, <<2, 0>> >>, << <<1, 1>>, <<2, 1>> >>,
              << <<2, 0>>, <<3, 0>> >>, << <<2, 1>>, <<3, 0>> >>},
   boss |-> "hexaghost"]
ForkMaps == {Fork(<<"elite", "rest">>), Fork(<<"rest", "merchant">>)}

\* A fork, a forced move and another fork, to be travelled.
LongMap ==
  [kind |-> (<<0, 0>> :> "enemy") @@ (<<1, 0>> :> "enemy") @@ (<<1, 1>> :> "event") @@ (<<2, 0>> :> "rest")
              @@ (<<3, 0>> :> "elite") @@ (<<3, 1>> :> "merchant") @@ (<<3, 2>> :> "rest"),
   edges |-> {<< <<0, 0>>, <<1, 0>> >>, << <<0, 0>>, <<1, 1>> >>, << <<1, 0>>, <<2, 0>> >>,
              << <<2, 0>>, <<3, 0>> >>, << <<2, 0>>, <<3, 1>> >>, << <<1, 1>>, <<3, 2>> >>},
   boss |-> "hexaghost"]

AllMaps == ForkMaps \cup {LongMap}
MCViewports == {<<0, 1>>, <<1, 3>>, <<2, 3>>}
MCPurses == {[hp |-> h, maxHp |-> 4, gold |-> 1] : h \in 1..3}
MCPolicies == {[hp |-> 2, gold |-> 2, hpMarks |-> {}, goldMarks |-> {}]}

\* No view, the lower part, the upper part, and that with an edge seen badly.
MCOffered(m) ==
  LET low == ClearView(m, 0, 2)
      high == ClearView(m, 1, 3)
      wrong == << <<2, 0>>, <<3, 2>> >>
  IN {Unseen, low, high, [high EXCEPT !.edges = @ @@ (wrong :> FALSE), !.nodes[<<2, 0>>].all = FALSE]}

\* Bound: hit points are lost, not gained, on the way.
Waning == snap'.res.hp <= snap.res.hp

FloorInit ==
  /\ topic \in Topics
  /\ InitSurvey /\ InitTravel
  /\ IF topic = "travel" THEN act = LongMap /\ snap.res.hp = 3
     ELSE snap = CHOOSE s \in UNION {Screens(n, 0) : n \in {n \in MapRooms(act) : RowOf(n) = 0}} : TRUE
  /\ IF topic = "survey" THEN act \in ForkMaps ELSE act = LongMap
  /\ IF topic = "menus" THEN InitPlay ELSE OpenPlay(CHOOSE hp \in Hps : TRUE)
  /\ IF topic = "fight" THEN InitFight ELSE OpenFight(CHOOSE p \in Openings : TRUE)

FloorNext ==
  \/ topic = "survey" /\ NextSurvey /\ UNCHANGED <<topic, travelVars, playVars, fightVars>>
  \/ topic = "travel" /\ NextTravel /\ Waning /\ UNCHANGED <<topic, surveyVars, playVars, fightVars>>
  \/ topic = "menus" /\ NextPlay /\ UNCHANGED <<topic, surveyVars, travelVars, fightVars>>
  \/ topic = "fight" /\ NextFight /\ UNCHANGED <<topic, surveyVars, travelVars, playVars>>

FloorSpec == FloorInit /\ [][FloorNext]_floorVars

=============================================================================
