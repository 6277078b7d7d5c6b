----------------------------- MODULE MapTravel -------------------------------
(***************************************************************************)
(* map_travel: a route chosen once is followed from room to room, until    *)
(* something it rested on has changed.  The cache (the views, the route    *)
(* and the position in it) outlives the process; every plan replaces it    *)
(* atomically, and a plan that fails leaves it as it was.                  *)
(*                                                                         *)
(* The world is external: rooms are entered, resources and belongings      *)
(* change, the map screen is opened again in another context.              *)
(***************************************************************************)
EXTENDS MapSurvey

CONSTANTS
  Purses,   \* what the player may have: [hp, maxHp, gold]
  Belongings,  \* deck, relics and potions
  Policies,    \* when to reconsider: [hp, gold, hpMarks, goldMarks]
  Offered(_),  \* the views of a map a plan may come with; Unseen for none
  MaxMoment    \* bound: contexts of the map screen in one room

ASSUME TravelAssumption ==
  /\ Purses \subseteq [hp : Nat, maxHp : Nat \ {0}, gold : Nat]
  /\ \A p \in Policies : p.hp \in Nat \ {0} /\ p.gold \in Nat \ {0}
  /\ \A m \in Maps : \A v \in Offered(m) \ {Unseen} : SureEdges(v) \subseteq m.edges
  /\ MaxMoment \in Nat

VARIABLES
  snap,    \* the reviewed map screen: [at, options, res, items, moment]
  cache,   \* cache-act-N.json: [views, route]
  advice,    \* what plan_map said of this screen, if it was asked
  chosen   \* history: the screen and the map knowledge of the last choice

travelVars == <<snap, cache, advice, chosen>>

-------------------------------------------------------------------------------

\* The icons of all rooms that can be entered; one of them may be unreadable.
Readings(at) ==
  LET clear == [o \in ExitsOf(act.edges, at) |-> act.kind[o]]
  IN {clear} \cup {[clear EXCEPT ![o] = "unknown"] : o \in DOMAIN clear}

\* _snapshot: some icon must be readable.
ReviewedScreen(s) == \E o \in DOMAIN s.options : s.options[o] # "unknown"

Screens(at, moment) ==
  {s \in [at : {at}, options : Readings(at), res : Purses, items : Belongings,
          moment : {moment}] : ReviewedScreen(s)}

Topology(vs) ==
  IF vs = <<>> THEN Unseen
  ELSE LET s == Survey(vs)
       IN [nodes |-> [n \in DOMAIN s.nodes |-> <<s.nodes[n].kind, s.nodes[n].all>>],
           edges |-> DOMAIN s.edges,
           boss |-> IF s.boss = Unseen THEN Unseen ELSE s.boss.name]

\* _merge_views: a view known already is not taken twice.
MergedViews(vs, v) == IF v = Unseen \/ v \in ToSet(vs) THEN vs ELSE Append(vs, v)

\* _decision: a list of different rooms, from here to a room on the screen and on
\* along edges of the survey.
RouteOk(path, s, vs) ==
  /\ path \in Seq(MapRooms(act)) /\ Len(path) >= 2 /\ IsInjective(path)
  /\ path[1] = s.at /\ path[2] \in DOMAIN s.options
  /\ \A i \in 2..(Len(path) - 1) : vs # <<>> /\ <<path[i], path[i + 1]>> \in DOMAIN Survey(vs).edges

Drifted(before, after, step, marks) ==
  \/ (IF before > after THEN before - after ELSE after - before) >= step
  \/ \E m \in marks : (before < m) # (after < m)

\* What the choice rested on and is no more: _reasons.
Overtaken(base, policy, s, topology) ==
  \/ s.items # base.items \/ s.res.maxHp # base.res.maxHp
  \/ Drifted(base.res.hp, s.res.hp, policy.hp, policy.hpMarks)
  \/ Drifted(base.res.gold, s.res.gold, policy.gold, policy.goldMarks)
  \/ base.topology # topology

\* The screen of the same room is not the one of the last plan.
Reopened(route, s) ==
  route.lastNode = s.at /\ (route.options # s.options \/ route.moment # s.moment)

IndexOf(path, n) == CHOOSE i \in DOMAIN path : path[i] = n
OnRoute(route, n) == \E i \in route.cursor..Len(route.path) : route.path[i] = n
StepFrom(route, n) == route.path[IndexOf(route.path, n) + 1]

Reasons(route, s, topology) ==
  {r \in {"overtaken", "reopened"} :
      \/ r = "overtaken" /\ Overtaken(route.base, route.policy, s, topology)
      \/ r = "reopened" /\ Reopened(route, s)}

Obstacles(route, s) ==
  IF ~OnRoute(route, s.at) THEN {"off_saved_route"}
  ELSE IF s.at = Last(route.path) THEN {"saved_route_complete"}
  ELSE IF StepFrom(route, s.at) \notin DOMAIN s.options THEN {"saved_destination_unavailable"}
  ELSE {}

At(route, s) ==
  [route EXCEPT !.cursor = IndexOf(route.path, s.at), !.lastNode = s.at,
                !.options = s.options, !.moment = s.moment]

Chosen(path, policy, s, vs) ==
  [path |-> path, policy |-> policy, cursor |-> 1, lastNode |-> s.at, moment |-> s.moment,
   options |-> s.options,
   base |-> [items |-> s.items, res |-> s.res, topology |-> Topology(vs)]]

\* The views that may be known, and the routes that may be chosen on them.
Gathered(m) == UNION {[1..n -> Offered(m) \ {Unseen}] : n \in 0..(MaxViews + 1)}
Routes(m) ==
  [path : Seq(MapRooms(m)), policy : Policies, cursor : Nat \ {0}, lastNode : MapRooms(m), moment : Nat,
   options : UNION {[D -> Range(m.kind) \cup {"unknown"}] : D \in SUBSET MapRooms(m)},
   base : [items : Belongings, res : Purses, topology : {Topology(vs) : vs \in Gathered(m)}]]

ASSUME RouteAssumption == \A m \in Maps : Unseen \notin Routes(m)

Planned(dest, how, c) == [status |-> "planned", dest |-> dest, how |-> how, reasons |-> {}, cache |-> c]

\* Faulty variant: a forced move along the route takes today's resources for its
\* baseline.
ForcedMoveRefreshed(s, c) ==
  LET wanted == CHOOSE o \in DOMAIN s.options : TRUE
      follows == /\ c.route # Unseen /\ OnRoute(c.route, s.at) /\ s.at # Last(c.route.path)
                 /\ StepFrom(c.route, s.at) = wanted
  IN Planned(wanted, "forced",
             IF follows THEN [c EXCEPT !.route = [At(c.route, s) EXCEPT !.base.res = s.res]] ELSE c)

\* The only exit: no strategy, and the baseline of the route stays what it was.
ForcedMove(s, c) ==
  LET wanted == CHOOSE o \in DOMAIN s.options : TRUE
      follows == /\ c.route # Unseen /\ OnRoute(c.route, s.at) /\ s.at # Last(c.route.path)
                 /\ StepFrom(c.route, s.at) = wanted
  IN Planned(wanted, "forced", IF follows THEN [c EXCEPT !.route = At(c.route, s)] ELSE c)

\* At a fork; a decision of the advisor is a route or nothing.
ForkMove(s, c, route, v) ==
  LET vs == MergedViews(c.views, v)
      kept == [c EXCEPT !.views = vs]
      current == IF route = Unseen THEN c.route ELSE route
      reasons == IF current = Unseen THEN {"no_saved_route"}
                 ELSE (IF route # Unseen THEN {} ELSE Reasons(current, s, Topology(vs)))
                        \cup Obstacles(current, s)
  IN IF reasons # {}
     THEN [status |-> "strategy_required", dest |-> Unseen, how |-> "none",
           reasons |-> reasons, cache |-> kept]
     ELSE Planned(StepFrom(current, s.at), IF route = Unseen THEN "saved" ELSE "chosen",
                  [kept EXCEPT !.route = At(current, s)])

PlanMap(s, c, route, v) ==
  IF Cardinality(DOMAIN s.options) = 1 /\ route = Unseen THEN ForcedMove(s, c)
  ELSE ForkMove(s, c, route, v)

\* _draft: the icon of the room to enter must be readable, or planning fails.
Packageable(s, p) == p.status = "planned" => s.options[p.dest] # "unknown"

-------------------------------------------------------------------------------

InitTravel ==
  /\ snap \in UNION {Screens(n, 0) : n \in {n \in MapRooms(act) : RowOf(n) = 0}}
  /\ cache = [views |-> <<>>, route |-> Unseen]
  /\ advice = Unseen /\ chosen = Unseen

PlanWith(route, v) ==
  \E p \in {PlanMap(snap, cache, route, v)} :
    /\ p.cache.views = <<>> \/ Survey(p.cache.views).ok
    /\ Len(p.cache.views) <= MaxViews
    /\ Packageable(snap, p)
    /\ advice' = [status |-> p.status, dest |-> p.dest, how |-> p.how, reasons |-> p.reasons]
    /\ cache' = p.cache

\* veda_map_step without a decision: the saved route, or a request for strategy.
PlanAgain(v) ==
  /\ advice = Unseen \/ v # Unseen
  /\ PlanWith(Unseen, v)
  /\ UNCHANGED <<snap, chosen>>

\* The advisor's choice of a route, made once.
DecideRoute(path, policy, v) ==
  /\ advice # Unseen /\ advice.status = "strategy_required"
  /\ \E vs \in {MergedViews(cache.views, v)} :
       /\ RouteOk(path, snap, vs)
       /\ \E route \in {Chosen(path, policy, snap, vs)} :
            /\ PlanWith(route, v)
            /\ chosen' = [path |-> path, policy |-> policy, vs |-> vs, base |-> route.base]
  /\ UNCHANGED snap

\* --fresh-cache.
FreshCache ==
  /\ cache.route # Unseen
  /\ cache' = [views |-> <<>>, route |-> Unseen] /\ advice' = Unseen /\ chosen' = Unseen
  /\ UNCHANGED snap

\* The room planned, or another one, is entered and left; the map opens again.
Travel(to) ==
  /\ advice # Unseen /\ to \in DOMAIN snap.options
  /\ ExitsOf(act.edges, to) # {}
  /\ snap' \in Screens(to, 0)
  /\ advice' = Unseen
  /\ UNCHANGED <<cache, chosen>>

\* The same room, looked at again after something else.
Reopen ==
  /\ advice # Unseen /\ snap.moment < MaxMoment
  /\ snap' \in Screens(snap.at, snap.moment + 1)
  /\ advice' = Unseen
  /\ UNCHANGED <<cache, chosen>>

Paths ==
  LET from[n \in MapRooms(act)] ==
        {<<n>>} \cup {<<n>> \o p : p \in UNION {from[o] : o \in {o \in MapRooms(act) : RowOf(o) = RowOf(n) + 1}}}
  IN from[snap.at]

NextTravel ==
  \/ \E v \in Offered(act) : PlanAgain(v)
  \/ \E path \in Paths, policy \in Policies, v \in Offered(act) : DecideRoute(path, policy, v)
  \/ FreshCache
  \/ \E to \in MapRooms(act) : Travel(to)
  \/ Reopen

\* The travel by itself, in one act.
SpecTravel ==
  act \in Maps /\ InitTravel /\ [][NextTravel /\ UNCHANGED act]_<<act, travelVars>>

-------------------------------------------------------------------------------

\* A saved route is only followed through a fork while nothing it was chosen for
\* has changed since that choice, however many forced moves and smaller changes
\* lie between (plan_map keeps the baseline on forced moves).  It never leads to a
\* door that is not there, unless an edge of it was badly seen when it was chosen
\* (_decision asks for inspected edges).  And asked again of the same screen, as
\* after every focus tap, plan_map plans the same destination without asking for
\* the choice a second time.
RouteStillJustified ==
  advice # Unseen =>
    /\ advice.how = "saved" =>
         /\ ~Overtaken(chosen.base, chosen.policy, snap, Topology(cache.views))
         /\ advice.dest \in ToSet(chosen.path)
    /\ "saved_destination_unavailable" \in advice.reasons =>
         \E i \in 2..(Len(chosen.path) - 1) :
           <<chosen.path[i], chosen.path[i + 1]>> \in
             DOMAIN Survey(chosen.vs).edges \ SureEdges(Survey(chosen.vs))
    /\ advice.status = "planned" =>
         LET again == PlanMap(snap, cache, Unseen, Unseen)
         IN again.status = "planned" /\ again.dest = advice.dest

===============================================================================
