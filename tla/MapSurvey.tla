----------------------------- MODULE MapSurvey -------------------------------
(***************************************************************************)
(* The map of an act, seen in cropped screens and pieced together          *)
(* (map_survey), the facts about routes read off what is known             *)
(* (map_brief), and the ranking of the next rooms by the reviewer's        *)
(* priorities (plan_routes).                                               *)
(*                                                                         *)
(* The reviewer is honest and sees badly: what a view shows surely is so;  *)
(* what it shows with a confidence below MAP_CHOICE_CONFIDENCE may not be. *)
(* Evidence notes, images and their digests are left out.                  *)
(***************************************************************************)
EXTENDS Naturals, Sequences, FiniteSets, SequencesExt, FiniteSetsExt, TLC

CONSTANTS
  Maps,               \* maps an act may have: [kind, edges, boss]; a room is <<row, lane>>
  Bosses,             \* BOSSES_BY_ACT of the act
  Viewports,          \* the rows <<lowest, highest>> a screen of the map may show
  MaxViews,           \* MAX_VIEWS
  MAX_CONTINUATIONS,  \* continuations looked at for one option
  Unseen              \* no portrait of the boss; no view, no route

ASSUME SurveyAssumption ==
  /\ Unseen \notin Bosses
  /\ MaxViews \in Nat /\ MAX_CONTINUATIONS \in Nat \ {0}
  /\ \A m \in Maps : /\ m.boss \in Bosses /\ IsFiniteSet(DOMAIN m.kind)
                     /\ m.edges \subseteq (DOMAIN m.kind) \X (DOMAIN m.kind)
                     /\ \A e \in m.edges : e[1][1] < e[2][1]

VARIABLES
  act,     \* the map there is
  views,   \* the inspected views, in the order they were taken
  ranks    \* the last plan_routes: the rank of each option

surveyVars == <<act, views, ranks>>

RoomKinds == {"enemy", "elite", "event", "merchant", "treasure", "rest", "boss"}
RowOf(n) == n[1]
MapRooms(m) == DOMAIN m.kind
ExitsOf(edges, n) == {e[2] : e \in {e \in edges : e[1] = n}}

-------------------------------------------------------------------------------
\* Views.  Nodes: [kind, sure, all]; "all" says that every exit is in the view.

\* A view of the rows lo..hi in which nothing is hidden, badly seen or left open.
ClearView(m, lo, hi) ==
  LET seen == {n \in MapRooms(m) : RowOf(n) \in lo..hi}
      edges == {e \in m.edges : e[1] \in seen /\ e[2] \in seen}
      top == \A n \in MapRooms(m) : RowOf(n) <= hi
  IN [nodes |-> [n \in seen |-> [kind |-> m.kind[n], sure |-> TRUE,
                                 all |-> ExitsOf(m.edges, n) \subseteq seen]],
      edges |-> [e \in edges |-> TRUE],
      rows |-> lo..hi,
      top |-> top, bottom |-> lo = 0,
      boss |-> IF top THEN [name |-> m.boss, sure |-> TRUE] ELSE Unseen]

\* A room whose icon is unreadable or misread, an exit badly seen or hidden, an
\* exit that is not there, exits and rows nobody vouches for, a portrait misread.
Blurred(m, v) ==
  {[v EXCEPT !.nodes[n].kind = k, !.nodes[n].sure = FALSE] :
      n \in DOMAIN v.nodes, k \in {"unknown", "rest"}}
    \cup {[v EXCEPT !.edges[e] = FALSE] : e \in DOMAIN v.edges}
    \cup {[v EXCEPT !.edges = [d \in DOMAIN @ \ {e} |-> @[d]], !.nodes[e[1]].all = FALSE] :
            e \in DOMAIN v.edges}
    \cup {[v EXCEPT !.edges = @ @@ (e :> FALSE), !.nodes[e[1]].all = @ /\ vouched] :
            e \in {e \in (DOMAIN v.nodes) \X (DOMAIN v.nodes) :
                    RowOf(e[2]) = RowOf(e[1]) + 1 /\ e \notin m.edges}, vouched \in BOOLEAN}
    \cup {[v EXCEPT !.nodes = [n \in DOMAIN @ |-> [@[n] EXCEPT !.all = FALSE]], !.rows = {}]}
    \cup (IF v.boss = Unseen THEN {}
          ELSE {[v EXCEPT !.boss = [name |-> b, sure |-> FALSE]] : b \in Bosses})

ViewWellFormed(v) ==
  /\ DOMAIN v.nodes # {}
  /\ \A e \in DOMAIN v.edges : /\ e[1] \in DOMAIN v.nodes /\ e[2] \in DOMAIN v.nodes
                               /\ RowOf(e[1]) < RowOf(e[2])
  /\ \A r \in v.rows : \E n \in DOMAIN v.nodes : RowOf(n) = r
  /\ v.top => v.boss # Unseen \/ \E n \in DOMAIN v.nodes : v.nodes[n].kind = "boss"
  /\ v.boss # Unseen => v.top /\ v.boss.name \in Bosses

Inspectable(m) ==
  LET clear == {ClearView(m, w[1], w[2]) : w \in Viewports}
  IN {v \in clear \cup UNION {Blurred(m, w) : w \in clear} : ViewWellFormed(v)}

-------------------------------------------------------------------------------
\* _merge_survey.

NothingSeen == [ok |-> TRUE, nodes |-> <<>>, edges |-> <<>>, exits |-> <<>>, rows |-> <<>>,
                top |-> FALSE, bottom |-> FALSE, boss |-> Unseen]

SureEdges(s) == {e \in DOMAIN s.edges : s.edges[e]}

Agree(f, g) == \A k \in DOMAIN f \cap DOMAIN g : f[k] = g[k]

SameRoom(old, new) == old.kind = new.kind \/ "unknown" \in {old.kind, new.kind}
Clearer(old, new) == new.kind # "unknown" /\ (old.kind = "unknown" \/ (new.sure /\ ~old.sure))
JoinRoom(old, new) ==
  LET best == IF Clearer(old, new) THEN new ELSE old
  IN [best EXCEPT !.all = old.all \/ new.all]
JoinBoss(old, new) ==
  IF old = Unseen \/ (new # Unseen /\ new.sure /\ ~old.sure) THEN new ELSE old

\* The exits of rooms, and the rooms of rows, that the view vouches for.
ExitsShown(v) == [n \in {n \in DOMAIN v.nodes : v.nodes[n].all} |-> ExitsOf(DOMAIN v.edges, n)]
RowsShown(v) == [r \in v.rows |-> {n \in DOMAIN v.nodes : RowOf(n) = r}]

Fits(s, v) ==
  /\ s.ok /\ ViewWellFormed(v)
  /\ \A n \in DOMAIN s.nodes \cap DOMAIN v.nodes : SameRoom(s.nodes[n], v.nodes[n])
  /\ Agree(s.exits, ExitsShown(v)) /\ Agree(s.rows, RowsShown(v))
  /\ Unseen \in {s.boss, v.boss} \/ s.boss.name = v.boss.name

JoinRooms(s, v) ==
  [n \in DOMAIN s.nodes \cap DOMAIN v.nodes |-> JoinRoom(s.nodes[n], v.nodes[n])]
    @@ s.nodes @@ v.nodes

JoinEdges(s, v) ==
  [e \in DOMAIN s.edges \cup DOMAIN v.edges |-> e \in SureEdges(s) \cup SureEdges(v)]

JoinExits(s, v) == ExitsShown(v) @@ s.exits
JoinRows(s, v) == RowsShown(v) @@ s.rows

MergeView(s, v) ==
  [ok |-> Fits(s, v), nodes |-> JoinRooms(s, v), edges |-> JoinEdges(s, v),
   exits |-> JoinExits(s, v), rows |-> JoinRows(s, v),
   top |-> s.top \/ v.top, bottom |-> s.bottom \/ v.bottom,
   boss |-> JoinBoss(s.boss, v.boss)]

\* No part of the views shares no room with the rest.
Overlapping(vs) ==
  \A S \in SUBSET DOMAIN vs : S \notin {{}, DOMAIN vs} =>
    \E i \in S, j \in DOMAIN vs \ S : DOMAIN vs[i].nodes \cap DOMAIN vs[j].nodes # {}

RowGaps(s) ==
  LET rows == {RowOf(n) : n \in DOMAIN s.nodes} IN (Min(rows)..Max(rows)) \ DOMAIN s.rows

GraphComplete(s, vs) ==
  /\ s.top /\ s.bottom /\ RowGaps(s) = {} /\ Overlapping(vs)
  /\ \A n \in DOMAIN s.nodes : s.nodes[n].all

MergedSurvey(vs) ==
  LET merged[n \in 0..Len(vs)] == IF n = 0 THEN NothingSeen ELSE MergeView(merged[n - 1], vs[n])
  IN merged[Len(vs)]

\* Closed rows and closed exits must still be so once everything is merged.
Consistent(s) ==
  /\ s.ok
  /\ \A r \in DOMAIN s.rows : {n \in DOMAIN s.nodes : RowOf(n) = r} = s.rows[r]
  /\ \A n \in DOMAIN s.exits : ExitsOf(DOMAIN s.edges, n) = s.exits[n]

Survey(vs) == LET s == MergedSurvey(vs) IN [s EXCEPT !.ok = Consistent(s)]

-------------------------------------------------------------------------------
\* map_brief: facts are "yes", "no" or "open".

Confirmed(s, n) == s.nodes[n].kind # "unknown" /\ s.nodes[n].sure
IsA(s, n, kind) == Confirmed(s, n) /\ s.nodes[n].kind = kind
Options(s, n) == {o \in ExitsOf(SureEdges(s), n) : Confirmed(s, o)}

\* Exits of n beyond which anything may lie.
OpenEnded(s, n) ==
  \/ ~Confirmed(s, n) \/ ~s.nodes[n].all
  \/ \E o \in ExitsOf(DOMAIN s.edges, n) : ~s.edges[<<n, o>>] \/ ~Confirmed(s, o)

\* _walk: the rooms found, by their distance, and those where the search is open.
Walk(s, start, avoidElites, confirmedOnly) ==
  LET Passable(n) == ~(avoidElites /\ IsA(s, n, "elite"))
      Exits(n) == IF confirmedOnly THEN Options(s, n) ELSE ExitsOf(SureEdges(s), n)
      found[k \in 0..Cardinality(DOMAIN s.nodes)] ==
        IF k = 0 THEN start :> 0
        ELSE LET near == found[k - 1]
                 last == {n \in DOMAIN near : near[n] = k - 1 /\ Passable(n)}
             IN near @@ [n \in UNION {Exits(l) : l \in last} |-> k]
      distances == found[Cardinality(DOMAIN s.nodes)]
  IN [distances |-> distances,
      frontier |-> {n \in DOMAIN distances : Passable(n) /\ OpenEnded(s, n)}]

\* Faulty variant: what was not found is not there.
ExistsIfFound(s, walk, kind) ==
  IF \E n \in DOMAIN walk.distances : IsA(s, n, kind) THEN "yes" ELSE "no"

Exists(s, walk, kind) ==
  IF \E n \in DOMAIN walk.distances : IsA(s, n, kind) THEN "yes"
  ELSE IF walk.frontier # {} THEN "open" ELSE "no"

MinDistance(s, walk, kind) ==
  LET at == {walk.distances[n] : n \in {n \in DOMAIN walk.distances : IsA(s, n, kind)}}
  IN IF at = {} THEN 0 ELSE Min(at)

Unavoidable(s) ==
  LET forced[n \in DOMAIN s.nodes] ==
        IF ~Confirmed(s, n) THEN "open"
        ELSE IF s.nodes[n].kind = "elite" THEN "yes"
        ELSE IF s.nodes[n].kind = "rest" THEN "no"
        ELSE LET exits == ExitsOf(SureEdges(s), n)
                 facts == {forced[o] : o \in exits}
             IN IF "no" \in facts THEN "no"
                ELSE IF \/ "open" \in facts \/ ~s.nodes[n].all
                        \/ exits # ExitsOf(DOMAIN s.edges, n) THEN "open"
                ELSE IF exits = {} THEN "no" ELSE "yes"
  IN forced

\* What summarize_routes says of an option.
RouteFacts(s, o) ==
  LET all == Walk(s, o, FALSE, TRUE)
  IN [rest |-> Exists(s, all, "rest"), restAt |-> MinDistance(s, all, "rest"),
      merchant |-> Exists(s, all, "merchant"),
      pastKnownElites |-> Exists(s, Walk(s, o, TRUE, FALSE), "rest"),
      eliteFree |-> Exists(s, Walk(s, o, TRUE, TRUE), "rest"),
      forced |-> Unavoidable(s)[o]]

-------------------------------------------------------------------------------
\* plan_routes.  An option is judged by the best of its continuations.

Place(n) == 100 * n[1] + n[2]
InOrder(rooms) == SetToSortSeq(rooms, LAMBDA a, b : Place(a) < Place(b))

\* _continuations, in the order of the search.
Continuations(s, start) ==
  LET from[n \in DOMAIN s.nodes] ==
        LET exits == InOrder(Options(s, n))
            further == FlattenSeq([i \in DOMAIN exits |-> from[exits[i]]])
        IN (IF exits = <<>> \/ OpenEnded(s, n) THEN << <<n>> >> ELSE <<>>)
             \o [i \in DOMAIN further |-> <<n>> \o further[i]]
  IN from[start]

Evaluated(s, o) ==
  LET paths == Continuations(s, o)
  IN SubSeq(paths, 1, IF Len(paths) < MAX_CONTINUATIONS THEN Len(paths) ELSE MAX_CONTINUATIONS)

CRITERIA == {"avoid_forced_elite", "elite_free_rest", "earliest_rest", "merchant_access", "fewest_elites"}

\* _route_comparison of one path: smaller is better, digit by digit.
Compared(s, path, criterion) ==
  LET At(kind) == {i \in DOMAIN path : s.nodes[path[i]].kind = kind}
      First(kind) == IF At(kind) = {} THEN 0 ELSE Min(At(kind))
      open == OpenEnded(s, Last(path))
      eliteFirst == At("elite") # {} /\ (At("rest") = {} \/ First("elite") < First("rest"))
      Reached(kind) == IF At(kind) # {} THEN 0 ELSE IF open THEN 1 ELSE 2
      Soon(kind) == <<Reached(kind), IF At(kind) = {} THEN 0 ELSE First(kind) - 1>>
  IN CASE criterion = "avoid_forced_elite" ->
            <<IF eliteFirst THEN 2 ELSE IF At("rest") # {} \/ ~open THEN 0 ELSE 1>>
       [] criterion = "elite_free_rest" ->
            <<IF At("rest") # {} THEN (IF eliteFirst THEN 2 ELSE 0) ELSE Reached("rest")>>
       [] criterion = "earliest_rest" -> Soon("rest")
       [] criterion = "merchant_access" -> Soon("merchant")
       [] criterion = "fewest_elites" -> <<Cardinality(At("elite"))>>

Cautious(readiness) ==
  \/ readiness.health \in {"critical", "strained", "unknown"}
  \/ readiness.elites \in {"avoid", "unknown"}

CautiousPrefix == <<"avoid_forced_elite", "elite_free_rest", "earliest_rest">>

Applied(readiness, criteria) ==
  IF Cautious(readiness)
  THEN CautiousPrefix \o SelectSeq(criteria, LAMBDA c : c \notin ToSet(CautiousPrefix))
  ELSE criteria

Outranks(a, b) == \E i \in DOMAIN a : a[i] < b[i] /\ \A j \in 1..(i - 1) : a[j] = b[j]

BestOf(s, o, criteria) ==
  LET Of(path) == FlattenSeq([i \in DOMAIN criteria |-> Compared(s, path, criteria[i])])
      keys == {Of(path) : path \in ToSet(Evaluated(s, o))}
  IN CHOOSE k \in keys : \A l \in keys : ~Outranks(l, k)

Ranked(s, here, criteria) ==
  LET best == [o \in Options(s, here) |-> BestOf(s, o, criteria)]
  IN [o \in DOMAIN best |-> 1 + Cardinality({p \in DOMAIN best : Outranks(best[p], best[o])})]

Truncated(s, here) ==
  \E o \in Options(s, here) : Len(Continuations(s, o)) > MAX_CONTINUATIONS

-------------------------------------------------------------------------------

Readiness == [health : {"critical", "comfortable"}, elites : {"ready", "avoid"}]

InitSurvey == act \in Maps /\ views = <<>> /\ ranks = Unseen

\* write_bound_view; a view that contradicts the others is an error.
InspectView(v) ==
  /\ Len(views) < MaxViews
  /\ Survey(Append(views, v)).ok
  /\ views' = Append(views, v) /\ ranks' = Unseen
  /\ UNCHANGED act

\* merge_survey and plan_routes for the room the player is in.
PlanRoutes(here, readiness, criteria) ==
  /\ ranks = Unseen /\ views # <<>>
  /\ LET s == Survey(views)
     IN /\ here \in DOMAIN s.nodes
        /\ ranks' = [here |-> here, cautious |-> Cautious(readiness),
                     truncated |-> Truncated(s, here),
                     complete |-> GraphComplete(s, views) /\ ~Truncated(s, here),
                     rank |-> Ranked(s, here, Applied(readiness, criteria))]
  /\ UNCHANGED <<act, views>>

NextSurvey ==
  \/ \E v \in Inspectable(act) : InspectView(v)
  \/ \E here \in {n \in MapRooms(act) : RowOf(n) = 0}, r \in Readiness,
        c \in {<<"merchant_access", "fewest_elites">>, <<"earliest_rest">>} : PlanRoutes(here, r, c)

-------------------------------------------------------------------------------
\* The map as it is.

CanReach(m, n, kind) ==
  LET can[x \in MapRooms(m)] == m.kind[x] = kind \/ \E o \in ExitsOf(m.edges, x) : can[o] IN can[n]

EliteFreeRest(m, n) ==
  LET free[x \in MapRooms(m)] ==
        m.kind[x] # "elite" /\ (m.kind[x] = "rest" \/ \E o \in ExitsOf(m.edges, x) : free[o])
  IN free[n]

EliteForced(m, n) ==
  LET forced[x \in MapRooms(m)] ==
        \/ m.kind[x] = "elite"
        \/ /\ m.kind[x] # "rest" /\ ExitsOf(m.edges, x) # {}
           /\ \A o \in ExitsOf(m.edges, x) : forced[o]
  IN forced[n]

RestWithin(m, n, k) ==
  LET within[i \in 0..k] ==
        IF i = 0 THEN {n}
        ELSE within[i - 1] \cup UNION {ExitsOf(m.edges, x) : x \in within[i - 1]}
  IN \E x \in within[k] : m.kind[x] = "rest"

Says(fact, truth) == (fact = "yes" => truth) /\ (fact = "no" => ~truth)

\* A cautious reviewer is never sent first into a room from which an elite comes
\* for certain before the next rest, while another exit surely avoids it
\* (plan_routes; the ranking and _elite_unavoidable search in different ways).
CautionPrevails ==
  (ranks # Unseen /\ ranks.cautious /\ ~ranks.truncated) =>
    LET s == Survey(views)
    IN (\E o \in Options(s, ranks.here) : Unavoidable(s)[o] = "no") =>
         \A o \in DOMAIN ranks.rank : ranks.rank[o] = 1 => ~EliteForced(act, o)

\* Whatever the views hide or leave unclear, a definite fact about the routes
\* from a confirmed room is true of the real map, and a survey that calls itself
\* complete knows every room and every exit.  It does not matter in which order the
\* views were taken: the same views give the same survey, or the same refusal
\* (map_brief._walk, _exists, _elite_unavoidable; _merge_survey).  And caution
\* prevails.
FactsAreTrue ==
  views # <<>> =>
    LET s == Survey(views)
    IN /\ CautionPrevails
       /\ \A o \in {o \in DOMAIN s.nodes : Confirmed(s, o)} :
            LET f == RouteFacts(s, o)
            IN /\ Says(f.rest, CanReach(act, o, "rest"))
               /\ Says(f.merchant, CanReach(act, o, "merchant"))
               /\ Says(f.eliteFree, EliteFreeRest(act, o))
               /\ f.pastKnownElites = "no" => ~EliteFreeRest(act, o)
               /\ Says(f.forced, EliteForced(act, o))
               /\ f.rest = "yes" => RestWithin(act, o, f.restAt)
       /\ GraphComplete(s, views) =>
            /\ DOMAIN s.nodes = MapRooms(act) /\ act.edges \subseteq DOMAIN s.edges
       /\ \A p \in Permutations(DOMAIN views) :
            LET t == Survey([i \in DOMAIN views |-> views[p[i]]])
            IN /\ t.ok = s.ok /\ t.nodes = s.nodes /\ t.edges = s.edges /\ t.exits = s.exits
               /\ GraphComplete(t, views) = GraphComplete(s, views)

===============================================================================
