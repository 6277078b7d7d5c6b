----------------------------- MODULE MemoryReplay -----------------------------
(***************************************************************************)
(* What the memory believes the player to have, and where the cards of a   *)
(* fight are: both are replayed from rows that are only ever added         *)
(* (inventory_ledger and combat_zone_state of veda/telemetry_database.py). *)
(* Rows come with the verified outcomes of the player (_inventory, _zones  *)
(* and _zone_baseline of veda/play_telemetry.py, after _mutations of       *)
(* veda/reviewed_play.py accepted them), from the commands of              *)
(* scripts/veda_memory.py and from the checkpoint of a pause.              *)
(*                                                                         *)
(* The game is external.  The reviewer is honest: an event is reported if  *)
(* it happened to something the memory knows of, a category is called      *)
(* complete when all of it was seen, and zone movements are complete when  *)
(* all of them are listed.  Names of one item are spelled alike; texts of  *)
(* properties are left out.                                                *)
(***************************************************************************)
EXTENDS Naturals, Sequences, SequencesExt

CONSTANTS
  Items,       \* names of the items of each category
  Looked,      \* how completely each category is seen in a reviewed baseline
  Possible,    \* lists of changes an input may make to the belongings
  Deck,        \* the deck of the fight: how many of each card
  Played,      \* lists of card movements between two images
  MaxCopies,   \* bound: copies of an item
  MaxStock,    \* bound: inventory rows
  MaxImages,   \* bound: images of the fight
  Lacking      \* no outcome waiting, no zone baseline

Categories == DOMAIN Items
Levels == {"complete", "partial", "unknown"}
Belongings == {h \in [Categories -> UNION {[Items[c] -> Nat] : c \in Categories}] :
                 \A c \in Categories : h[c] \in [Items[c] -> Nat]}

\* A change of what is in one category; replaced by another item, related.
Changes ==
  {ch \in UNION {[category : {c}, action : {"acquired", "removed", "consumed", "replaced"},
                  item : Items[c], related : Items[c] \cup {Lacking}] : c \in Categories} :
     ch.action = "replaced" => ch.related \in Items[ch.category]}

Zones == {"hand", "draw", "discard", "exhaust"}
Movements ==
  {mv \in [kind : {"moved", "shuffle"}, card : DOMAIN Deck \cup {Lacking},
           from : Zones \cup {Lacking}, to : Zones \cup {Lacking}] :
     mv.kind = "moved" => mv.card \in DOMAIN Deck}

ASSUME MemoryAssumption ==
  /\ Categories = {"card", "relic", "potion"}
  /\ Looked \subseteq [Categories -> Levels]
  /\ Deck \in [DOMAIN Deck -> Nat]
  /\ Possible \subseteq Seq(Changes) /\ Played \subseteq Seq(Movements)
  /\ MaxCopies \in Nat \ {0} /\ MaxStock \in Nat /\ MaxImages \in Nat

VARIABLES
  imaged,    \* the time of the newest image
  owned,     \* the belongings: copies of each item, by category
  stock,     \* inventory_events and inventory_baselines
  awaited,   \* the verified result that is not committed yet
  twice,     \* an image was used for an outcome and for a checkpoint
  piles,     \* where the cards of the fight are
  zoneBase,  \* combat_zone_bases: the opening hand
  zoneRows   \* combat_zone_events

memoryVars == <<imaged, owned, stock, awaited, twice, piles, zoneBase, zoneRows>>

\* op, applied to the elements of seq from the first to the last.
Folded(op(_, _), base, seq) ==
  LET upto[k \in 0..Len(seq)] == IF k = 0 THEN base ELSE op(upto[k - 1], seq[k]) IN upto[Len(seq)]

\* The rows, put in the order that before is.
Sorted(rows, before(_, _)) ==
  LET place(i) == Cardinality({j \in DOMAIN rows : before(j, i)}) + 1
  IN [k \in DOMAIN rows |-> rows[CHOOSE i \in DOMAIN rows : place(i) = k]]

Nothing == [c \in Categories |-> [i \in Items[c] |-> 0]]
AtMost(f, g) == \A x \in DOMAIN f : f[x] <= g[x]

-------------------------------------------------------------------------------
(* The belongings.  A change: [category, action, item, related]. *)

Takes(ch) == ch.action \in {"removed", "consumed", "replaced"}
Gives(ch) ==
  IF ch.action = "acquired" THEN {ch.item} ELSE IF ch.action = "replaced" THEN {ch.related} ELSE {}

Less(h, ch) == IF Takes(ch) THEN [h EXCEPT ![ch.category][ch.item] = @ - 1] ELSE h
More(h, ch) ==
  [h EXCEPT ![ch.category] = [i \in DOMAIN @ |-> IF i \in Gives(ch) THEN @[i] + 1 ELSE @[i]]]

\* In the game: what is taken was there, and nobody has a relic twice.
Hits(r, ch) ==
  LET less == Less(r.has, ch)
      ok == /\ r.ok
            /\ Takes(ch) => r.has[ch.category][ch.item] > 0
            /\ \A i \in Gives(ch) :
                 less[ch.category][i] < IF ch.category = "relic" THEN 1 ELSE MaxCopies
  IN [ok |-> ok, has |-> IF ok THEN More(less, ch) ELSE r.has]

Happens(h, changes) == Folded(Hits, [ok |-> TRUE, has |-> h], changes)

Event(ch, at) == [kind |-> "event", at |-> at, change |-> ch]
Events(changes, at) == [k \in DOMAIN changes |-> Event(changes[k], at)]
Baseline(levels, items, at) == [kind |-> "baseline", at |-> at, levels |-> levels, items |-> items]

EventRows == [kind : {"event"}, at : Nat, change : Changes]
BaselineRows == [kind : {"baseline"}, at : Nat, levels : [Categories -> Levels], items : Belongings]
Rows == EventRows \cup BaselineRows

\* Verified results that are not committed yet; hands that may be drawn first.
Results == [at : Nat, was : Belongings, rows : Seq(Rows), revision : Nat]
Hands == {h \in [DOMAIN Deck -> 0..MaxCopies] : AtMost(h, Deck)}

ASSUME LackingAssumption == Lacking \notin Results /\ Lacking \notin Hands

\* By time; baselines come before events of the same time.
Earlier(rows, i, j) ==
  LET rank(k) == IF rows[k].kind = "baseline" THEN 0 ELSE 1
  IN \/ rows[i].at < rows[j].at
     \/ /\ rows[i].at = rows[j].at
        /\ rank(i) < rank(j) \/ (rank(i) = rank(j) /\ i < j)

Timeline(rows) == Sorted(rows, LAMBDA i, j : Earlier(rows, i, j))

\* A partial baseline adds what it shows more of, and takes nothing away.
Merged(known, seen) == [i \in DOMAIN known |-> IF seen[i] > known[i] THEN seen[i] ELSE known[i]]

Observed(m, row) ==
  [current |-> [c \in Categories |->
      CASE row.levels[c] = "complete" -> row.items[c]
        [] row.levels[c] = "partial" -> Merged(m.current[c], row.items[c])
        [] row.levels[c] = "unknown" -> m.current[c]],
   coverage |-> [c \in Categories |->
      CASE row.levels[c] = "complete" -> "complete"
        [] row.levels[c] = "partial" /\ m.coverage[c] = "unknown" -> "partial"
        [] OTHER -> m.coverage[c]]]

\* What is taken and not known of shows that the category was not complete; a
\* relic that is known is not taken up again.
Changed(m, ch) ==
  LET here == Takes(ch) /\ m.current[ch.category][ch.item] > 0
      less == IF here THEN Less(m.current, ch) ELSE m.current
      more == IF ch.category = "relic" /\ \E i \in Gives(ch) : less["relic"][i] > 0
              THEN less ELSE More(less, ch)
  IN [current |-> more,
      coverage |-> IF Takes(ch) /\ ~here /\ m.coverage[ch.category] = "complete"
                   THEN [m.coverage EXCEPT ![ch.category] = "partial"] ELSE m.coverage]

\* inventory_ledger.
Learned(m, row) == IF row.kind = "baseline" THEN Observed(m, row) ELSE Changed(m, row.change)
NoMemory == [current |-> Nothing, coverage |-> [c \in Categories |-> "unknown"]]
Replayed(rows) == Folded(Learned, NoMemory, rows)
Remembered(rows) == Replayed(Timeline(rows))

Holdings(most) ==
  {h \in [Categories -> UNION {[Items[c] -> 0..most] : c \in Categories}] :
     \A c \in Categories : DOMAIN h[c] = Items[c]}

Baselines(most, at) == {Baseline(l, h, at) : l \in Looked, h \in Holdings(most)}

\* Of a reviewed baseline: all there is of a complete category, some of a partial
\* one, and no item of an unknown one.
Honest(row, has) ==
  \A c \in Categories :
    CASE row.levels[c] = "complete" -> row.items[c] = has[c]
      [] row.levels[c] = "partial" -> AtMost(row.items[c], has[c])
      [] row.levels[c] = "unknown" -> row.items[c] = Nothing[c]

\* The events that _mutations lets pass: each takes only what is known.
Projected(r, ch) ==
  LET ok == r.ok /\ (Takes(ch) => r.has[ch.category][ch.item] > 0)
  IN [ok |-> ok, has |-> IF ok THEN More(Less(r.has, ch), ch) ELSE r.has]
Acceptable(known, changes) == Folded(Projected, [ok |-> TRUE, has |-> known], changes).ok

\* What is reported of the changes, one after the other: what was taken and is
\* not known of is left out, and its replacement is something acquired.
Said(m, ch) ==
  IF Takes(ch) /\ m.current[ch.category][ch.item] = 0
  THEN IF ch.action # "replaced" THEN {}
       ELSE {[category |-> ch.category, action |-> "acquired", item |-> ch.related, related |-> ch.related]}
  ELSE {ch}
Told(r, ch) ==
  IF Said(r.memory, ch) = {} THEN r
  ELSE LET e == CHOOSE x \in Said(r.memory, ch) : TRUE
       IN [memory |-> Changed(r.memory, e), events |-> Append(r.events, e)]
Reported(m, changes) == Folded(Told, [memory |-> m, events |-> <<>>], changes).events

-------------------------------------------------------------------------------
(* The cards of a fight.  A movement: [kind, card, from, to]. *)

NoCards == [x \in DOMAIN Deck |-> 0]
Opening(hand) ==
  [z \in Zones |-> CASE z = "hand" -> hand
                     [] z = "draw" -> [x \in DOMAIN Deck |-> Deck[x] - hand[x]]
                     [] OTHER -> NoCards]

Shuffled(p) ==
  [z \in Zones |-> CASE z = "draw" -> [x \in DOMAIN Deck |-> p["draw"][x] + p["discard"][x]]
                     [] z = "discard" -> NoCards
                     [] OTHER -> p[z]]

Possibly(p, mv) == mv.kind = "shuffle" \/ mv.from = Lacking \/ p[mv.from][mv.card] > 0

MovedCard(p, mv) ==
  IF mv.kind = "shuffle" THEN Shuffled(p)
  ELSE LET left == IF mv.from = Lacking THEN p ELSE [p EXCEPT ![mv.from][mv.card] = @ - 1]
       IN IF mv.to = Lacking THEN left ELSE [left EXCEPT ![mv.to][mv.card] = @ + 1]

\* combat_zone_state: what cannot be replayed is passed over and makes all unknown.
ReplayedMovement(s, mv) ==
  IF mv.kind = "unknown" THEN [s EXCEPT !.known = FALSE]
  ELSE IF Possibly(s.zones, mv) THEN [s EXCEPT !.zones = MovedCard(@, mv)]
  ELSE [s EXCEPT !.known = FALSE]

\* Faulty variant: every event has a random id of its own.
IdOfItsOwn(digest, index) == <<10 - index, digest>>

\* The rows of an outcome have the time of its image, and are ordered by their
\* ids: a digest of the operation and the place of the event in it.
IdOf(digest, index) == <<digest, index>>

EarlierId(rows, i, j) ==
  \/ rows[i].at < rows[j].at
  \/ /\ rows[i].at = rows[j].at
     /\ \/ rows[i].id[1] < rows[j].id[1]
        \/ rows[i].id[1] = rows[j].id[1] /\ rows[i].id[2] < rows[j].id[2]

Replaced(s, row) == ReplayedMovement(s, row.movement)
ZonesAfter(hand, rows) == Folded(Replaced, [known |-> TRUE, zones |-> Opening(hand)], rows)
ZoneState(hand, rows) == ZonesAfter(hand, Sorted(rows, LAMBDA i, j : EarlierId(rows, i, j)))

Untold == [kind |-> "unknown", card |-> Lacking, from |-> Lacking, to |-> Lacking]

ZoneRowsOf(movements, at, digest) ==
  [k \in DOMAIN movements |-> [at |-> at, id |-> IdOf(digest, k), movement |-> movements[k]]]

-------------------------------------------------------------------------------

InitMemory ==
  /\ imaged = 0
  /\ owned \in {h \in Holdings(MaxCopies) : \A i \in Items["relic"] : h["relic"][i] <= 1}
  /\ stock = <<>> /\ awaited = Lacking /\ twice = FALSE
  /\ piles \in {Opening(h) : h \in Hands}
  /\ zoneBase = Lacking /\ zoneRows = <<>>

\* An input changed the belongings; its result is reviewed from a new image, with
\* the events, and is held against the inventory known so far (_mutations).
PlayInput(changes) ==
  /\ awaited = Lacking /\ Len(stock) + Len(changes) <= MaxStock
  /\ Happens(owned, changes).ok
  /\ owned' = Happens(owned, changes).has
  /\ imaged' = imaged + 1
  /\ LET m == Remembered(stock)
         said == Reported(m, changes)
     IN /\ Acceptable(m.current, said)
        /\ awaited' = [at |-> imaged', was |-> owned, rows |-> Events(said, imaged'), revision |-> Len(stock)]
  /\ UNCHANGED <<stock, twice, piles, zoneBase, zoneRows>>

\* Or the result comes with a reviewed baseline instead of events.
PlayAndInspect(changes, row) ==
  /\ awaited = Lacking /\ Len(stock) < MaxStock
  /\ Happens(owned, changes).ok
  /\ owned' = Happens(owned, changes).has
  /\ imaged' = imaged + 1
  /\ Honest(row, owned') /\ row.at = imaged'
  /\ \E c \in Categories : row.levels[c] # "unknown"
  /\ \A ch \in ToSet(changes) : row.levels[ch.category] = "complete"
  /\ awaited' = [at |-> imaged', was |-> owned, rows |-> <<row>>, revision |-> Len(stock)]
  /\ UNCHANGED <<stock, twice, piles, zoneBase, zoneRows>>

\* _chronology: no row is newer than the image.
MayAdd(w) == \A k \in DOMAIN stock : stock[k].at <= w.at

\* finalize: refused for good when another writer was there in between.
CommitResult ==
  /\ awaited # Lacking
  /\ Len(stock) = awaited.revision
  /\ MayAdd(awaited)
  /\ stock' = stock \o awaited.rows /\ awaited' = Lacking
  /\ UNCHANGED <<imaged, owned, twice, piles, zoneBase, zoneRows>>

\* inventory-baseline and inventory-discover: written with the time of the clock.
Discover(row) ==
  /\ Len(stock) < MaxStock
  /\ imaged' = imaged + 1 /\ row.at = imaged' /\ Honest(row, owned)
  /\ stock' = Append(stock, row)
  /\ UNCHANGED <<owned, awaited, twice, piles, zoneBase, zoneRows>>

\* inventory-event: a change of a game that is played by hand; nothing checks
\* whether the memory knows of what it takes.
PlayByHand(ch) ==
  /\ awaited = Lacking /\ Len(stock) < MaxStock
  /\ Happens(owned, <<ch>>).ok
  /\ owned' = Happens(owned, <<ch>>).has
  /\ imaged' = imaged + 1
  /\ stock' = Append(stock, Event(ch, imaged'))
  /\ UNCHANGED <<awaited, twice, piles, zoneBase, zoneRows>>

\* record_advisory_checkpoint: the baseline has the time of its image, the newest
\* one; refused when the inventory changed after that.
Checkpoint(row) ==
  /\ Len(stock) < MaxStock
  /\ row.at = imaged /\ Honest(row, owned)
  /\ MayAdd(row)
  /\ stock' = Append(stock, row)
  /\ twice' = (twice \/ \E k \in DOMAIN stock : stock[k].kind = "event" /\ stock[k].at = row.at)
  /\ UNCHANGED <<imaged, owned, awaited, piles, zoneBase, zoneRows>>

\* An outcome in the first turn whose image shows the opening hand and the deck.
OpenZones ==
  /\ imaged < MaxImages /\ zoneBase = Lacking /\ \E h \in Hands : piles = Opening(h)
  /\ imaged' = imaged + 1
  /\ zoneBase' = piles["hand"]
  /\ UNCHANGED <<owned, stock, awaited, twice, piles, zoneRows>>

Handled(r, mv) ==
  LET ok == r.ok /\ Possibly(r.p, mv) IN [ok |-> ok, p |-> IF ok THEN MovedCard(r.p, mv) ELSE r.p]
CardsAfter(p, movements) == Folded(Handled, [ok |-> TRUE, p |-> p], movements)

\* An outcome in the fight: the first movements are told, and if these were not
\* all, or the outcome is unknown, that is noted; without a baseline nothing is
\* (zones_deferred).
MoveCards(movements, told, digest) ==
  LET r == CardsAfter(piles, movements)
      said == SubSeq(movements, 1, told) \o IF told < Len(movements) THEN <<Untold>> ELSE <<>>
  IN /\ r.ok /\ imaged < MaxImages
     /\ piles' = r.p
     /\ imaged' = imaged + 1
     /\ zoneRows' = IF zoneBase = Lacking THEN zoneRows ELSE zoneRows \o ZoneRowsOf(said, imaged', digest)
     /\ UNCHANGED <<owned, stock, awaited, twice, zoneBase>>

NextBelongings ==
  \/ \E changes \in Possible : PlayInput(changes)
  \/ \E changes \in Possible, row \in Baselines(MaxCopies, imaged + 1) : PlayAndInspect(changes, row)
  \/ CommitResult
  \/ \E row \in Baselines(MaxCopies, imaged + 1) : Discover(row)
  \/ \E changes \in Possible : Len(changes) = 1 /\ PlayByHand(changes[1])
  \/ \E row \in Baselines(MaxCopies, imaged) : Checkpoint(row)

NextZones ==
  \/ OpenZones
  \/ \E movements \in Played, digest \in 1..2 : \E told \in 0..Len(movements) : MoveCards(movements, told, digest)

-------------------------------------------------------------------------------

SpecMemory == InitMemory /\ [][NextBelongings \/ NextZones]_memoryVars

TrueOf(m, has) ==
  \A c \in Categories :
    IF m.coverage[c] = "complete" THEN m.current[c] = has[c] ELSE AtMost(m.current[c], has[c])

\* Another writer was there before a result, which is refused from then on.
Overtaken == awaited # Lacking /\ Len(stock) # awaited.revision

\* Of a category that is called complete the memory knows exactly what the player
\* has or, while a verified result waits to be committed, had before it; of any
\* other it knows nothing that is not there.  Except when another writer overtook
\* the result, which is refused from then on, and when a checkpoint was taken of
\* the image of an outcome: its baseline is replayed before the events of that
\* image (inventory_ledger).
BelongingsAreTrue ==
  ~twice /\ ~Overtaken => TrueOf(Remembered(stock), IF awaited = Lacking THEN owned ELSE awaited.was)

\* Cards are where the memory says they are, if it says that it knows: gaps are
\* never filled by guesswork (combat_zone_state).
ZonesAreTrue ==
  zoneBase # Lacking =>
    LET s == ZoneState(zoneBase, zoneRows) IN s.known => s.zones = piles

\* What is replayed from the rows is so, whoever wrote them, in which order and
\* from which images.
MemoryIsTrue == BelongingsAreTrue /\ ZonesAreTrue

===============================================================================
