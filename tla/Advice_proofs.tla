---------------------------- MODULE Advice_proofs ------------------------------
(***************************************************************************)
(* Proofs about what advice rests on: what the evidence ledger makes of    *)
(* anything it is told (EvidenceHistory), what the session that keeps one  *)
(* may rely on (AdvisorySession), and how long a route once chosen on the  *)
(* map is followed (MapTravel).  For any number of requests, images,       *)
(* inputs, turns and faults, frames, entries and things owned, and any     *)
(* maps, views and changes of resources.                                   *)
(***************************************************************************)
EXTENDS AdvisorySession, EvidenceHistory, MapTravel, FiniteSetTheorems, TLAPS

-------------------------------------------------------------------------------
(* The ledger *)

\* A ledger has its fields, and its sections.
IsLedger(l) ==
  /\ l = [context |-> l.context, epoch |-> l.epoch, frame |-> l.frame, last |-> l.last,
          frames |-> l.frames, sections |-> l.sections]
  /\ l.sections = [n \in Sections |-> l.sections[n]]

\* Invalidated sections are stale, everything else is kept.
LEMMA InvalidatedHolds ==
  ASSUME NEW l, IsLedger(l), NEW names
  PROVE  LET r == Invalidated(l, names)
         IN /\ IsLedger(r) /\ r.context = l.context /\ r.epoch = l.epoch /\ r.frame = l.frame
            /\ r.last = l.last /\ r.frames = l.frames
            /\ \A n \in Sections : r.sections[n] = IF n \in names THEN Blank("stale") ELSE l.sections[n]
BY DEF IsLedger, Invalidated

\* The next epoch has no frame yet.
LEMMA NextEpochHolds ==
  ASSUME NEW l, IsLedger(l), NEW r, r = NextEpoch(l)
  PROVE  /\ IsLedger(r) /\ r.context = l.context /\ r.epoch = l.epoch + 1 /\ r.frame = None
         /\ r.last = l.last /\ r.frames = l.frames /\ r.sections = l.sections
<1> DEFINE e == l.epoch + 1
<1>1. r = [l EXCEPT !.epoch = e, !.frame = None]
  BY DEF NextEpoch
<1> HIDE DEF e
<1>2. IsLedger(r)
  BY <1>1 DEF IsLedger
<1>3. /\ r.context = l.context /\ r.epoch = e /\ r.frame = None
      /\ r.last = l.last /\ r.frames = l.frames /\ r.sections = l.sections
  BY <1>1 DEF IsLedger
<1> QED
  BY <1>2, <1>3 DEF e

\* After an input nothing volatile is known; other kinds end the inventory too.
LEMMA InvalidateHolds ==
  ASSUME NEW l, IsLedger(l), NEW kind
  PROVE  LET r == Invalidate(l, kind)
         IN /\ IsLedger(r) /\ r.context = l.context /\ r.epoch = l.epoch + 1 /\ r.frame = None
            /\ r.last = l.last /\ r.frames = l.frames
            /\ \A n \in Volatile : r.sections[n] = Blank("stale")
            /\ Stock(r) = IF kind = "input" THEN Stock(l) ELSE Blank("stale")
<1> DEFINE names == IF kind = "input" THEN Volatile ELSE Sections
           q == Invalidated(l, names)
<1>1. /\ IsLedger(q) /\ q.context = l.context /\ q.epoch = l.epoch /\ q.frame = l.frame
      /\ q.last = l.last /\ q.frames = l.frames
      /\ \A n \in Sections : q.sections[n] = IF n \in names THEN Blank("stale") ELSE l.sections[n]
  BY InvalidatedHolds
<1>2. Invalidate(l, kind) = NextEpoch(q)
  BY DEF Invalidate
<1> HIDE DEF q
<1>3. LET r == NextEpoch(q)
      IN /\ IsLedger(r) /\ r.context = q.context /\ r.epoch = q.epoch + 1 /\ r.frame = None
         /\ r.last = q.last /\ r.frames = q.frames /\ r.sections = q.sections
  BY <1>1, NextEpochHolds
<1>4. /\ \A n \in Volatile : q.sections[n] = Blank("stale")
      /\ q.sections["inventory"] = IF kind = "input" THEN l.sections["inventory"] ELSE Blank("stale")
  BY <1>1 DEF Volatile, Sections
<1> QED
  BY <1>1, <1>2, <1>3, <1>4 DEF Stock

\* What a change of context makes of a ledger.
Moved(l, c, r) ==
  /\ IsLedger(r) /\ r.context = c /\ r.epoch = l.epoch + 1 /\ r.frame = None
  /\ r.last = (IF c.run = l.context.run THEN l.last ELSE 0) /\ r.frames = l.frames
  /\ \A n \in Volatile : r.sections[n] = Blank("stale")
  /\ Stock(r) = IF c.run = l.context.run THEN Stock(l) ELSE Blank("stale")

LEMMA ChangeContextHolds ==
  ASSUME NEW l, IsLedger(l), NEW c
  PROVE  Moved(l, c, ChangeContext(l, c))
<1> DEFINE same == c.run = l.context.run
           names == IF same THEN Volatile ELSE Sections
           q == Invalidated(l, names)
<1>1. /\ IsLedger(q) /\ q.context = l.context /\ q.epoch = l.epoch /\ q.frame = l.frame
      /\ q.last = l.last /\ q.frames = l.frames
      /\ \A n \in Sections : q.sections[n] = IF n \in names THEN Blank("stale") ELSE l.sections[n]
  BY InvalidatedHolds
<1>2. ChangeContext(l, c) = [NextEpoch(q) EXCEPT !.context = c, !.last = IF same THEN @ ELSE 0]
  BY DEF ChangeContext
<1>3. /\ \A n \in Volatile : q.sections[n] = Blank("stale")
      /\ q.sections["inventory"] = IF same THEN l.sections["inventory"] ELSE Blank("stale")
  BY <1>1 DEF Volatile, Sections
<1> HIDE DEF q, same
<1> DEFINE u == NextEpoch(q)
<1>4. /\ IsLedger(u) /\ u.context = q.context /\ u.epoch = q.epoch + 1 /\ u.frame = None
      /\ u.last = q.last /\ u.frames = q.frames /\ u.sections = q.sections
  BY <1>1, NextEpochHolds
<1> HIDE DEF u
<1>5. PICK r : r = [[u EXCEPT !.context = c] EXCEPT !.last = IF same THEN @ ELSE 0]
  OBVIOUS
<1>6. /\ IsLedger(r) /\ r.context = c /\ r.epoch = u.epoch /\ r.frame = u.frame
      /\ r.last = (IF same THEN u.last ELSE 0) /\ r.frames = u.frames /\ r.sections = u.sections
  BY <1>4, <1>5 DEF IsLedger
<1>7. r = ChangeContext(l, c)
  BY <1>2, <1>4, <1>5 DEF u
<1> QED
  BY <1>1, <1>3, <1>4, <1>6, <1>7 DEF Stock, same, Moved

\* What an observation makes of a section: what is carried to its frame, with
\* what it offers.
Carries(l, p, n) ==
  IF NewFrame(l, p) /\ (p.continuity = None \/ n = "ui") THEN Blank("stale") ELSE l.sections[n]

Merged(l, p, n) ==
  IF n \in DOMAIN p.sections THEN Taken(n, Carries(l, p, n), p.sections[n]) ELSE Carries(l, p, n)

\* The focus it shows is none of the hand it shows.
FocusLost(l, p) ==
  /\ Current(Merged(l, p, "ui")) /\ Merged(l, p, "ui").data # None
  /\ Complete(Merged(l, p, "hand")) /\ Merged(l, p, "ui").data \notin DOMAIN Merged(l, p, "hand").data

\* An observation sets the frame, and merges what it offers.
LEMMA ObserveHolds ==
  ASSUME NEW l, IsLedger(l), NEW p
  PROVE  LET r == Observe(l, p)
         IN /\ IsLedger(r) /\ r.context = l.context /\ r.epoch = l.epoch /\ r.frame = p.frame
            /\ r.last = p.frame.at /\ r.frames = l.frames \cup {p.frame.id}
            /\ \A n \in Sections : r.sections[n] =
                 IF n = "ui" /\ FocusLost(l, p) THEN Blank("conflict") ELSE Merged(l, p, n)
<1> DEFINE secs == Carried(l, p).sections
           take == [n \in Sections |-> IF n \in DOMAIN p.sections
                                       THEN Taken(n, secs[n], p.sections[n]) ELSE secs[n]]
<1>1. \A n \in Sections : secs[n] = Carries(l, p, n)
  <2>1. CASE ~NewFrame(l, p)
    BY <2>1 DEF Carried, Carries
  <2>2. CASE NewFrame(l, p)
    <3>1. secs = Invalidated(l, IF p.continuity = None THEN Sections ELSE {"ui"}).sections
      BY <2>2 DEF Carried
    <3> QED
      BY <2>2, <3>1, InvalidatedHolds DEF Carries
  <2> QED
    BY <2>1, <2>2
<1>2. \A n \in Sections : take[n] = Merged(l, p, n)
  BY <1>1 DEF Merged
<1>3. take = [n \in Sections |-> take[n]]
  OBVIOUS
<1> HIDE DEF take
<1>4. CrossChecked(take) = [n \in Sections |-> CrossChecked(take)[n]]
  BY <1>3 DEF CrossChecked
<1>5. \A n \in Sections : CrossChecked(take)[n] =
        IF n = "ui" /\ FocusLost(l, p) THEN Blank("conflict") ELSE Merged(l, p, n)
  BY <1>2, <1>3 DEF CrossChecked, FocusLost, Sections, Volatile
<1>6. Observe(l, p) = [l EXCEPT !.frame = p.frame, !.last = p.frame.at, !.frames = @ \cup {p.frame.id},
                                !.sections = CrossChecked(take)]
  BY DEF Observe, take
<1> QED
  BY <1>4, <1>5, <1>6 DEF IsLedger

\* A baseline merges into the inventory and leaves the rest.
LEMMA BaselineHolds ==
  ASSUME NEW l, IsLedger(l), NEW r, r.kind = "baseline"
  PROVE  LET q == RecordInventory(l, r)
         IN /\ IsLedger(q) /\ q.context = l.context /\ q.epoch = l.epoch /\ q.frame = l.frame
            /\ q.last = l.last /\ q.frames = l.frames
            /\ \A n \in Volatile : q.sections[n] = l.sections[n]
            /\ Stock(q) = StockMerged(Stock(l), r)
BY DEF RecordInventory, IsLedger, Stock, Sections, Volatile

\* A transition replaces the inventory and begins an epoch.
LEMMA TransitionHolds ==
  ASSUME NEW l, IsLedger(l), NEW r, r.kind # "baseline"
  PROVE  LET q == RecordInventory(l, r)
         IN /\ IsLedger(q) /\ q.context = l.context /\ q.epoch = l.epoch + 1 /\ q.frame = None
            /\ q.last = l.last /\ q.frames = l.frames
            /\ \A n \in Volatile : q.sections[n] = Blank("stale")
            /\ Stock(q) = Section(r.complete, r.items)
<1> DEFINE v == Invalidated(l, Volatile)
<1>1. /\ IsLedger(v) /\ v.context = l.context /\ v.epoch = l.epoch /\ v.frame = l.frame
      /\ v.last = l.last /\ v.frames = l.frames
      /\ \A n \in Sections : v.sections[n] = IF n \in Volatile THEN Blank("stale") ELSE l.sections[n]
  BY InvalidatedHolds
<1>2. RecordInventory(l, r) = NextEpoch([v EXCEPT !.sections["inventory"] = Section(r.complete, r.items)])
  BY DEF RecordInventory
<1> HIDE DEF v
<1> DEFINE u == [v EXCEPT !.sections["inventory"] = Section(r.complete, r.items)]
<1>3. /\ IsLedger(u) /\ u.context = v.context /\ u.epoch = v.epoch /\ u.last = v.last /\ u.frames = v.frames
      /\ \A n \in Volatile : u.sections[n] = v.sections[n]
      /\ u.sections["inventory"] = Section(r.complete, r.items)
  BY <1>1 DEF IsLedger, Sections, Volatile
<1> HIDE DEF u
<1>4. LET q == NextEpoch(u)
      IN /\ IsLedger(q) /\ q.context = u.context /\ q.epoch = u.epoch + 1 /\ q.frame = None
         /\ q.last = u.last /\ q.frames = u.frames /\ q.sections = u.sections
  BY <1>3, NextEpochHolds
<1> QED
  BY <1>1, <1>2, <1>3, <1>4 DEF Stock, Sections, u

-------------------------------------------------------------------------------
(* One ledger, and all that it may be told *)

PartialHands == UNION {[K -> Values \cup {None}] : K \in SUBSET Keys}

\* Hands and partial hands are functions on sets of keys.
LEMMA HandTypes ==
  /\ \A d \in PartialHands : DOMAIN d \subseteq Keys /\ d = [k \in DOMAIN d |-> d[k]]
                             /\ \A k \in DOMAIN d : d[k] \in Values \cup {None}
  /\ \A h \in Hands : DOMAIN h \subseteq Keys /\ h = [k \in DOMAIN h |-> h[k]] /\ \A k \in DOMAIN h : h[k] \in Values
  /\ \A K \in SUBSET Keys : [K -> Values] \subseteq Hands /\ [K -> Values \cup {None}] \subseteq PartialHands
BY DEF PartialHands, Hands

\* A reading has partial data, or all of it.
LEMMA HandOfferTypes ==
  /\ \A o \in HandOffers : /\ o = Offer(o.data, o.complete) /\ o.data \in PartialHands /\ o.complete \in BOOLEAN
                           /\ o.complete => o.data \in Hands
  /\ \A d \in PartialHands : Offer(d, FALSE) \in HandOffers
  /\ \A d \in Hands : Offer(d, TRUE) \in HandOffers
<1>1. Hands \subseteq PartialHands
  BY DEF Hands, PartialHands
<1>2. HandOffers = {Offer(d, FALSE) : d \in PartialHands} \cup {Offer(d, TRUE) : d \in Hands}
  BY DEF HandOffers, PartialHands
<1>3. ASSUME NEW o \in HandOffers
      PROVE  /\ o = Offer(o.data, o.complete) /\ o.data \in PartialHands /\ o.complete \in BOOLEAN
             /\ o.complete => o.data \in Hands
  <2>1. CASE \E d \in PartialHands : o = Offer(d, FALSE)
    BY <2>1 DEF Offer
  <2>2. CASE \E d \in Hands : o = Offer(d, TRUE)
    BY <1>1, <2>2 DEF Offer
  <2> QED
    BY <1>2, <2>1, <2>2
<1>4. (\A d \in PartialHands : Offer(d, FALSE) \in HandOffers) /\ (\A d \in Hands : Offer(d, TRUE) \in HandOffers)
  BY <1>2
<1> QED
  BY <1>3, <1>4

\* Some hand agrees with a reading.
LEMMA HandPossible ==
  ASSUME NEW o \in HandOffers
  PROVE  HandsOf(o) # {}
<1>1. PICK v \in Values : TRUE
  BY HistoryAssumption
<1> DEFINE h == [k \in DOMAIN o.data |-> IF o.data[k] = None THEN v ELSE o.data[k]]
<1>2. DOMAIN o.data \subseteq Keys /\ \A k \in DOMAIN o.data : o.data[k] \in Values \cup {None}
  BY HandTypes, HandOfferTypes
<1>3. h \in [DOMAIN o.data -> Values]
  BY <1>2
<1>4. h \in Hands
  BY <1>2, <1>3, HandTypes
<1>5. DOMAIN h = DOMAIN o.data /\ \A k \in DOMAIN o.data : o.data[k] \in {None, h[k]}
  OBVIOUS
<1> HIDE DEF h
<1>6. h \in HandsOf(o)
  BY <1>4, <1>5 DEF HandsOf
<1> QED
  BY <1>6

\* Readings that contradict each other have no hand in common; of others the
\* join admits the hands they have in common.
LEMMA HandsClash ==
  ASSUME NEW a \in HandOffers, NEW b \in HandOffers, EntriesClash(a.data, a.complete, b.data, b.complete)
  PROVE  HandsOf(a) \cap HandsOf(b) = {}
<1> SUFFICES ASSUME NEW h \in HandsOf(a), h \in HandsOf(b)
             PROVE  FALSE
  OBVIOUS
<1>1. /\ DOMAIN a.data \subseteq DOMAIN h /\ DOMAIN b.data \subseteq DOMAIN h
      /\ a.complete => DOMAIN h = DOMAIN a.data
      /\ b.complete => DOMAIN h = DOMAIN b.data
      /\ \A k \in DOMAIN a.data : a.data[k] \in {None, h[k]}
      /\ \A k \in DOMAIN b.data : b.data[k] \in {None, h[k]}
  BY DEF HandsOf
<1> QED
  BY <1>1 DEF EntriesClash

LEMMA HandsJoin ==
  ASSUME NEW a \in HandOffers, NEW b \in HandOffers, ~EntriesClash(a.data, a.complete, b.data, b.complete)
  PROVE  LET j == Offer(EntriesJoined(a.data, b.data), a.complete \/ b.complete)
         IN j \in HandOffers /\ HandsOf(a) \cap HandsOf(b) = HandsOf(j)
<1> DEFINE d == EntriesJoined(a.data, b.data)
           c == a.complete \/ b.complete
           j == Offer(d, c)
<1>1. /\ a.data \in PartialHands /\ b.data \in PartialHands
      /\ a.complete => a.data \in Hands
      /\ b.complete => b.data \in Hands
      /\ a.complete \in BOOLEAN /\ b.complete \in BOOLEAN
  BY HandOfferTypes
<1>2. /\ DOMAIN a.data \subseteq Keys /\ DOMAIN b.data \subseteq Keys
      /\ \A k \in DOMAIN a.data : a.data[k] \in Values \cup {None}
      /\ \A k \in DOMAIN b.data : b.data[k] \in Values \cup {None}
      /\ a.complete => \A k \in DOMAIN a.data : a.data[k] \in Values
      /\ b.complete => \A k \in DOMAIN b.data : b.data[k] \in Values
  BY <1>1, HandTypes
<1>3. /\ a.complete => DOMAIN b.data \subseteq DOMAIN a.data
      /\ b.complete => DOMAIN a.data \subseteq DOMAIN b.data
      /\ \A k \in DOMAIN a.data \cap DOMAIN b.data :
           None \in {a.data[k], b.data[k]} \/ a.data[k] = b.data[k]
  BY DEF EntriesClash
<1>4. /\ DOMAIN d = DOMAIN a.data \cup DOMAIN b.data
      /\ \A k \in DOMAIN d :
           d[k] = IF k \in DOMAIN a.data /\ a.data[k] # None THEN a.data[k]
                  ELSE IF k \in DOMAIN b.data THEN b.data[k] ELSE None
      /\ d = [k \in DOMAIN d |-> d[k]]
  BY DEF EntriesJoined
<1> HIDE DEF d
<1>5. j.data = d /\ j.complete = c
  BY DEF Offer
<1>6. ASSUME c PROVE j \in HandOffers
  <2>1. \A k \in DOMAIN d : d[k] \in Values
    BY <1>2, <1>3, <1>4, <1>6, HistoryAssumption
  <2>2. d \in [DOMAIN d -> Values] /\ DOMAIN d \in SUBSET Keys
    BY <1>2, <1>4, <2>1
  <2>3. d \in Hands
    BY <2>2, HandTypes
  <2>4. j = Offer(d, TRUE)
    BY <1>1, <1>6
  <2> QED
    BY <2>3, <2>4, HandOfferTypes
<1>7. ASSUME ~c PROVE j \in HandOffers
  <2>1. \A k \in DOMAIN d : d[k] \in Values \cup {None}
    BY <1>2, <1>4
  <2>2. d \in [DOMAIN d -> Values \cup {None}] /\ DOMAIN d \in SUBSET Keys
    BY <1>2, <1>4, <2>1
  <2>3. d \in PartialHands
    BY <2>2, HandTypes
  <2>4. j = Offer(d, FALSE)
    BY <1>1, <1>7
  <2> QED
    BY <2>3, <2>4, HandOfferTypes
<1>8. ASSUME NEW h \in Hands
      PROVE  h \in HandsOf(a) \cap HandsOf(b) <=> h \in HandsOf(j)
  <2>1. h \in HandsOf(a) <=> /\ DOMAIN a.data \subseteq DOMAIN h /\ (a.complete => DOMAIN h = DOMAIN a.data)
                             /\ \A k \in DOMAIN a.data : a.data[k] \in {None, h[k]}
    BY <1>8 DEF HandsOf
  <2>2. h \in HandsOf(b) <=> /\ DOMAIN b.data \subseteq DOMAIN h /\ (b.complete => DOMAIN h = DOMAIN b.data)
                             /\ \A k \in DOMAIN b.data : b.data[k] \in {None, h[k]}
    BY <1>8 DEF HandsOf
  <2>3. h \in HandsOf(j) <=> /\ DOMAIN d \subseteq DOMAIN h /\ (c => DOMAIN h = DOMAIN d)
                             /\ \A k \in DOMAIN d : d[k] \in {None, h[k]}
    BY <1>5, <1>8 DEF HandsOf
  <2>4. (\A k \in DOMAIN d : d[k] \in {None, h[k]}) <=>
          /\ \A k \in DOMAIN a.data : a.data[k] \in {None, h[k]}
          /\ \A k \in DOMAIN b.data : b.data[k] \in {None, h[k]}
    BY <1>3, <1>4
  <2>5. /\ DOMAIN d \subseteq DOMAIN h <=> DOMAIN a.data \subseteq DOMAIN h /\ DOMAIN b.data \subseteq DOMAIN h
        /\ a.complete => DOMAIN d = DOMAIN a.data
        /\ b.complete => DOMAIN d = DOMAIN b.data
    BY <1>3, <1>4
  <2> QED
    BY <2>1, <2>2, <2>3, <2>4, <2>5
<1>9. HandsOf(a) \subseteq Hands /\ HandsOf(j) \subseteq Hands
  BY DEF HandsOf
<1>10. HandsOf(a) \cap HandsOf(b) = HandsOf(j)
  BY <1>8, <1>9
<1> QED
  BY <1>6, <1>7, <1>10 DEF d

\* A section says exactly which hands are possible.
ExactHand(s, h) ==
  /\ s.status \in {"missing", "stale", "conflict", "partial", "current"}
  /\ ~Current(s) => s.data = None
  /\ Current(s) => /\ Offer(s.data, Complete(s)) \in HandOffers
                   /\ h = HandsOf(Offer(s.data, Complete(s)))
  /\ s.status = "conflict" => h = {}
  /\ s.status \in {"missing", "stale"} => h = Hands

\* Taking a reading keeps the section exact.
LEMMA HandTaken ==
  ASSUME NEW s, NEW h, ExactHand(s, h), NEW o \in HandOffers
  PROVE  ExactHand(Taken("hand", s, o), h \cap HandsOf(o))
<1>1. o = Offer(o.data, o.complete) /\ o.complete \in BOOLEAN /\ HandsOf(o) \subseteq Hands
  BY HandOfferTypes DEF HandsOf
<1>2. CASE s.status = "conflict"
  BY <1>2 DEF Taken, ExactHand, Current
<1>3. CASE ~Current(s) /\ s.status # "conflict"
  <2> DEFINE t == Section(o.complete, o.data)
  <2>1. Taken("hand", s, o) = t /\ h = Hands
    BY <1>3 DEF Taken, ExactHand, Current
  <2>2. t.status \in {"partial", "current"} /\ t.data = o.data /\ (Complete(t) <=> o.complete)
    BY DEF Section, Complete
  <2> HIDE DEF t
  <2>3. Offer(t.data, Complete(t)) = o
    BY <1>1, <2>2 DEF Complete
  <2> QED
    BY <1>1, <2>1, <2>2, <2>3 DEF ExactHand, Current
<1>4. CASE Current(s)
  <2> DEFINE a == Offer(s.data, Complete(s))
  <2>1. a \in HandOffers /\ h = HandsOf(a) /\ a.data = s.data /\ a.complete = Complete(s)
    BY <1>4 DEF ExactHand, Offer
  <2> HIDE DEF a
  <2>2. Clash("hand", s, o) <=> EntriesClash(a.data, a.complete, o.data, o.complete)
    BY <2>1 DEF Clash
  <2>3. CASE Clash("hand", s, o)
    <3>1. Taken("hand", s, o) = Blank("conflict")
      BY <1>4, <2>3 DEF Taken, Current
    <3>2. h \cap HandsOf(o) = {}
      BY <2>1, <2>2, <2>3, HandsClash
    <3> QED
      BY <3>1, <3>2 DEF ExactHand, Blank, Current
  <2>4. CASE ~Clash("hand", s, o)
    <3> DEFINE d == EntriesJoined(a.data, o.data)
               c == a.complete \/ o.complete
               t == Section(c, d)
    <3>1. Taken("hand", s, o) = t
      BY <1>4, <2>1, <2>4 DEF Taken, Current, Joined
    <3>2. Offer(d, c) \in HandOffers /\ h \cap HandsOf(o) = HandsOf(Offer(d, c))
      BY <2>1, <2>2, <2>4, HandsJoin
    <3>3. t.status \in {"partial", "current"} /\ t.data = d /\ (Complete(t) <=> c) /\ c \in BOOLEAN
      BY DEF Section, Complete
    <3> HIDE DEF c, d, t
    <3>4. Offer(t.data, Complete(t)) = Offer(d, c)
      BY <3>3 DEF Complete
    <3> QED
      BY <3>1, <3>2, <3>3, <3>4 DEF ExactHand, Current
  <2> QED
    BY <2>3, <2>4
<1> QED
  BY <1>2, <1>3, <1>4

Possible(f, c) == {x \in Foci : x = f \/ (~c /\ f = None)}

\* A section says exactly which focus is possible, unless it is in conflict.
ExactFocus(s, f) ==
  /\ s.status \in {"missing", "stale", "conflict", "partial", "current"}
  /\ ~Current(s) => s.data = None
  /\ Current(s) => s.data \in Foci /\ f = Possible(s.data, Complete(s))
  /\ s.status \in {"missing", "stale"} => f = Foci

\* Taking a reading of the focus keeps the section exact.
LEMMA FocusTaken ==
  ASSUME NEW s, NEW f, ExactFocus(s, f), NEW o \in FocusOffers
  PROVE  ExactFocus(Taken("ui", s, o), f \cap FociOf(o))
<1>1. o.data \in Foci /\ o.complete \in BOOLEAN /\ FociOf(o) = Possible(o.data, o.complete)
  BY DEF FocusOffers, Offer, FociOf, Possible
<1>2. CASE s.status = "conflict"
  BY <1>2 DEF Taken, ExactFocus, Current
<1>3. CASE ~Current(s) /\ s.status # "conflict"
  <2> DEFINE t == Section(o.complete, o.data)
  <2>1. Taken("ui", s, o) = t /\ f = Foci
    BY <1>3 DEF Taken, ExactFocus, Current
  <2>2. t.status \in {"partial", "current"} /\ t.data = o.data /\ (Complete(t) <=> o.complete)
    BY DEF Section, Complete
  <2> HIDE DEF t
  <2> QED
    BY <1>1, <2>1, <2>2 DEF ExactFocus, Current, Possible
<1>4. CASE Current(s)
  <2>1. CASE Clash("ui", s, o)
    <3>1. Taken("ui", s, o) = Blank("conflict")
      BY <1>4, <2>1 DEF Taken, Current
    <3> QED
      BY <3>1 DEF ExactFocus, Blank, Current
  <2>2. CASE ~Clash("ui", s, o)
    <3> DEFINE d == IF s.data = None THEN o.data ELSE s.data
               c == Complete(s) \/ o.complete
               t == Section(c, d)
    <3>1. Taken("ui", s, o) = t
      BY <1>4, <2>2 DEF Taken, Current, Joined
    <3>2. t.status \in {"partial", "current"} /\ t.data = d /\ (Complete(t) <=> c)
      BY DEF Section, Complete
    <3>3. ~FocusClash(s.data, Complete(s), o.data, o.complete)
      BY <2>2 DEF Clash
    <3>4. s.data \in Foci /\ f = Possible(s.data, Complete(s))
      BY <1>4 DEF ExactFocus
    <3>5. d \in Foci /\ f \cap FociOf(o) = Possible(d, c)
      BY <1>1, <3>3, <3>4 DEF FocusClash, Possible
    <3> HIDE DEF c, d, t
    <3>6. Possible(d, c) = Possible(t.data, Complete(t))
      BY <3>2 DEF Possible
    <3> QED
      BY <3>1, <3>2, <3>5, <3>6 DEF ExactFocus, Current
  <2> QED
    BY <2>1, <2>2
<1> QED
  BY <1>2, <1>3, <1>4

Admitted(items, c) == {s \in Stocks : items \subseteq s /\ (c => s = items)}

\* A section says exactly what may be owned.
ExactStock(s, st) ==
  /\ s.status \in {"missing", "stale", "conflict", "partial", "current"}
  /\ ~Current(s) => s.data = None
  /\ Current(s) => s.data \in Stocks /\ st = Admitted(s.data, Complete(s))
  /\ s.status = "conflict" => st = {}
  /\ s.status \in {"missing", "stale"} => st = Stocks

\* Merging a baseline keeps the section exact.
LEMMA StockTaken ==
  ASSUME NEW s, NEW st, ExactStock(s, st), s.status # "conflict",
         NEW r, r.items \in Stocks, r.complete \in BOOLEAN
  PROVE  ExactStock(StockMerged(s, r), st \cap StocksOf(r))
<1>1. StocksOf(r) = Admitted(r.items, r.complete)
  BY DEF StocksOf, Admitted
<1>2. CASE ~Current(s)
  <2> DEFINE t == Section(r.complete, r.items)
  <2>1. StockMerged(s, r) = t /\ st = Stocks
    BY <1>2 DEF StockMerged, ExactStock, Current
  <2>2. t.status \in {"partial", "current"} /\ t.data = r.items /\ (Complete(t) <=> r.complete)
    BY DEF Section, Complete
  <2> HIDE DEF t
  <2> QED
    BY <1>1, <2>1, <2>2 DEF ExactStock, Current, Admitted
<1>3. CASE Current(s)
  <2>1. s.data \in Stocks /\ st = Admitted(s.data, Complete(s))
    BY <1>3 DEF ExactStock
  <2> DEFINE lost == \/ Complete(s) /\ ~(r.items \subseteq s.data)
                     \/ r.complete /\ ~(s.data \subseteq r.items)
  <2>2. CASE lost
    <3>1. StockMerged(s, r) = Blank("conflict")
      BY <1>3, <2>2 DEF StockMerged
    <3>2. st \cap StocksOf(r) = {}
      BY <1>1, <2>1, <2>2 DEF Admitted
    <3> QED
      BY <3>1, <3>2 DEF ExactStock, Blank, Current
  <2>3. CASE ~lost
    <3> DEFINE d == s.data \cup r.items
               c == Complete(s) \/ r.complete
               t == Section(c, d)
    <3>1. StockMerged(s, r) = t
      BY <1>3, <2>3 DEF StockMerged
    <3>2. t.status \in {"partial", "current"} /\ t.data = d /\ (Complete(t) <=> c)
      BY DEF Section, Complete
    <3>3. d \in Stocks
      BY <2>1 DEF Stocks
    <3>4. st \cap StocksOf(r) = Admitted(d, c)
      <4>1. ASSUME NEW x \in Stocks
            PROVE  (s.data \subseteq x /\ (Complete(s) => x = s.data))
                     /\ (r.items \subseteq x /\ (r.complete => x = r.items))
                     <=> d \subseteq x /\ (c => x = d)
        <5>1. CASE Complete(s)
          BY <2>3, <5>1
        <5>2. CASE ~Complete(s) /\ r.complete
          BY <2>3, <5>2
        <5>3. CASE ~Complete(s) /\ ~r.complete
          BY <5>3
        <5> QED
          BY <5>1, <5>2, <5>3
      <4> QED
        BY <1>1, <2>1, <4>1 DEF Admitted
    <3> HIDE DEF c, d, t
    <3>5. Admitted(d, c) = Admitted(t.data, Complete(t))
      BY <3>2 DEF Admitted
    <3> QED
      BY <3>1, <3>2, <3>3, <3>4, <3>5 DEF ExactStock, Current
  <2> QED
    BY <2>2, <2>3
<1> QED
  BY <1>2, <1>3

\* The parts of a ledger beside its sections.
HeadOK(l) ==
  /\ l.context \in Contexts /\ l.epoch \in 0..MaxEpoch
  /\ l.frame \in FrameRecords \cup {None}
  /\ l.last \in 0..MaxTime /\ l.frames \subseteq Frames

\* The focus is one of a hand that is completely known.
FocusInHand(u, h) == Current(u) /\ Complete(h) => u.data \in DOMAIN h.data \cup {None}

HistoryInv ==
  /\ IsLedger(ledger) /\ HeadOK(ledger)
  /\ ExactHand(Sec("hand"), hands) /\ ExactFocus(Sec("ui"), foci) /\ ExactStock(Sec("inventory"), stocks)
  /\ FocusInHand(Sec("ui"), Sec("hand"))

\* A section without data admits everything.
LEMMA BlankExact ==
  ASSUME NEW st \in {"missing", "stale"}
  PROVE  /\ ExactHand(Blank(st), Hands) /\ ExactFocus(Blank(st), Foci) /\ ExactStock(Blank(st), Stocks)
         /\ ~Current(Blank(st))
BY DEF ExactHand, ExactFocus, ExactStock, Blank, Current

\* The new ledger knows nothing.
LEMMA HistoryInit ==
  ASSUME InitHistory
  PROVE  HistoryInv
<1>1. /\ ledger = NewLedger(Start) /\ hands = Hands /\ foci = Foci /\ stocks = Stocks
  BY DEF InitHistory
<1>2. IsLedger(ledger) /\ HeadOK(ledger)
  BY <1>1, HistoryAssumption DEF NewLedger, IsLedger, HeadOK
<1>3. \A n \in Sections : Sec(n) = Blank("missing")
  BY <1>1 DEF NewLedger, Sec
<1>4. Sec("hand") = Blank("missing") /\ Sec("ui") = Blank("missing") /\ Sec("inventory") = Blank("missing")
  BY <1>3 DEF Sections, Volatile
<1> QED
  BY <1>1, <1>2, <1>4, BlankExact DEF HistoryInv, FocusInHand

\* What an observation may offer.
LEMMA OfferTypes ==
  ASSUME NEW o \in Offers
  PROVE  /\ DOMAIN o \subseteq Volatile
         /\ "hand" \in DOMAIN o => o["hand"] \in HandOffers
         /\ "ui" \in DOMAIN o => o["ui"] \in FocusOffers
<1>1. CASE o \in [{"hand"} -> HandOffers]
  BY <1>1 DEF Volatile
<1>2. CASE o \in [{"ui"} -> FocusOffers]
  BY <1>2 DEF Volatile
<1>3. CASE \E h \in HandOffers, f \in FocusOffers : o = [n \in Volatile |-> IF n = "hand" THEN h ELSE f]
  BY <1>3 DEF Volatile
<1> QED
  BY <1>1, <1>2, <1>3 DEF Offers

\* An observation: carried sections stay exact, offers are taken.
LEMMA ObserveExact ==
  ASSUME HistoryInv, ObserveStep
  PROVE  HistoryInv'
<1>1. PICK f \in FrameRecords, q \in Frames \cup {None}, e \in {ledger.epoch, ledger.epoch - 1} \cap Nat, o \in Offers :
        LET head == [context |-> ledger.context, epoch |-> e, frame |-> f, continuity |-> q, sections |-> <<>>]
            p == [head EXCEPT !.sections = o]
        IN ledger' = Observe(ledger, p) /\ Told(p)
  BY DEF ObserveStep
<1> DEFINE head == [context |-> ledger.context, epoch |-> e, frame |-> f, continuity |-> q, sections |-> <<>>]
           p == [head EXCEPT !.sections = o]
<1>2. ledger' = Observe(ledger, p) /\ Told(p) /\ p.frame = f /\ p.continuity = q /\ p.sections = o
  BY <1>1
<1> HIDE DEF p
<1>3. /\ IsLedger(ledger') /\ ledger'.context = ledger.context /\ ledger'.epoch = ledger.epoch /\ ledger'.frame = f
      /\ ledger'.last = f.at /\ ledger'.frames = ledger.frames \cup {f.id}
      /\ \A n \in Sections : ledger'.sections[n] =
           IF n = "ui" /\ FocusLost(ledger, p) THEN Blank("conflict") ELSE Merged(ledger, p, n)
  BY <1>2, ObserveHolds DEF HistoryInv
<1>4. HeadOK(ledger')
  <2>1. f.at \in 0..MaxTime /\ f.id \in Frames
    BY HistoryAssumption DEF FrameRecords
  <2> QED
    BY <1>3, <2>1 DEF HistoryInv, HeadOK
<1>5. /\ Sec("hand")' = Merged(ledger, p, "hand") /\ Sec("inventory")' = Merged(ledger, p, "inventory")
      /\ Sec("ui")' = IF FocusLost(ledger, p) THEN Blank("conflict") ELSE Merged(ledger, p, "ui")
  BY <1>3 DEF Sec, Sections, Volatile
<1> DEFINE new == NewFrame(ledger, p)
           h == IF new /\ q = None THEN Hands ELSE hands
           g == IF new THEN Foci ELSE foci
<1>6. /\ hands' = (IF "hand" \in DOMAIN o THEN h \cap HandsOf(o["hand"]) ELSE h)
      /\ foci' = (IF "ui" \in DOMAIN o THEN g \cap FociOf(o["ui"]) ELSE g)
      /\ stocks' = IF new /\ q = None THEN Stocks ELSE stocks
  BY <1>2 DEF Told
<1>7. /\ ExactHand(Carries(ledger, p, "hand"), h) /\ ExactFocus(Carries(ledger, p, "ui"), g)
      /\ ExactStock(Carries(ledger, p, "inventory"), stocks')
  BY <1>2, <1>6, BlankExact DEF Carries, HistoryInv, Sec
<1> HIDE DEF h, g, new
<1>8. ExactHand(Merged(ledger, p, "hand"), hands')
  <2>1. CASE "hand" \in DOMAIN o
    BY <1>2, <1>6, <1>7, <2>1, OfferTypes, HandTaken DEF Merged
  <2>2. CASE "hand" \notin DOMAIN o
    BY <1>2, <1>6, <1>7, <2>2 DEF Merged
  <2> QED
    BY <2>1, <2>2
<1>9. ExactFocus(Merged(ledger, p, "ui"), foci')
  <2>1. CASE "ui" \in DOMAIN o
    BY <1>2, <1>6, <1>7, <2>1, OfferTypes, FocusTaken DEF Merged
  <2>2. CASE "ui" \notin DOMAIN o
    BY <1>2, <1>6, <1>7, <2>2 DEF Merged
  <2> QED
    BY <2>1, <2>2
<1>10. Merged(ledger, p, "inventory") = Carries(ledger, p, "inventory")
  BY <1>2, OfferTypes DEF Merged, Volatile
<1>11. ExactFocus(Sec("ui")', foci') /\ FocusInHand(Sec("ui")', Sec("hand")')
  <2>1. CASE FocusLost(ledger, p)
    BY <1>5, <2>1 DEF ExactFocus, FocusInHand, Blank, Current
  <2>2. CASE ~FocusLost(ledger, p)
    BY <1>5, <1>9, <2>2 DEF FocusLost, FocusInHand
  <2> QED
    BY <2>1, <2>2
<1>12. ExactHand(Sec("hand")', hands') /\ ExactStock(Sec("inventory")', stocks')
  BY <1>5, <1>7, <1>8, <1>10
<1> QED
  BY <1>3, <1>4, <1>11, <1>12 DEF HistoryInv, IsLedger, HeadOK, ExactHand, ExactFocus, ExactStock, FocusInHand, Sec

\* What ends what is known of the hand and the focus, and of what is owned.
LEMMA EndedExact ==
  ASSUME IsLedger(ledger'), HeadOK(ledger'), \A n \in Volatile : ledger'.sections[n] = Blank("stale"),
         hands' = Hands, foci' = Foci, ExactStock(Stock(ledger'), stocks')
  PROVE  HistoryInv'
<1>1. Sec("hand")' = Blank("stale") /\ Sec("ui")' = Blank("stale") /\ Sec("inventory")' = Stock(ledger')
  BY DEF Sec, Stock, Volatile
<1>2. /\ ExactHand(Sec("hand")', hands') /\ ExactFocus(Sec("ui")', foci') /\ ~Current(Sec("ui")')
      /\ ExactStock(Sec("inventory")', stocks')
  BY <1>1, BlankExact
<1> QED
  BY <1>2 DEF HistoryInv, IsLedger, HeadOK, ExactHand, ExactFocus, ExactStock, FocusInHand, Sec

\* An invalidation: nothing volatile is known any more.
LEMMA InvalidateExact ==
  ASSUME HistoryInv, InvalidateStep
  PROVE  HistoryInv'
<1>1. PICK kind \in {"input", "unknown_input", "inventory_change"} :
        /\ ledger.epoch < MaxEpoch /\ ledger' = Invalidate(ledger, kind)
        /\ hands' = Hands /\ foci' = Foci
        /\ stocks' = IF kind = "input" THEN stocks ELSE Stocks
  BY DEF InvalidateStep
<1>2. /\ IsLedger(ledger') /\ ledger'.context = ledger.context /\ ledger'.epoch = ledger.epoch + 1
      /\ ledger'.frame = None /\ ledger'.last = ledger.last /\ ledger'.frames = ledger.frames
      /\ \A n \in Volatile : ledger'.sections[n] = Blank("stale")
      /\ Stock(ledger') = IF kind = "input" THEN Stock(ledger) ELSE Blank("stale")
  BY <1>1, InvalidateHolds DEF HistoryInv
<1>3. HeadOK(ledger')
  BY <1>1, <1>2, HistoryAssumption DEF HistoryInv, HeadOK
<1>4. ExactStock(Stock(ledger'), stocks')
  BY <1>1, <1>2, BlankExact DEF HistoryInv, Sec, Stock
<1> QED
  BY <1>1, <1>2, <1>3, <1>4, EndedExact

\* A change of context: likewise, and of another run nothing is owned yet.
LEMMA ContextExact ==
  ASSUME HistoryInv, ContextStep
  PROVE  HistoryInv'
<1>1. PICK c \in Contexts :
        /\ ledger.epoch < MaxEpoch /\ ledger' = ChangeContext(ledger, c)
        /\ hands' = Hands /\ foci' = Foci
        /\ stocks' = IF c.run = ledger.context.run THEN stocks ELSE Stocks
  BY DEF ContextStep
<1>2. /\ IsLedger(ledger') /\ ledger'.context = c /\ ledger'.epoch = ledger.epoch + 1
      /\ ledger'.frame = None /\ ledger'.last = (IF c.run = ledger.context.run THEN ledger.last ELSE 0)
      /\ ledger'.frames = ledger.frames
      /\ \A n \in Volatile : ledger'.sections[n] = Blank("stale")
      /\ Stock(ledger') = IF c.run = ledger.context.run THEN Stock(ledger) ELSE Blank("stale")
  <2>1. IsLedger(ledger) /\ ledger' = ChangeContext(ledger, c)
    BY <1>1 DEF HistoryInv
  <2>2. Moved(ledger, c, ledger')
    BY <2>1, ChangeContextHolds
  <2> QED
    BY <2>2 DEF Moved
<1>3. HeadOK(ledger')
  BY <1>1, <1>2, HistoryAssumption DEF HistoryInv, HeadOK
<1>4. ExactStock(Stock(ledger'), stocks')
  BY <1>1, <1>2, BlankExact DEF HistoryInv, Sec, Stock
<1> QED
  BY <1>1, <1>2, <1>3, <1>4, EndedExact

\* A receipt: a baseline is merged, a transition replaces.
LEMMA InventoryExact ==
  ASSUME HistoryInv, InventoryStep
  PROVE  HistoryInv'
<1>1. PICK kind \in {"baseline", "verified_transition"}, items \in Stocks, c \in BOOLEAN, prior \in Stocks \cup {None} :
        LET r == [context |-> ledger.context, epoch |-> ledger.epoch, frame |-> ledger.frame,
                  kind |-> kind, items |-> items, complete |-> c, prior |-> prior] IN
        /\ MayRecord(ledger, r)
        /\ kind = "verified_transition" => ledger.epoch < MaxEpoch
        /\ ledger' = RecordInventory(ledger, r)
        /\ IF kind = "baseline"
           THEN stocks' = stocks \cap StocksOf(r) /\ UNCHANGED <<hands, foci>>
           ELSE stocks' = StocksOf(r) /\ hands' = Hands /\ foci' = Foci
  BY DEF InventoryStep
<1> DEFINE r == [context |-> ledger.context, epoch |-> ledger.epoch, frame |-> ledger.frame,
                 kind |-> kind, items |-> items, complete |-> c, prior |-> prior]
<1>2. /\ Stock(ledger).status # "conflict" /\ ledger' = RecordInventory(ledger, r)
      /\ r.kind = kind /\ r.items = items /\ r.complete = c
      /\ kind = "verified_transition" => ledger.epoch < MaxEpoch
      /\ IF kind = "baseline"
         THEN stocks' = stocks \cap StocksOf(r) /\ UNCHANGED <<hands, foci>>
         ELSE stocks' = StocksOf(r) /\ hands' = Hands /\ foci' = Foci
  BY <1>1 DEF MayRecord
<1> HIDE DEF r
<1>3. CASE kind = "baseline"
  <2>1. /\ IsLedger(ledger') /\ ledger'.context = ledger.context /\ ledger'.epoch = ledger.epoch
        /\ ledger'.frame = ledger.frame /\ ledger'.last = ledger.last /\ ledger'.frames = ledger.frames
        /\ \A n \in Volatile : ledger'.sections[n] = ledger.sections[n]
        /\ Stock(ledger') = StockMerged(Stock(ledger), r)
    BY <1>2, <1>3, BaselineHolds DEF HistoryInv
  <2>2. ExactStock(Stock(ledger'), stocks')
    <3>1. ExactStock(Stock(ledger), stocks)
      BY DEF HistoryInv, Sec, Stock
    <3> QED
      BY <1>2, <1>3, <2>1, <3>1, StockTaken
  <2>3. HeadOK(ledger')
    BY <2>1 DEF HistoryInv, HeadOK
  <2>4. /\ Sec("hand")' = Sec("hand") /\ Sec("ui")' = Sec("ui") /\ Sec("inventory")' = Stock(ledger')
        /\ hands' = hands /\ foci' = foci
    BY <1>2, <1>3, <2>1 DEF Sec, Stock, Volatile
  <2>5. /\ ExactHand(Sec("hand")', hands') /\ ExactFocus(Sec("ui")', foci') /\ ExactStock(Sec("inventory")', stocks')
        /\ FocusInHand(Sec("ui")', Sec("hand")')
    BY <2>2, <2>4 DEF HistoryInv
  <2> QED
    BY <2>1, <2>3, <2>5 DEF HistoryInv, IsLedger, HeadOK, ExactHand, ExactFocus, ExactStock, FocusInHand, Sec
<1>4. CASE kind = "verified_transition"
  <2>1. r.kind # "baseline"
    BY <1>2, <1>4
  <2>2. /\ IsLedger(ledger') /\ ledger'.context = ledger.context /\ ledger'.epoch = ledger.epoch + 1
        /\ ledger'.frame = None /\ ledger'.last = ledger.last /\ ledger'.frames = ledger.frames
        /\ \A n \in Volatile : ledger'.sections[n] = Blank("stale")
        /\ Stock(ledger') = Section(r.complete, r.items)
    BY <1>2, <2>1, TransitionHolds DEF HistoryInv
  <2>3. ExactStock(Stock(ledger'), stocks')
    <3>1. stocks' = Admitted(items, c)
      BY <1>2, <1>4 DEF StocksOf, Admitted
    <3>2. Stock(ledger').data = items /\ (Complete(Stock(ledger')) <=> c) /\ Current(Stock(ledger'))
          /\ Stock(ledger').status \in {"partial", "current"}
      BY <1>2, <2>2 DEF Section, Complete, Current
    <3> QED
      BY <3>1, <3>2 DEF ExactStock, Admitted
  <2>4. HeadOK(ledger')
    BY <1>2, <1>4, <2>2, HistoryAssumption DEF HistoryInv, HeadOK
  <2> QED
    BY <1>2, <1>4, <2>2, <2>3, <2>4, EndedExact
<1> QED
  BY <1>3, <1>4

\* The ledger has its fields, and each section says exactly what is possible.
THEOREM HistoryInvariant == HistorySpec => []HistoryInv
<1>1. InitHistory => HistoryInv
  BY HistoryInit
<1>2. HistoryInv /\ [NextHistory]_historyVars => HistoryInv'
  <2> SUFFICES ASSUME HistoryInv, [NextHistory]_historyVars
               PROVE  HistoryInv'
    OBVIOUS
  <2>1. CASE UNCHANGED historyVars
    BY <2>1 DEF historyVars, HistoryInv, IsLedger, HeadOK, ExactHand, ExactFocus, ExactStock, FocusInHand, Sec
  <2> QED
    BY <2>1, ObserveExact, InvalidateExact, ContextExact, InventoryExact DEF NextHistory
<1> QED
  BY <1>1, <1>2, PTL DEF HistorySpec

\* Of the hand, the focus and what is owned the ledger knows exactly what agrees
\* with everything offered (Observe, Invalidate, ChangeContext, RecordInventory):
\* nothing that was not read, nothing older than what ended it, and it is in
\* conflict exactly when no hand or inventory agrees.
THEOREM KnownStaysExact == HistorySpec => []KnownIsExact
<1>1. ASSUME HistoryInv
      PROVE  HistoryTypeOK
  <2>1. ExactHand(Sec("hand"), hands) /\ ExactFocus(Sec("ui"), foci) /\ ExactStock(Sec("inventory"), stocks)
    BY <1>1 DEF HistoryInv
  <2>2. \A n \in Sections : /\ Sec(n).status \in {"missing", "stale", "conflict", "partial", "current"}
                            /\ ~Current(Sec(n)) => Sec(n).data = None
    BY <2>1 DEF ExactHand, ExactFocus, ExactStock, Sections, Volatile
  <2>3. /\ Current(Sec("hand")) => Offer(Sec("hand").data, Complete(Sec("hand"))) \in HandOffers
        /\ Current(Sec("ui")) => Sec("ui").data \in Foci
        /\ Current(Sec("inventory")) => Sec("inventory").data \in Stocks
    BY <2>1 DEF ExactHand, ExactFocus, ExactStock
  <2> QED
    BY <1>1, <2>2, <2>3 DEF HistoryInv, HeadOK, HistoryTypeOK
<1>2. ASSUME HistoryInv
      PROVE  HandIsExact
  <2> DEFINE s == Sec("hand")
  <2>1. ExactHand(s, hands)
    BY <1>2 DEF HistoryInv
  <2> HIDE DEF s
  <2>2. Current(s) => hands # {} /\ hands = HandsOf(Offer(s.data, Complete(s)))
    BY <2>1, HandPossible DEF ExactHand
  <2>3. s.status = "conflict" => ~Current(s) /\ hands = {}
    BY <2>1 DEF ExactHand, Current
  <2>4. ~Current(s) /\ s.status # "conflict" => hands = Hands
    BY <2>1 DEF ExactHand, Current
  <2> QED
    BY <2>2, <2>3, <2>4 DEF HandIsExact, s
<1>3. ASSUME HistoryInv
      PROVE  StockIsExact
  <2> DEFINE s == Sec("inventory")
             r == [items |-> s.data, complete |-> Complete(s)]
  <2>1. ExactStock(s, stocks)
    BY <1>3 DEF HistoryInv
  <2> HIDE DEF s
  <2>2. Current(s) => stocks # {} /\ stocks = StocksOf(r)
    <3>1. StocksOf(r) = Admitted(s.data, Complete(s))
      BY DEF StocksOf, Admitted
    <3>2. s.data \in Stocks => s.data \in Admitted(s.data, Complete(s))
      BY DEF Admitted
    <3> QED
      BY <2>1, <3>1, <3>2 DEF ExactStock
  <2>3. s.status = "conflict" => ~Current(s) /\ stocks = {}
    BY <2>1 DEF ExactStock, Current
  <2>4. ~Current(s) /\ s.status # "conflict" => stocks = Stocks
    BY <2>1 DEF ExactStock, Current
  <2> QED
    BY <2>2, <2>3, <2>4 DEF StockIsExact, s
<1>4. ASSUME HistoryInv
      PROVE  FocusIsReal
  <2> DEFINE s == Sec("ui")
  <2>1. ExactFocus(s, foci) /\ FocusInHand(s, Sec("hand"))
    BY <1>4 DEF HistoryInv
  <2> HIDE DEF s
  <2>2. Current(s) => foci # {} /\ foci = FociOf(Offer(s.data, Complete(s)))
    <3>1. FociOf(Offer(s.data, Complete(s))) = Possible(s.data, Complete(s))
      BY DEF FociOf, Offer, Possible
    <3>2. s.data \in Foci => s.data \in Possible(s.data, Complete(s))
      BY DEF Possible
    <3> QED
      BY <2>1, <3>1, <3>2 DEF ExactFocus
  <2> QED
    BY <2>1, <2>2 DEF FocusIsReal, FocusInHand, s
<1>5. HistoryInv => KnownIsExact
  BY <1>1, <1>2, <1>3, <1>4 DEF KnownIsExact
<1> QED
  BY <1>5, HistoryInvariant, PTL
-------------------------------------------------------------------------------
(* The session *)

IsFile(m) ==
  /\ m = [ledger |-> m.ledger, pending |-> m.pending, last |-> m.last, receipts |-> m.receipts,
          sources |-> m.sources, done |-> m.done]
  /\ IsLedger(m.ledger)

\* An action was reported as performed, and its outcome was not reviewed yet.
Awaits(m) == m.last # None /\ m.last.status = "user_reported" /\ ~m.last.verified

\* The frame of the ledger is an image of its epoch and context.
FrameBound(m) ==
  m.ledger.frame # None =>
    /\ m.ledger.frame.id \in DOMAIN album
    /\ album[m.ledger.frame.id].epoch = m.ledger.epoch /\ album[m.ledger.frame.id].context = m.ledger.context

\* A pending recommendation belongs to that frame, and the last one is reviewed.
PendingBound(m) ==
  m.pending # None =>
    /\ m.pending.epoch = m.ledger.epoch /\ m.pending.context = m.ledger.context /\ m.pending.frame = m.ledger.frame
    /\ ~Awaits(m)

\* Images of the present epoch were captured after the reported action.
ActionBefore(m) ==
  m.last # None /\ m.last.status = "user_reported" =>
    LET before == album[m.last.frame.id].inputs IN
    /\ m.last.frame.id \in DOMAIN album /\ before < game.inputs
    /\ \A i \in DOMAIN album : album[i].epoch = m.ledger.epoch => before < album[i].inputs
    /\ m.last.verified => m.last.after \in DOMAIN album /\ before < album[m.last.after].inputs

\* What was answered is kept, and counted once.
Receipted(m) ==
  /\ 1..(asked - 1) \subseteq m.receipts
  /\ \A i \in Ids : m.done[i] = IF i \in m.receipts THEN 1 ELSE 0

SourcesWhole(m) == \A i \in m.sources : files[i] = "whole"

FileInv(m) ==
  /\ IsFile(m) /\ FrameBound(m) /\ PendingBound(m) /\ ActionBefore(m) /\ Receipted(m) /\ SourcesWhole(m)

\* Memory and file differ only after a failed save, and images are of no later
\* epoch than either.
InStep ==
  /\ ~poisoned => mem = disk
  /\ mem.ledger.epoch <= disk.ledger.epoch
  /\ \A i \in DOMAIN album : album[i].epoch <= mem.ledger.epoch /\ album[i].inputs <= game.inputs

\* What the player holds or has followed is pending, ...
Followed ==
  /\ held # None => mem.pending = held /\ "advised" \notin owed
  /\ "advised" \in owed => mem.pending # None /\ album[mem.pending.frame.id].inputs < game.inputs
  /\ unseen # {} => "advised" \in owed \/ Awaits(mem)

\* ... images that may be used show the game as it is, ...
ImagesCurrent ==
  owed = {} =>
    \A i \in DOMAIN album :
      album[i].epoch = mem.ledger.epoch /\ album[i].context = mem.ledger.context =>
        album[i].inputs = game.inputs /\ album[i].owned = game.owned

\* ... and so do the facts; a card that was played changes nothing owned.
HandCurrent ==
  owed = {} /\ Current(mem.ledger.sections["hand"]) =>
    \A k \in DOMAIN mem.ledger.sections["hand"].data : mem.ledger.sections["hand"].data[k] = game.inputs

StockCurrent ==
  Current(Stock(mem.ledger)) /\ (owed = {} \/ (owed = {"advised"} /\ mem.pending.kind # "potion")) =>
    Stock(mem.ledger).data = {game.owned}

SessionInv ==
  /\ TypeOK /\ FileInv(mem) /\ FileInv(disk) /\ InStep /\ AdviceOnRecord
  /\ Trusted => Followed /\ ImagesCurrent /\ HandCurrent /\ StockCurrent

\* What a session has whether it may be trusted or not.
Kept == TypeOK /\ FileInv(mem) /\ FileInv(disk) /\ InStep

TrustedInv == Trusted => Followed /\ ImagesCurrent /\ HandCurrent /\ StockCurrent

\* The images and the game stand still, and whole copies stay whole.
Still ==
  /\ UNCHANGED <<album, game>>
  /\ files' \in [Images -> {"none", "partial", "whole"}]
  /\ \A i \in Images : files[i] = "whole" => files'[i] = "whole"

\* What stands still keeps a file in order.
LEMMA FileStays ==
  ASSUME NEW m, FileTypeOK(m), FileInv(m), Still, asked' = asked
  PROVE  FileInv(m)'
<1>1. /\ IsFile(m) /\ FrameBound(m)' /\ PendingBound(m) /\ ActionBefore(m)' /\ Receipted(m)'
  BY DEF FileInv, FrameBound, ActionBefore, Receipted, Still
<1>2. SourcesWhole(m)'
  BY DEF FileInv, SourcesWhole, Still, FileTypeOK
<1> QED
  BY <1>1, <1>2 DEF FileInv

Snapshots == [inputs : Nat, owned : Nat, epoch : Nat, context : TurnContexts]

\* Images are snapshots, numbered from 1.
LEMMA AlbumTyped ==
  ASSUME TypeOK
  PROVE  /\ album \in Seq(Snapshots) /\ Len(album) \in Nat /\ DOMAIN album = 1..Len(album)
         /\ DOMAIN album \subseteq Images
         /\ \A i \in DOMAIN album : album[i] \in Snapshots /\ album[i].inputs \in Nat /\ album[i].epoch \in Nat
<1>1. album \in Seq(Snapshots) /\ Len(album) <= MaxImages
  BY DEF TypeOK, Snapshots
<1>2. Len(album) \in Nat /\ DOMAIN album = 1..Len(album) /\ \A i \in DOMAIN album : album[i] \in Snapshots
  BY <1>1
<1>3. DOMAIN album \subseteq Images
  BY <1>1, <1>2, SessionAssumption DEF Images
<1> QED
  BY <1>1, <1>2, <1>3 DEF Snapshots

\* What a request leaves follows from what was in memory.
Follows(n) ==
  /\ FileTypeOK(n) /\ IsFile(n) /\ FrameBound(n) /\ PendingBound(n) /\ ActionBefore(n)
  /\ 1..asked \subseteq n.receipts /\ \A i \in Ids : n.done[i] = IF i \in n.receipts THEN 1 ELSE 0
  /\ \A i \in n.sources : files'[i] = "whole"
  /\ mem.ledger.epoch <= n.ledger.epoch

\* The receipt of the request is added to what it makes of the file.
LEMMA ReceiptHolds ==
  ASSUME Kept, asked \in Ids \ mem.receipts,
         NEW m, IsFile(m), m.receipts = mem.receipts, m.done = mem.done
  PROVE  LET n == Received(m)
         IN /\ n.receipts \subseteq Ids /\ 1..asked \subseteq n.receipts
            /\ n.done \in [Ids -> Nat] /\ \A i \in Ids : n.done[i] = IF i \in n.receipts THEN 1 ELSE 0
            /\ n.ledger = m.ledger /\ n.pending = m.pending /\ n.last = m.last /\ n.sources = m.sources
            /\ IsFile(n)
<1> DEFINE d == [m.done EXCEPT ![asked] = @ + 1]
<1>1. PICK n : n = [[m EXCEPT !.receipts = @ \cup {asked}] EXCEPT !.done = d]
  OBVIOUS
<1>2. d \in [Ids -> Nat] /\ \A i \in Ids : d[i] = IF i \in m.receipts \cup {asked} THEN 1 ELSE 0
  BY DEF Kept, TypeOK, FileTypeOK, FileInv, Receipted
<1>3. Received(m) = n
  BY <1>1 DEF Received, IsFile
<1> HIDE DEF d
<1>4. /\ n.receipts = m.receipts \cup {asked} /\ n.done = d
      /\ n.ledger = m.ledger /\ n.pending = m.pending /\ n.last = m.last /\ n.sources = m.sources
  BY <1>1 DEF IsFile
<1>5. IsFile(n)
  BY <1>1 DEF IsFile
<1>6. m.receipts \subseteq Ids /\ 1..(asked - 1) \subseteq m.receipts /\ asked \in Nat
  BY DEF Kept, TypeOK, FileTypeOK, FileInv, Receipted, Ids
<1>7. 1..asked \subseteq m.receipts \cup {asked}
  BY <1>6
<1> QED
  BY <1>2, <1>3, <1>4, <1>5, <1>6, <1>7

\* Whatever a request makes of memory, its answer or failure keeps the files in order.
LEMMA ServedKeeps ==
  ASSUME Kept, Still, NEW r \in BOOLEAN, Serves(r), NEW n, Follows(n),
         Answered(n, r) \/ SaveFails(n),
         held' \in Recommendations \cup {None}, owed' \subseteq {"advised", "other"}, unseen' \subseteq 1..MaxInputs
  PROVE  Kept'
<1> USE DEF Kept
<1>1. ~poisoned /\ up /\ asked \in Ids \ mem.receipts
  BY DEF Serves
<1>2. asked \in 1..(MaxRequests + 1) /\ MaxRequests \in Nat /\ faults \in 0..MaxFaults /\ MaxFaults \in Nat
  BY SessionAssumption DEF TypeOK
<1>3. CASE Answered(n, r)
  <2>1. mem' = n /\ disk' = n /\ asked' = asked + 1 /\ up' = up /\ poisoned' = poisoned /\ faults' = faults
        /\ needs' \in BOOLEAN
    BY <1>3 DEF Answered, Saved, TypeOK
  <2>2. TypeOK'
    <3>1. FileTypeOK(mem)' /\ FileTypeOK(disk)'
      BY <2>1 DEF FileTypeOK, Follows
    <3>2. asked' \in 1..(MaxRequests + 1)
      BY <1>1, <1>2, <2>1 DEF Ids
    <3> QED
      BY <2>1, <3>1, <3>2 DEF TypeOK, Still
  <2>3. Receipted(n)' /\ SourcesWhole(n)'
    BY <1>2, <2>1 DEF Receipted, SourcesWhole, Follows
  <2>4. FileInv(n)'
    BY <2>3 DEF FileInv, Follows, FrameBound, PendingBound, ActionBefore, Still
  <2>5. InStep'
    <3>1. \A i \in DOMAIN album : album[i].epoch \in Nat
      BY AlbumTyped
    <3>2. mem.ledger.epoch \in Nat /\ n.ledger.epoch \in Nat /\ mem.ledger.epoch <= n.ledger.epoch
      BY DEF Follows, TypeOK, FileTypeOK
    <3>3. \A i \in DOMAIN album : album[i].epoch <= n.ledger.epoch /\ album[i].inputs <= game.inputs
      BY <3>1, <3>2 DEF InStep
    <3> QED
      BY <2>1, <3>2, <3>3 DEF InStep, Still
  <2> QED
    BY <2>1, <2>2, <2>4, <2>5 DEF FileInv, IsFile, FrameBound, PendingBound, ActionBefore, Receipted, SourcesWhole, Awaits
<1>4. CASE SaveFails(n)
  <2>1. mem' = mem /\ disk' \in {disk, n} /\ asked' = asked /\ up' = up /\ poisoned' = TRUE /\ needs' = TRUE
        /\ faults' \in 0..MaxFaults
    BY <1>2, <1>4 DEF SaveFails
  <2>2. TypeOK'
    <3>1. FileTypeOK(mem)' /\ FileTypeOK(disk)'
      BY <2>1 DEF FileTypeOK, Follows, TypeOK
    <3> QED
      BY <2>1, <3>1 DEF TypeOK, Still
  <2>3. FileInv(mem)' /\ FileInv(disk)'
    <3>1. FileInv(mem)'
      BY <2>1, FileStays
      DEF TypeOK, FileInv, IsFile, FrameBound, PendingBound, ActionBefore, Receipted, SourcesWhole, Awaits
    <3>2. CASE disk' = disk
      BY <2>1, <3>1, <3>2, FileStays
      DEF TypeOK, FileInv, IsFile, FrameBound, PendingBound, ActionBefore, Receipted, SourcesWhole, Awaits
    <3>3. CASE disk' = n
      <4>1. Receipted(disk)' /\ SourcesWhole(disk)'
        BY <1>2, <2>1, <3>3 DEF Receipted, SourcesWhole, Follows
      <4>2. IsFile(disk)' /\ FrameBound(disk)' /\ PendingBound(disk)' /\ ActionBefore(disk)'
        BY <3>3 DEF Follows, FrameBound, PendingBound, ActionBefore, Still, Awaits, IsFile, IsLedger
      <4> QED
        BY <3>1, <4>1, <4>2 DEF FileInv
    <3> QED
      BY <2>1, <3>1, <3>2, <3>3
  <2>4. InStep'
    BY <2>1 DEF InStep, Follows, Still
  <2> QED
    BY <2>2, <2>3, <2>4
<1> QED
  BY <1>3, <1>4

\* A reading of a hand that shows one value adds no other to a hand that does.
Shows(s, v) == \A k \in DOMAIN s.data : s.data[k] = v

LEMMA TakenTrue ==
  ASSUME NEW v, v # None, NEW s, NEW o, Current(s) => Shows(s, v), Shows(o, v)
  PROVE  Current(Taken("hand", s, o)) => Shows(Taken("hand", s, o), v)
<1> SUFFICES ASSUME Current(Taken("hand", s, o))
             PROVE  Shows(Taken("hand", s, o), v)
  OBVIOUS
<1> USE DEF Shows
<1>1. CASE s.status = "conflict"
  BY <1>1 DEF Taken, Current
<1>2. CASE ~Current(s) /\ s.status # "conflict"
  BY <1>2 DEF Taken, Section
<1>3. CASE Current(s)
  <2>1. ~Clash("hand", s, o)
    BY <1>3 DEF Taken, Current, Blank
  <2>2. Taken("hand", s, o).data = EntriesJoined(s.data, o.data)
    BY <1>3, <2>1 DEF Taken, Current, Section, Joined
  <2> QED
    BY <1>3, <2>2 DEF EntriesJoined
<1> QED
  BY <1>1, <1>2, <1>3

\* What may be relied on when a request other than a reconciliation is served.
LEMMA ServedTrusted ==
  ASSUME SessionInv, Serves(FALSE)
  PROVE  /\ Kept /\ Trusted /\ Followed /\ ImagesCurrent /\ HandCurrent /\ StockCurrent
         /\ mem = disk /\ asked \in Ids \ mem.receipts
         /\ mem.pending = None => held = None /\ "advised" \notin owed
<1>1. Trusted /\ mem = disk /\ asked \in Ids \ mem.receipts
  BY DEF Serves, Trusted, SessionInv, InStep
<1>2. Kept /\ Followed /\ ImagesCurrent /\ HandCurrent /\ StockCurrent
  BY <1>1 DEF SessionInv, Kept
<1>3. mem.pending = None => held = None /\ "advised" \notin owed
  BY <1>2 DEF Followed
<1> QED
  BY <1>1, <1>2, <1>3

\* After a failed save nothing is trusted.
LEMMA FailedUntrusted ==
  ASSUME NEW n, SaveFails(n)
  PROVE  ~Trusted'
BY DEF SaveFails, Trusted

\* What an observation of image i makes of the file in memory.
LEMMA ObservedHolds ==
  ASSUME Kept, NEW i \in Images, NEW full \in BOOLEAN, NEW carry \in BOOLEAN,
         mem.pending = None, i <= Len(album), MayObserve(mem.ledger, Packet(i, full, carry))
  PROVE  LET p == Packet(i, full, carry)
             m == Observed(mem, p)
         IN /\ IsFile(m) /\ m.receipts = mem.receipts /\ m.done = mem.done /\ m.pending = None /\ m.last = mem.last
            /\ m.sources = mem.sources \cup {i}
            /\ m.ledger.context = mem.ledger.context /\ m.ledger.epoch = mem.ledger.epoch
            /\ m.ledger.frame = FrameOf(i)
            /\ i \in DOMAIN album /\ album[i].epoch = mem.ledger.epoch /\ album[i].context = mem.ledger.context
            /\ m.ledger.sections["hand"] =
                 Taken("hand", Carries(mem.ledger, p, "hand"), Offer(IF full THEN <<album[i].inputs>> ELSE <<>>, full))
            /\ Stock(m.ledger) = Carries(mem.ledger, p, "inventory")
<1> DEFINE p == Packet(i, full, carry)
           l == mem.ledger
           r == Observe(l, p)
<1>1. IsFile(mem) /\ IsLedger(l)
  BY DEF Kept, FileInv, IsFile
<1>2. /\ p.context = album[i].context /\ p.epoch = album[i].epoch /\ p.frame = FrameOf(i)
      /\ p.sections = [n \in {"hand"} |-> Offer(IF full THEN <<album[i].inputs>> ELSE <<>>, full)]
  BY DEF Packet
<1>3. album[i].epoch = l.epoch /\ album[i].context = l.context
  BY <1>2 DEF MayObserve, Binding
<1>4. i \in DOMAIN album
  BY AlbumTyped DEF Kept, Images
<1> HIDE DEF p
<1>5. /\ IsLedger(r) /\ r.context = l.context /\ r.epoch = l.epoch /\ r.frame = p.frame
      /\ \A n \in Sections : r.sections[n] =
           IF n = "ui" /\ FocusLost(l, p) THEN Blank("conflict") ELSE Merged(l, p, n)
  BY <1>1, ObserveHolds
<1>6. r.sections["hand"] = Merged(l, p, "hand") /\ r.sections["inventory"] = Merged(l, p, "inventory")
  BY <1>5 DEF Sections, Volatile
<1>7. /\ Merged(l, p, "hand") = Taken("hand", Carries(l, p, "hand"), p.sections["hand"])
      /\ Merged(l, p, "inventory") = Carries(l, p, "inventory")
  BY <1>2 DEF Merged
<1> HIDE DEF r
<1>8. PICK m : m = [[mem EXCEPT !.ledger = r] EXCEPT !.sources = @ \cup {p.frame.id}]
  OBVIOUS
<1>9. Observed(mem, p) = m
  BY <1>1, <1>8 DEF Observed, IsFile, r
<1>10. /\ m.ledger = r /\ m.sources = mem.sources \cup {p.frame.id}
       /\ m.receipts = mem.receipts /\ m.done = mem.done /\ m.pending = mem.pending /\ m.last = mem.last
  BY <1>1, <1>8 DEF IsFile
<1>11. IsFile(m)
  BY <1>1, <1>5, <1>8 DEF IsFile
<1>12. p.frame.id = i
  BY <1>2 DEF FrameOf
<1>13. p.sections["hand"] = Offer(IF full THEN <<album[i].inputs>> ELSE <<>>, full)
  BY <1>2
<1> QED
  BY <1>2, <1>3, <1>4, <1>5, <1>6, <1>7, <1>9, <1>10, <1>11, <1>12, <1>13 DEF p, Stock

\* The file an observation leaves: its frame is the image, the outcome is kept.
LEMMA ObservedFollows ==
  ASSUME SessionInv, Serves(FALSE), NEW i \in Images, NEW full \in BOOLEAN, NEW carry \in BOOLEAN,
         mem.pending = None, i <= Len(album), MayObserve(mem.ledger, Packet(i, full, carry)), Ingested(i)
  PROVE  LET n == Received(Observed(mem, Packet(i, full, carry)))
         IN /\ Follows(n) /\ n.pending = None /\ n.last = mem.last
            /\ IsFile(n) /\ n.ledger = Observed(mem, Packet(i, full, carry)).ledger
            /\ (\A j \in Images : files[j] = "whole" => files'[j] = "whole")
            /\ files' \in [Images -> {"none", "partial", "whole"}]
<1> DEFINE m == Observed(mem, Packet(i, full, carry))
           n == Received(m)
<1>1. Kept /\ asked \in Ids \ mem.receipts
  BY ServedTrusted
<1> HIDE DEF m
<1>2. /\ IsFile(m) /\ m.receipts = mem.receipts /\ m.done = mem.done /\ m.pending = None /\ m.last = mem.last
      /\ m.sources = mem.sources \cup {i}
      /\ m.ledger.context = mem.ledger.context /\ m.ledger.epoch = mem.ledger.epoch
      /\ m.ledger.frame = FrameOf(i)
      /\ i \in DOMAIN album /\ album[i].epoch = mem.ledger.epoch /\ album[i].context = mem.ledger.context
  <2> HIDE DEF Kept, SessionInv
  <2>1. Kept
    BY <1>1
  <2> QED
    BY <2>1, ObservedHolds, Zenon DEF m
<1>3. /\ n.receipts \subseteq Ids /\ 1..asked \subseteq n.receipts
      /\ n.done \in [Ids -> Nat] /\ \A j \in Ids : n.done[j] = IF j \in n.receipts THEN 1 ELSE 0
      /\ n.ledger = m.ledger /\ n.pending = m.pending /\ n.last = m.last /\ n.sources = m.sources
      /\ IsFile(n)
  BY <1>1, <1>2, ReceiptHolds
<1> HIDE DEF n
<1>4. FileTypeOK(n)
  <2>1. FileTypeOK(mem)
    BY <1>1 DEF Kept, TypeOK
  <2>2. n.ledger.frame \in ImageFrames
    BY <1>2, <1>3 DEF ImageFrames
  <2>3. n.sources \subseteq Images /\ n.pending \in Recommendations \cup {None}
    BY <1>2, <1>3, <2>1 DEF FileTypeOK
  <2> QED
    BY <1>2, <1>3, <2>1, <2>2, <2>3 DEF FileTypeOK
<1>5. FrameBound(n) /\ PendingBound(n)
  BY <1>2, <1>3 DEF FrameBound, PendingBound, FrameOf
<1>6. ActionBefore(n)
  BY <1>1, <1>2, <1>3 DEF Kept, FileInv, ActionBefore
<1>7. files' \in [Images -> {"none", "partial", "whole"}] /\ files'[i] = "whole"
      /\ \A j \in Images : files[j] = "whole" => files'[j] = "whole"
  BY <1>1 DEF Ingested, Kept, TypeOK
<1>8. \A j \in n.sources : files'[j] = "whole"
  BY <1>1, <1>2, <1>3, <1>7 DEF Kept, FileInv, SourcesWhole, TypeOK, FileTypeOK
<1>9. Follows(n)
  <2>1. mem.ledger.epoch \in Nat /\ n.ledger.epoch = mem.ledger.epoch
    BY <1>1, <1>2, <1>3 DEF Kept, TypeOK, FileTypeOK
  <2>2. mem.ledger.epoch <= n.ledger.epoch
    BY <2>1
  <2> QED
    BY <1>3, <1>4, <1>5, <1>6, <1>8, <2>2 DEF Follows
<1> QED
  BY <1>2, <1>3, <1>7, <1>9 DEF m, n

\* The review of an outcome: the image was captured after the action.
LEMMA ReviewedFollows ==
  ASSUME SessionInv, Serves(FALSE), NEW i \in DOMAIN album, NEW matches \in BOOLEAN, NEW n, Follows(n),
         n.pending = None, n.last = mem.last, Reviewable(mem, i, matches), album[i].epoch = mem.ledger.epoch,
         n.ledger.epoch = mem.ledger.epoch
  PROVE  LET q == Reviewed(n, i, matches)
         IN /\ Follows(q) /\ q.pending = None /\ ~Awaits(q) /\ q.sources = n.sources
            /\ IF matches THEN q.ledger = n.ledger ELSE q.ledger = Invalidate(n.ledger, "unknown_input")
<1> DEFINE led == IF matches THEN n.ledger ELSE Invalidate(n.ledger, "unknown_input")
           last == [[n.last EXCEPT !.verified = TRUE] EXCEPT !.after = i]
<1>1. Kept /\ IsFile(n) /\ IsLedger(n.ledger)
  BY ServedTrusted DEF Follows, IsFile
<1>2. n.last \in Outcomes /\ n.last.status = "user_reported"
  <2>1. n.last \in Outcomes \cup {Unlogged, None} /\ n.last # None /\ n.last.status = "user_reported"
    BY DEF Follows, FileTypeOK, Reviewable
  <2> QED
    BY <2>1 DEF Unlogged
<1>3. i \in Images
  BY <1>1, AlbumTyped DEF Kept
<1>4. /\ last \in Outcomes /\ last.status = "user_reported" /\ last.verified = TRUE /\ last.after = i
      /\ last.frame = n.last.frame
  BY <1>2, <1>3 DEF Outcomes
<1>5. /\ IsLedger(led) /\ led.context = n.ledger.context
      /\ IF matches THEN led.epoch = n.ledger.epoch /\ led.frame = n.ledger.frame
         ELSE led.epoch = n.ledger.epoch + 1 /\ led.frame = None
  BY <1>1, InvalidateHolds
<1>6. PICK q : q = [[n EXCEPT !.last = last] EXCEPT !.ledger = led]
  OBVIOUS
<1>7. Reviewed(n, i, matches) = q
  BY <1>1, <1>2, <1>6 DEF Reviewed, IsFile, Outcomes
<1> HIDE DEF last
<1>8. /\ q.last = last /\ q.ledger = led /\ q.pending = n.pending /\ q.receipts = n.receipts
      /\ q.sources = n.sources /\ q.done = n.done
  BY <1>1, <1>6 DEF IsFile
<1> HIDE DEF led
<1>9. IsFile(q)
  BY <1>1, <1>5, <1>6 DEF IsFile
<1>10. n.ledger.epoch \in Nat /\ mem.ledger.epoch \in Nat
  BY <1>1 DEF Follows, FileTypeOK, Kept, TypeOK
<1>11. FileTypeOK(q)
  BY <1>4, <1>5, <1>8, <1>10 DEF Follows, FileTypeOK
<1>12. FrameBound(q) /\ PendingBound(q)
  <2>1. PendingBound(q)
    BY <1>8 DEF PendingBound
  <2>2. FrameBound(q)
    BY <1>5, <1>8 DEF Follows, FrameBound
  <2> QED
    BY <2>1, <2>2
<1>13. ActionBefore(q)
  <2> DEFINE before == album[last.frame.id].inputs
  <2>0. mem.last # None /\ mem.last.status = "user_reported" /\ last.frame = mem.last.frame
    BY <1>2, <1>4 DEF Reviewable
  <2>1. last.frame.id \in DOMAIN album /\ before < game.inputs
        /\ \A j \in DOMAIN album : album[j].epoch = mem.ledger.epoch => before < album[j].inputs
    <3>1. ActionBefore(mem)
      BY <1>1 DEF Kept, FileInv
    <3> QED
      BY <2>0, <3>1 DEF ActionBefore
  <2>2. \A j \in DOMAIN album : album[j].epoch = q.ledger.epoch => album[j].epoch = mem.ledger.epoch
    <3>1. \A j \in DOMAIN album : album[j].epoch \in Nat /\ album[j].epoch <= mem.ledger.epoch
      BY <1>1, AlbumTyped DEF Kept, InStep
    <3> QED
      BY <1>5, <1>8, <1>10, <3>1
  <2> QED
    BY <1>4, <1>8, <2>1, <2>2 DEF ActionBefore
<1>14. mem.ledger.epoch <= q.ledger.epoch
  BY <1>5, <1>8, <1>10
<1>15. Follows(q)
  BY <1>8, <1>9, <1>11, <1>12, <1>13, <1>14 DEF Follows
<1>16. ~Awaits(q)
  BY <1>4, <1>8 DEF Awaits
<1> QED
  BY <1>7, <1>8, <1>15, <1>16 DEF led

-------------------------------------------------------------------------------
(* Every action keeps the invariant *)

\* What images of the present epoch and the facts of a file say of the game.
FactsTrue(n) ==
  /\ \A i \in DOMAIN album :
       album[i].epoch = n.ledger.epoch /\ album[i].context = n.ledger.context =>
         album[i].inputs = game.inputs /\ album[i].owned = game.owned
  /\ Current(n.ledger.sections["hand"]) =>
       \A k \in DOMAIN n.ledger.sections["hand"].data : n.ledger.sections["hand"].data[k] = game.inputs
  /\ Current(Stock(n.ledger)) => Stock(n.ledger).data = {game.owned}

\* An answer that leaves nothing pending.
LEMMA AnswerTrusted ==
  ASSUME Still, NEW r, NEW n, Answered(n, r), n.pending = None, held' = None, "advised" \notin owed',
         unseen' # {} => Awaits(n), owed' = {} => FactsTrue(n)
  PROVE  TrustedInv'
<1>1. mem' = n /\ album' = album /\ game' = game
  BY DEF Answered, Still
<1>2. Followed'
  BY <1>1 DEF Followed, Awaits
<1>3. ImagesCurrent' /\ HandCurrent'
  BY <1>1 DEF ImagesCurrent, HandCurrent, FactsTrue, Current
<1>4. StockCurrent'
  BY <1>1 DEF StockCurrent, FactsTrue, Current, Stock
<1> QED
  BY <1>2, <1>3, <1>4 DEF TrustedInv

\* So a failed save leaves nothing to show.
LEMMA FailureTrusted ==
  ASSUME NEW n, SaveFails(n)
  PROVE  TrustedInv'
BY DEF SaveFails, Trusted, TrustedInv

\* The parts of the invariant make it up.
LEMMA InvariantOf ==
  ASSUME Kept', AdviceOnRecord', TrustedInv'
  PROVE  SessionInv'
BY DEF Kept, TrustedInv, SessionInv

\* A trusted session that was told of every input has true facts.
LEMMA TrustedFacts ==
  ASSUME ImagesCurrent, HandCurrent, StockCurrent, owed = {}
  PROVE  FactsTrue(mem)
BY DEF ImagesCurrent, HandCurrent, StockCurrent, FactsTrue

\* No image is of an epoch that begins.
LEMMA NoImageYet ==
  ASSUME Kept, NEW e, e = mem.ledger.epoch + 1
  PROVE  /\ \A i \in DOMAIN album : album[i].epoch # e
         /\ mem.ledger.epoch \in Nat /\ e \in Nat /\ mem.ledger.epoch <= e
<1>1. mem.ledger.epoch \in Nat
  BY DEF Kept, TypeOK, FileTypeOK
<1>2. \A i \in DOMAIN album : album[i].epoch \in Nat /\ album[i].epoch <= mem.ledger.epoch
  BY AlbumTyped DEF Kept, InStep
<1> QED
  BY <1>1, <1>2

\* An observation in a session that was told of every input.
LEMMA ObservedTrue ==
  ASSUME SessionInv, Serves(FALSE), NEW i \in Images, NEW full \in BOOLEAN, NEW carry \in BOOLEAN,
         mem.pending = None, i <= Len(album), MayObserve(mem.ledger, Packet(i, full, carry)), owed = {}
  PROVE  FactsTrue(Observed(mem, Packet(i, full, carry)))
<1> DEFINE p == Packet(i, full, carry)
           m == Observed(mem, p)
           o == Offer(IF full THEN <<album[i].inputs>> ELSE <<>>, full)
<1>1. Kept /\ ImagesCurrent /\ HandCurrent /\ StockCurrent
  BY ServedTrusted
<1> HIDE DEF m
<1>2. /\ m.ledger.context = mem.ledger.context /\ m.ledger.epoch = mem.ledger.epoch
      /\ i \in DOMAIN album /\ album[i].epoch = mem.ledger.epoch /\ album[i].context = mem.ledger.context
      /\ m.ledger.sections["hand"] = Taken("hand", Carries(mem.ledger, p, "hand"), o)
      /\ Stock(m.ledger) = Carries(mem.ledger, p, "inventory")
  BY <1>1, ObservedHolds, Zenon DEF m
<1> HIDE DEF p
<1>3. album[i].inputs = game.inputs /\ \A j \in DOMAIN album :
        album[j].epoch = m.ledger.epoch /\ album[j].context = m.ledger.context =>
          album[j].inputs = game.inputs /\ album[j].owned = game.owned
  BY <1>1, <1>2 DEF ImagesCurrent
<1>4. \A k \in DOMAIN o.data : o.data[k] = game.inputs
  BY <1>3 DEF Offer
<1>5. game.inputs # None
  BY <1>1, SessionAssumption DEF Kept, TypeOK
<1>6. Current(Carries(mem.ledger, p, "hand")) =>
        \A k \in DOMAIN Carries(mem.ledger, p, "hand").data : Carries(mem.ledger, p, "hand").data[k] = game.inputs
  BY <1>1 DEF Carries, HandCurrent, Current, Blank
<1> HIDE DEF o
<1>7. Current(m.ledger.sections["hand"]) =>
        \A k \in DOMAIN m.ledger.sections["hand"].data : m.ledger.sections["hand"].data[k] = game.inputs
  <2> DEFINE v == game.inputs
             s == Carries(mem.ledger, p, "hand")
             t == Taken("hand", s, o)
  <2>1. m.ledger.sections["hand"] = t
    BY <1>2
  <2>2. v # None /\ Shows(o, v) /\ (Current(s) => Shows(s, v))
    BY <1>4, <1>5, <1>6 DEF Shows
  <2> HIDE DEF v, s
  <2>3. Current(t) => Shows(t, v)
    BY <2>2, TakenTrue
  <2> HIDE DEF t
  <2> QED
    BY <2>1, <2>3 DEF v, Shows
<1>8. Current(Stock(m.ledger)) => Stock(m.ledger).data = {game.owned}
  BY <1>1, <1>2 DEF Carries, StockCurrent, Current, Blank, Stock
<1> QED
  BY <1>3, <1>7, <1>8 DEF FactsTrue, m, p

\* An observation, with or without a review of the last outcome.
LEMMA ObserveKeeps ==
  ASSUME SessionInv, NEW i \in Images, NEW full \in BOOLEAN, NEW carry \in BOOLEAN, ObserveRequest(i, full, carry)
  PROVE  SessionInv'
<1> DEFINE p == Packet(i, full, carry)
           m == Observed(mem, p)
           n == Received(m)
<1>1. /\ Serves(FALSE) /\ mem.pending = None /\ i <= Len(album) /\ MayObserve(mem.ledger, p) /\ Ingested(i)
      /\ UNCHANGED <<album, game, held, owed>>
      /\ \/ Answered(n, FALSE) /\ UNCHANGED unseen
         \/ SaveFails(n) /\ UNCHANGED unseen
         \/ \E matches \in BOOLEAN :
              /\ Reviewable(mem, i, matches)
              /\ \/ Answered(Reviewed(n, i, matches), FALSE) /\ unseen' = {}
                 \/ SaveFails(Reviewed(n, i, matches)) /\ UNCHANGED unseen
  BY DEF ObserveRequest
<1>2. /\ Kept /\ Followed /\ held = None /\ "advised" \notin owed
  BY <1>1, ServedTrusted
<1>3. owed = {} => FactsTrue(m)
  BY <1>1, ObservedTrue
<1>4. /\ Follows(n) /\ n.pending = None /\ n.last = mem.last
      /\ n.ledger = m.ledger
      /\ (\A j \in Images : files[j] = "whole" => files'[j] = "whole")
      /\ files' \in [Images -> {"none", "partial", "whole"}]
  <2> HIDE DEF n
  <2> QED
    BY <1>1, ObservedFollows, Zenon DEF n
<1>5. m.ledger.epoch = mem.ledger.epoch /\ i \in DOMAIN album /\ album[i].epoch = mem.ledger.epoch
  <2> HIDE DEF m
  <2> QED
    BY <1>1, <1>2, ObservedHolds, Zenon DEF m
<1> HIDE DEF n, m, p
<1>6. Still
  BY <1>1, <1>4 DEF Still
<1>7. /\ held' \in Recommendations \cup {None} /\ owed' \subseteq {"advised", "other"}
      /\ held' = None /\ "advised" \notin owed' /\ unseen \subseteq 1..MaxInputs
  BY <1>1, <1>2 DEF Kept, TypeOK
<1>8. AdviceOnRecord'
  BY <1>7 DEF AdviceOnRecord
<1>9. unseen # {} => Awaits(n)
  BY <1>2, <1>4 DEF Followed, Awaits
<1>10. owed' = {} => FactsTrue(n)
  BY <1>1, <1>3, <1>4 DEF FactsTrue
<1>11. CASE Answered(n, FALSE) /\ UNCHANGED unseen
  <2>1. Kept'
    BY <1>1, <1>2, <1>4, <1>6, <1>7, <1>11, ServedKeeps
  <2>2. TrustedInv'
    BY <1>4, <1>6, <1>7, <1>9, <1>10, <1>11, AnswerTrusted
  <2> QED
    BY <1>8, <2>1, <2>2, InvariantOf
<1>12. CASE SaveFails(n) /\ UNCHANGED unseen
  <2>1. Kept'
    BY <1>1, <1>2, <1>4, <1>6, <1>7, <1>12, ServedKeeps
  <2> QED
    BY <1>8, <1>12, <2>1, FailureTrusted, InvariantOf
<1>13. ASSUME NEW matches \in BOOLEAN, Reviewable(mem, i, matches),
              \/ Answered(Reviewed(n, i, matches), FALSE) /\ unseen' = {}
              \/ SaveFails(Reviewed(n, i, matches)) /\ UNCHANGED unseen
       PROVE  SessionInv'
  <2> DEFINE q == Reviewed(n, i, matches)
  <2>1. /\ Follows(q) /\ q.pending = None
        /\ IF matches THEN q.ledger = n.ledger ELSE q.ledger = Invalidate(n.ledger, "unknown_input")
    BY <1>1, <1>4, <1>5, <1>13, ReviewedFollows
  <2>2. owed' = {} => FactsTrue(q)
    <3>1. CASE matches
      BY <1>10, <2>1, <3>1 DEF FactsTrue
    <3>2. CASE ~matches
      <4>1. IsLedger(n.ledger)
        BY <1>4 DEF Follows, IsFile
      <4>2. /\ q.ledger.epoch = n.ledger.epoch + 1 /\ \A s \in Volatile : q.ledger.sections[s] = Blank("stale")
            /\ Stock(q.ledger) = Blank("stale")
        BY <2>1, <3>2, <4>1, InvalidateHolds
      <4>3. \A j \in DOMAIN album : album[j].epoch # q.ledger.epoch
        BY <1>2, <1>4, <1>5, <4>2, NoImageYet
      <4> HIDE DEF q
      <4> QED
        BY <4>2, <4>3 DEF FactsTrue, Volatile, Blank, Current
    <3> QED
      BY <3>1, <3>2
  <2> HIDE DEF q
  <2>3. CASE Answered(q, FALSE) /\ unseen' = {}
    <3>1. Kept'
      BY <1>1, <1>2, <1>6, <1>7, <2>1, <2>3, ServedKeeps
    <3>2. TrustedInv'
      BY <1>6, <1>7, <2>1, <2>2, <2>3, AnswerTrusted
    <3> QED
      BY <1>8, <3>1, <3>2, InvariantOf
  <2>4. CASE SaveFails(q) /\ UNCHANGED unseen
    <3>1. Kept'
      BY <1>1, <1>2, <1>6, <1>7, <2>1, <2>4, ServedKeeps
    <3> QED
      BY <1>8, <2>4, <3>1, FailureTrusted, InvariantOf
  <2> QED
    BY <1>13, <2>3, <2>4 DEF q
<1> QED
  BY <1>1, <1>11, <1>12, <1>13

\* A file with another ledger.
LEMMA LedgerChanges ==
  ASSUME Kept, asked \in Ids \ mem.receipts, NEW led, IsLedger(led)
  PROVE  LET n == Received([mem EXCEPT !.ledger = led])
         IN /\ n.receipts \subseteq Ids /\ 1..asked \subseteq n.receipts
            /\ n.done \in [Ids -> Nat] /\ \A i \in Ids : n.done[i] = IF i \in n.receipts THEN 1 ELSE 0
            /\ n.ledger = led /\ n.pending = mem.pending /\ n.last = mem.last /\ n.sources = mem.sources
            /\ IsFile(n)
<1>1. PICK m : m = [mem EXCEPT !.ledger = led]
  OBVIOUS
<1>2. /\ m.ledger = led /\ m.pending = mem.pending /\ m.last = mem.last /\ m.sources = mem.sources
      /\ m.receipts = mem.receipts /\ m.done = mem.done /\ IsFile(m)
  BY <1>1 DEF Kept, FileInv, IsFile
<1> DEFINE n == Received(m)
<1> HIDE DEF n
<1>3. /\ n.receipts \subseteq Ids /\ 1..asked \subseteq n.receipts
      /\ n.done \in [Ids -> Nat] /\ \A i \in Ids : n.done[i] = IF i \in n.receipts THEN 1 ELSE 0
      /\ n.ledger = m.ledger /\ n.pending = m.pending /\ n.last = m.last /\ n.sources = m.sources
      /\ IsFile(n)
  BY <1>2, ReceiptHolds DEF n
<1>4. n = Received([mem EXCEPT !.ledger = led])
  BY <1>1 DEF n
<1> QED
  BY <1>2, <1>3, <1>4

\* A ledger that keeps its epoch, context and frame, or begins an epoch.
LEMMA LedgerFollows ==
  ASSUME Kept, Still, asked \in Ids \ mem.receipts, mem.pending = None, NEW led, IsLedger(led),
         led.context \in TurnContexts,
         \/ led.context = mem.ledger.context /\ led.epoch = mem.ledger.epoch /\ led.frame = mem.ledger.frame
         \/ led.epoch = mem.ledger.epoch + 1 /\ led.frame = None
  PROVE  LET n == Received([mem EXCEPT !.ledger = led])
         IN Follows(n) /\ n.pending = None /\ n.last = mem.last /\ n.ledger = led
<1> DEFINE n == Received([mem EXCEPT !.ledger = led])
<1> HIDE DEF n
<1>1. /\ n.receipts \subseteq Ids /\ 1..asked \subseteq n.receipts
      /\ n.done \in [Ids -> Nat] /\ \A i \in Ids : n.done[i] = IF i \in n.receipts THEN 1 ELSE 0
      /\ n.ledger = led /\ n.pending = mem.pending /\ n.last = mem.last /\ n.sources = mem.sources
      /\ IsFile(n)
  BY LedgerChanges DEF n
<1>2. /\ mem.ledger.epoch \in Nat /\ led.epoch \in Nat /\ mem.ledger.epoch <= led.epoch
      /\ led.epoch # mem.ledger.epoch => \A i \in DOMAIN album : album[i].epoch # led.epoch
  <2>1. mem.ledger.epoch \in Nat
    BY DEF Kept, TypeOK, FileTypeOK
  <2> QED
    BY <2>1, NoImageYet
<1>3. FileTypeOK(mem) /\ FileInv(mem)
  BY DEF Kept, TypeOK
<1>4. FileTypeOK(n)
  BY <1>1, <1>2, <1>3 DEF FileTypeOK
<1>5. FrameBound(n) /\ PendingBound(n)
  BY <1>1, <1>3 DEF FrameBound, PendingBound, FileInv
<1>6. ActionBefore(n)
  <2>1. ActionBefore(mem)
    BY <1>3 DEF FileInv
  <2>2. \A i \in DOMAIN album : album[i].epoch = n.ledger.epoch => album[i].epoch = mem.ledger.epoch
    BY <1>1, <1>2
  <2> QED
    BY <1>1, <2>1, <2>2 DEF ActionBefore
<1>7. \A i \in n.sources : files'[i] = "whole"
  BY <1>1, <1>3 DEF FileInv, SourcesWhole, FileTypeOK, Still
<1>8. Follows(n)
  BY <1>1, <1>2, <1>4, <1>5, <1>6, <1>7 DEF Follows
<1> QED
  BY <1>1, <1>8 DEF n

\* The rest of the player is as it was, and nothing was pending.
LEMMA LedgerKeeps ==
  ASSUME SessionInv, Serves(FALSE), mem.pending = None, Still, UNCHANGED player, NEW n, Follows(n),
         n.pending = None, n.last = mem.last, owed = {} => FactsTrue(n),
         Answered(n, FALSE) \/ SaveFails(n)
  PROVE  SessionInv'
<1>1. /\ Kept /\ Followed /\ held = None /\ "advised" \notin owed
  BY ServedTrusted
<1>2. /\ held' \in Recommendations \cup {None} /\ owed' \subseteq {"advised", "other"} /\ owed' = owed
      /\ held' = None /\ "advised" \notin owed' /\ unseen' = unseen /\ unseen' \subseteq 1..MaxInputs
  BY <1>1 DEF Kept, TypeOK, player
<1>3. AdviceOnRecord'
  BY <1>2 DEF AdviceOnRecord
<1>4. unseen' # {} => Awaits(n)
  BY <1>1, <1>2 DEF Followed, Awaits
<1>5. Kept'
  BY <1>1, <1>2, ServedKeeps
<1>6. CASE Answered(n, FALSE)
  <2>1. TrustedInv'
    BY <1>2, <1>4, <1>6, AnswerTrusted
  <2> QED
    BY <1>3, <1>5, <2>1, InvariantOf
<1>7. CASE SaveFails(n)
  BY <1>3, <1>5, <1>7, FailureTrusted, InvariantOf
<1> QED
  BY <1>6, <1>7

\* The receipt that the player made of what the present frame shows.
LEMMA InventoryKeeps ==
  ASSUME SessionInv, NEW kind \in {"baseline", "verified_transition"}, InventoryRequest(kind)
  PROVE  SessionInv'
<1> DEFINE l == mem.ledger
           r == [context |-> l.context, epoch |-> l.epoch, frame |-> l.frame, kind |-> kind,
                 items |-> {album[l.frame.id].owned}, complete |-> TRUE, prior |-> Stock(l).data]
           led == RecordInventory(l, r)
           n == Received([mem EXCEPT !.ledger = led])
<1>1. /\ Serves(FALSE) /\ mem.pending = None /\ l.frame # None /\ Ingested(l.frame.id)
      /\ Answered(n, FALSE) \/ SaveFails(n)
      /\ UNCHANGED player
  BY DEF InventoryRequest
<1>2. Kept /\ ImagesCurrent /\ HandCurrent /\ StockCurrent /\ asked \in Ids \ mem.receipts
  BY <1>1, ServedTrusted
<1>3. /\ IsLedger(l) /\ l.context \in TurnContexts
      /\ l.frame.id \in DOMAIN album
      /\ album[l.frame.id].epoch = l.epoch /\ album[l.frame.id].context = l.context
  BY <1>1, <1>2 DEF Kept, TypeOK, FileTypeOK, FileInv, IsFile, FrameBound
<1>4. Still
  BY <1>1, <1>2 DEF Kept, TypeOK, Ingested, Still, player
<1>5. r.kind = kind /\ r.items = {album[l.frame.id].owned} /\ r.complete = TRUE
  OBVIOUS
<1> HIDE DEF r
<1>6. CASE kind = "baseline"
  <2>1. /\ IsLedger(led) /\ led.context = l.context /\ led.epoch = l.epoch /\ led.frame = l.frame
        /\ \A s \in Volatile : led.sections[s] = l.sections[s]
        /\ Stock(led) = StockMerged(Stock(l), r)
    BY <1>3, <1>5, <1>6, BaselineHolds
  <2> HIDE DEF led
  <2>2. Follows(n) /\ n.pending = None /\ n.last = mem.last /\ n.ledger = led
    <3> HIDE DEF n
    <3> QED
      BY <1>1, <1>2, <1>3, <1>4, <2>1, LedgerFollows, Zenon DEF n
  <2> HIDE DEF n
  <2>3. ASSUME owed = {}
        PROVE  FactsTrue(n)
    <3>1. FactsTrue(mem)
      BY <1>2, <2>3, TrustedFacts
    <3>2. album[l.frame.id].owned = game.owned
      BY <1>3, <3>1 DEF FactsTrue
    <3>3. Current(Stock(led)) => Stock(led).data = {game.owned}
      BY <1>5, <2>1, <3>1, <3>2 DEF FactsTrue, StockMerged, Section, Blank, Current, Complete
    <3>4. led.sections["hand"] = l.sections["hand"]
      BY <2>1 DEF Volatile
    <3> QED
      BY <2>1, <2>2, <3>1, <3>3, <3>4 DEF FactsTrue
  <2> QED
    BY <1>1, <1>4, <2>2, <2>3, LedgerKeeps
<1>7. CASE kind # "baseline"
  <2>1. /\ IsLedger(led) /\ led.context = l.context /\ led.epoch = l.epoch + 1 /\ led.frame = None
        /\ \A s \in Volatile : led.sections[s] = Blank("stale")
        /\ Stock(led) = Section(r.complete, r.items)
    <3>1. r.kind # "baseline"
      BY <1>5, <1>7
    <3> HIDE DEF led, l
    <3> QED
      BY <1>3, <3>1, TransitionHolds, Zenon DEF led
  <2> HIDE DEF led
  <2>2. Follows(n) /\ n.pending = None /\ n.last = mem.last /\ n.ledger = led
    <3> HIDE DEF n
    <3> QED
      BY <1>1, <1>2, <1>3, <1>4, <2>1, LedgerFollows, Zenon DEF n
  <2> HIDE DEF n
  <2>3. ASSUME owed = {}
        PROVE  FactsTrue(n)
    <3>1. FactsTrue(mem)
      BY <1>2, <2>3, TrustedFacts
    <3>2. album[l.frame.id].owned = game.owned
      BY <1>3, <3>1 DEF FactsTrue
    <3>3. Stock(led).data = {game.owned}
      BY <1>5, <2>1, <3>2 DEF Section
    <3>4. \A j \in DOMAIN album : album[j].epoch # led.epoch
      BY <1>2, <2>1, NoImageYet
    <3>5. ~Current(led.sections["hand"])
      BY <2>1 DEF Volatile, Blank, Current
    <3> QED
      BY <2>2, <3>3, <3>4, <3>5 DEF FactsTrue
  <2> QED
    BY <1>1, <1>4, <2>2, <2>3, LedgerKeeps
<1> QED
  BY <1>6, <1>7

\* Another turn: images of the last one have another epoch.
LEMMA ContextKeeps ==
  ASSUME SessionInv, ContextRequest
  PROVE  SessionInv'
<1> DEFINE l == mem.ledger
           led == ChangeContext(l, Context(game.turn))
           n == Received([mem EXCEPT !.ledger = led])
<1>1. /\ Serves(FALSE) /\ mem.pending = None /\ UNCHANGED <<files, player>>
      /\ Answered(n, FALSE) \/ SaveFails(n)
  BY DEF ContextRequest, MayMove
<1>2. Kept /\ ImagesCurrent /\ HandCurrent /\ StockCurrent /\ asked \in Ids \ mem.receipts
  BY <1>1, ServedTrusted
<1>3. IsLedger(l) /\ l.context \in TurnContexts /\ Context(game.turn) \in TurnContexts
  BY <1>2 DEF Kept, TypeOK, FileTypeOK, FileInv, IsFile, TurnContexts
<1>4. Still
  BY <1>1, <1>2 DEF Kept, TypeOK, Still, player
<1>5. Context(game.turn).run = l.context.run
  BY <1>3 DEF TurnContexts, Context
<1>6. /\ IsLedger(led) /\ led.context = Context(game.turn) /\ led.epoch = l.epoch + 1 /\ led.frame = None
      /\ \A s \in Volatile : led.sections[s] = Blank("stale")
      /\ Stock(led) = Stock(l)
  BY <1>3, <1>5, ChangeContextHolds DEF Moved
<1> HIDE DEF led
<1>7. Follows(n) /\ n.pending = None /\ n.last = mem.last /\ n.ledger = led
  <2> HIDE DEF n
  <2>1. led.context \in TurnContexts
    BY <1>3, <1>6
  <2> QED
    BY <1>1, <1>2, <1>4, <1>6, <2>1, LedgerFollows, Zenon DEF n
<1> HIDE DEF n
<1>8. ASSUME owed = {}
      PROVE  FactsTrue(n)
  <2>1. Current(Stock(led)) => Stock(led).data = {game.owned}
    BY <1>2, <1>6, <1>8, TrustedFacts DEF FactsTrue
  <2>2. \A j \in DOMAIN album : album[j].epoch # led.epoch
    BY <1>2, <1>6, NoImageYet
  <2>3. ~Current(led.sections["hand"])
    BY <1>6 DEF Volatile, Blank, Current
  <2> QED
    BY <1>7, <2>1, <2>2, <2>3 DEF FactsTrue
<1> QED
  BY <1>1, <1>4, <1>7, <1>8, LedgerKeeps DEF player

\* One action is advised, in the epoch, context and frame of the ledger.
LEMMA AdvisedFollows ==
  ASSUME SessionInv, Serves(FALSE), Still, Advisable(mem), mem.ledger.frame # None, NEW kind \in Kinds
  PROVE  LET n == Received([mem EXCEPT !.pending = Pending(mem.ledger, kind)])
         IN /\ Follows(n) /\ n.pending = Pending(mem.ledger, kind) /\ n.last = mem.last /\ n.ledger = mem.ledger
            /\ n.pending \in Recommendations
<1> DEFINE a == Pending(mem.ledger, kind)
<1>1. Kept /\ asked \in Ids \ mem.receipts
  BY ServedTrusted
<1>2. FileTypeOK(mem) /\ FileInv(mem) /\ IsLedger(mem.ledger)
  BY <1>1 DEF Kept, TypeOK, FileInv, IsFile
<1>3. /\ a \in Recommendations
      /\ a.epoch = mem.ledger.epoch /\ a.context = mem.ledger.context /\ a.frame = mem.ledger.frame
  BY <1>1, <1>2 DEF Pending, Recommendations, FileTypeOK
<1> HIDE DEF a
<1>4. PICK m : m = [mem EXCEPT !.pending = a]
  OBVIOUS
<1>5. /\ m.ledger = mem.ledger /\ m.pending = a /\ m.last = mem.last /\ m.sources = mem.sources
      /\ m.receipts = mem.receipts /\ m.done = mem.done /\ IsFile(m)
  BY <1>2, <1>4 DEF FileInv, IsFile
<1> DEFINE n == Received(m)
<1> HIDE DEF n
<1>6. /\ n.receipts \subseteq Ids /\ 1..asked \subseteq n.receipts
      /\ n.done \in [Ids -> Nat] /\ \A i \in Ids : n.done[i] = IF i \in n.receipts THEN 1 ELSE 0
      /\ n.ledger = m.ledger /\ n.pending = m.pending /\ n.last = m.last /\ n.sources = m.sources
      /\ IsFile(n)
  BY <1>1, <1>5, ReceiptHolds DEF n
<1>7. FileTypeOK(n)
  BY <1>2, <1>3, <1>5, <1>6 DEF FileTypeOK
<1>8. FrameBound(n) /\ ActionBefore(n)
  BY <1>2, <1>5, <1>6 DEF FrameBound, ActionBefore, FileInv
<1>9. PendingBound(n)
  BY <1>3, <1>5, <1>6 DEF PendingBound, Advisable, Awaits
<1>10. \A i \in n.sources : files'[i] = "whole"
  BY <1>2, <1>5, <1>6 DEF FileInv, SourcesWhole, FileTypeOK, Still
<1>11. mem.ledger.epoch <= n.ledger.epoch
  BY <1>2, <1>5, <1>6 DEF FileTypeOK
<1>12. Follows(n)
  BY <1>6, <1>7, <1>8, <1>9, <1>10, <1>11 DEF Follows
<1> QED
  BY <1>3, <1>4, <1>5, <1>6, <1>12 DEF n, a

\* A request that changes nothing but its receipt.
LEMMA SameFollows ==
  ASSUME SessionInv, Serves(FALSE), Still
  PROVE  LET n == Received(mem)
         IN Follows(n) /\ n.pending = mem.pending /\ n.last = mem.last /\ n.ledger = mem.ledger
<1> DEFINE n == Received(mem)
<1> HIDE DEF n
<1>1. Kept /\ asked \in Ids \ mem.receipts
  BY ServedTrusted
<1>2. FileTypeOK(mem) /\ FileInv(mem) /\ IsFile(mem)
  BY <1>1 DEF Kept, TypeOK, FileInv
<1>3. /\ n.receipts \subseteq Ids /\ 1..asked \subseteq n.receipts
      /\ n.done \in [Ids -> Nat] /\ \A i \in Ids : n.done[i] = IF i \in n.receipts THEN 1 ELSE 0
      /\ n.ledger = mem.ledger /\ n.pending = mem.pending /\ n.last = mem.last /\ n.sources = mem.sources
      /\ IsFile(n)
  BY <1>1, <1>2, ReceiptHolds DEF n
<1>4. FileTypeOK(n)
  BY <1>2, <1>3 DEF FileTypeOK
<1>5. FrameBound(n) /\ PendingBound(n) /\ ActionBefore(n)
  BY <1>2, <1>3 DEF FrameBound, PendingBound, ActionBefore, Awaits, FileInv
<1>6. \A i \in n.sources : files'[i] = "whole"
  BY <1>2, <1>3 DEF FileInv, SourcesWhole, FileTypeOK, Still
<1>7. mem.ledger.epoch <= n.ledger.epoch
  BY <1>2, <1>3 DEF FileTypeOK
<1> QED
  BY <1>3, <1>4, <1>5, <1>6, <1>7 DEF Follows, n

\* Advice: what is held is pending and on file.
LEMMA AdviseKeeps ==
  ASSUME SessionInv, NEW kind \in Kinds, NEW allowed \in BOOLEAN, AdviseRequest(kind, allowed)
  PROVE  SessionInv'
<1> DEFINE n == Received(IF allowed THEN [mem EXCEPT !.pending = Pending(mem.ledger, kind)] ELSE mem)
<1>1. /\ Serves(FALSE) /\ Advisable(mem) /\ (allowed => mem.ledger.frame # None)
      /\ \/ Answered(n, FALSE) /\ held' = n.pending
         \/ SaveFails(n) /\ UNCHANGED held
      /\ UNCHANGED <<files, album, game, owed, unseen>>
  BY DEF AdviseRequest, Ready
<1>2. /\ Kept /\ Followed /\ ImagesCurrent /\ HandCurrent /\ StockCurrent
      /\ held = None /\ "advised" \notin owed
  BY <1>1, ServedTrusted DEF Advisable
<1>3. Still
  BY <1>1, <1>2 DEF Still, Kept, TypeOK
<1>4. Follows(n) /\ n.pending \in Recommendations \cup {None} /\ n.last = mem.last /\ n.ledger = mem.ledger
  <2>1. CASE allowed
    BY <1>1, <1>3, <2>1, AdvisedFollows
  <2>2. CASE ~allowed
    BY <1>1, <1>3, <2>2, SameFollows DEF Advisable
  <2> QED
    BY <2>1, <2>2
<1> HIDE DEF n
<1>5. /\ held' \in Recommendations \cup {None} /\ owed' \subseteq {"advised", "other"}
      /\ "advised" \notin owed' /\ unseen' = unseen /\ unseen' \subseteq 1..MaxInputs /\ owed' = owed
  BY <1>1, <1>2, <1>4 DEF Kept, TypeOK
<1>6. Kept'
  BY <1>1, <1>2, <1>3, <1>4, <1>5, ServedKeeps
<1>7. unseen' = {}
  BY <1>1, <1>2, <1>5 DEF Followed, Advisable, Awaits
<1>8. CASE Answered(n, FALSE) /\ held' = n.pending
  <2>1. mem' = n /\ disk' = n /\ album' = album /\ game' = game
    BY <1>3, <1>8 DEF Answered, Saved, Still
  <2>2. AdviceOnRecord'
    BY <1>8, <2>1 DEF AdviceOnRecord
  <2>3. Followed'
    BY <1>5, <1>7, <1>8, <2>1 DEF Followed
  <2>4. ImagesCurrent' /\ HandCurrent'
    BY <1>2, <1>4, <1>5, <2>1 DEF ImagesCurrent, HandCurrent, Current
  <2>5. StockCurrent'
    BY <1>2, <1>4, <1>5, <2>1 DEF StockCurrent, Current, Stock
  <2> QED
    BY <1>6, <2>2, <2>3, <2>4, <2>5, InvariantOf DEF TrustedInv
<1>9. CASE SaveFails(n) /\ UNCHANGED held
  <2>1. AdviceOnRecord'
    BY <1>2, <1>9 DEF AdviceOnRecord
  <2> QED
    BY <1>6, <1>9, <2>1, FailureTrusted, InvariantOf
<1> QED
  BY <1>1, <1>8, <1>9

\* A file without a pending recommendation, with another outcome and ledger.
Ended(led, last) == [mem EXCEPT !.ledger = led, !.pending = None, !.last = last]

LEMMA OutcomeChanges ==
  ASSUME Kept, asked \in Ids \ mem.receipts, NEW led, IsLedger(led), NEW last
  PROVE  LET n == Received(Ended(led, last))
         IN /\ n.receipts \subseteq Ids /\ 1..asked \subseteq n.receipts
            /\ n.done \in [Ids -> Nat] /\ \A i \in Ids : n.done[i] = IF i \in n.receipts THEN 1 ELSE 0
            /\ n.ledger = led /\ n.pending = None /\ n.last = last /\ n.sources = mem.sources
            /\ IsFile(n)
<1>1. PICK q : q = [[[mem EXCEPT !.ledger = led] EXCEPT !.pending = None] EXCEPT !.last = last]
  OBVIOUS
<1>2. IsFile(mem)
  BY DEF Kept, FileInv
<1>3. Ended(led, last) = q
  BY <1>1, <1>2 DEF IsFile, Ended
<1>4. /\ q.ledger = led /\ q.pending = None /\ q.last = last /\ q.sources = mem.sources
      /\ q.receipts = mem.receipts /\ q.done = mem.done /\ IsFile(q)
  BY <1>1, <1>2 DEF IsFile
<1> DEFINE n == Received(q)
<1> HIDE DEF n
<1>5. /\ n.receipts \subseteq Ids /\ 1..asked \subseteq n.receipts
      /\ n.done \in [Ids -> Nat] /\ \A i \in Ids : n.done[i] = IF i \in n.receipts THEN 1 ELSE 0
      /\ n.ledger = q.ledger /\ n.pending = q.pending /\ n.last = q.last /\ n.sources = q.sources
      /\ IsFile(n)
  BY <1>4, ReceiptHolds DEF n
<1> QED
  BY <1>3, <1>4, <1>5 DEF n

\* An unlogged input: everything known and pending is given up.
LEMMA UnloggedKeeps ==
  ASSUME SessionInv, UnloggedRequest
  PROVE  SessionInv'
<1> DEFINE led == Invalidate(mem.ledger, "unknown_input")
           n == Received(Reconciled(mem))
<1>1. /\ Serves(TRUE)
      /\ \/ Answered(n, TRUE) /\ held' = None /\ owed' = {} /\ unseen' = {}
         \/ SaveFails(n) /\ UNCHANGED <<held, owed, unseen>>
      /\ UNCHANGED <<files, album, game>>
  BY DEF UnloggedRequest
<1>2. Kept /\ asked \in Ids \ mem.receipts /\ AdviceOnRecord
  BY <1>1 DEF SessionInv, Kept, Serves
<1>3. FileTypeOK(mem) /\ FileInv(mem) /\ IsLedger(mem.ledger)
  BY <1>2 DEF Kept, TypeOK, FileInv, IsFile
<1>4. Still
  BY <1>1, <1>2 DEF Still, Kept, TypeOK
<1>5. /\ IsLedger(led) /\ led.context = mem.ledger.context /\ led.epoch = mem.ledger.epoch + 1 /\ led.frame = None
      /\ \A s \in Volatile : led.sections[s] = Blank("stale")
      /\ Stock(led) = Blank("stale")
  BY <1>3, InvalidateHolds
<1>6. Reconciled(mem) = [mem EXCEPT !.ledger = led, !.pending = None, !.last = Unlogged]
  BY <1>3 DEF Reconciled
<1> HIDE DEF led, n
<1>7. /\ n.receipts \subseteq Ids /\ 1..asked \subseteq n.receipts
      /\ n.done \in [Ids -> Nat] /\ \A i \in Ids : n.done[i] = IF i \in n.receipts THEN 1 ELSE 0
      /\ n.ledger = led /\ n.pending = None /\ n.last = Unlogged /\ n.sources = mem.sources
      /\ IsFile(n)
  <2>1. n = Received(Ended(led, Unlogged))
    BY <1>6 DEF n, Ended
  <2> QED
    BY <1>2, <1>5, <2>1, OutcomeChanges
<1>8. \A i \in DOMAIN album : album[i].epoch # led.epoch
  BY <1>2, <1>5, NoImageYet
<1>9. Follows(n)
  <2>1. FileTypeOK(n)
    BY <1>3, <1>5, <1>7 DEF FileTypeOK
  <2>2. FrameBound(n) /\ PendingBound(n) /\ ActionBefore(n)
    BY <1>5, <1>7 DEF FrameBound, PendingBound, ActionBefore, Unlogged
  <2>3. \A i \in n.sources : files'[i] = "whole"
    BY <1>3, <1>4, <1>7 DEF FileInv, SourcesWhole, FileTypeOK, Still
  <2>4. mem.ledger.epoch <= n.ledger.epoch
    BY <1>3, <1>5, <1>7 DEF FileTypeOK
  <2> QED
    BY <1>7, <2>1, <2>2, <2>3, <2>4 DEF Follows
<1>10. /\ held' \in Recommendations \cup {None} /\ owed' \subseteq {"advised", "other"}
       /\ unseen' \subseteq 1..MaxInputs
  BY <1>1, <1>2 DEF Kept, TypeOK
<1>11. Kept'
  BY <1>1, <1>2, <1>4, <1>9, <1>10, ServedKeeps
<1>12. CASE Answered(n, TRUE) /\ held' = None /\ owed' = {} /\ unseen' = {}
  <2>1. FactsTrue(n)
    BY <1>5, <1>7, <1>8 DEF FactsTrue, Volatile, Blank, Current
  <2>2. TrustedInv'
    BY <1>4, <1>7, <1>12, <2>1, AnswerTrusted
  <2>3. AdviceOnRecord'
    BY <1>12 DEF AdviceOnRecord
  <2> QED
    BY <1>11, <2>2, <2>3, InvariantOf
<1>13. CASE SaveFails(n) /\ UNCHANGED <<held, owed, unseen>>
  <2>1. AdviceOnRecord'
    BY <1>2, <1>7, <1>13, SessionAssumption DEF AdviceOnRecord, SaveFails, Unlogged
  <2> QED
    BY <1>11, <1>13, <2>1, FailureTrusted, InvariantOf
<1> QED
  BY <1>1, <1>12, <1>13

\* The report: the outcome is that of the pending recommendation, and images
\* of its frame were captured before the input.
LEMMA ReportedFollows ==
  ASSUME SessionInv, Serves(FALSE), Still, mem.pending # None,
         NEW performed \in BOOLEAN, performed <=> "advised" \in owed
  PROVE  LET n == Received(Reported(mem, performed))
         IN /\ Follows(n) /\ n.pending = None
            /\ n.last # None /\ n.last.id = mem.pending.id
            /\ (performed => Awaits(n))
            /\ n.ledger = IF performed THEN Invalidate(mem.ledger, InvalidationBy(mem.pending.kind)) ELSE mem.ledger
<1> DEFINE led == IF performed THEN Invalidate(mem.ledger, InvalidationBy(mem.pending.kind)) ELSE mem.ledger
           a == mem.pending
           last == [id |-> a.id, kind |-> a.kind, frame |-> a.frame,
                    context |-> a.context, verified |-> FALSE, after |-> None,
                    status |-> IF performed THEN "user_reported" ELSE "skipped"]
           n == Received(Reported(mem, performed))
<1>1. Kept /\ Followed /\ asked \in Ids \ mem.receipts
  BY ServedTrusted
<1>2. FileTypeOK(mem) /\ FileInv(mem) /\ IsLedger(mem.ledger)
  BY <1>1 DEF Kept, TypeOK, FileInv, IsFile
<1>3. /\ IsLedger(led) /\ led.context = mem.ledger.context
      /\ IF performed THEN led.epoch = mem.ledger.epoch + 1 /\ led.frame = None ELSE led = mem.ledger
  BY <1>2, InvalidateHolds
<1>4. a \in Recommendations /\ a.frame = mem.ledger.frame /\ a.frame \in ImageFrames /\ a.frame # None
  <2>1. a \in Recommendations /\ a.frame = mem.ledger.frame
    BY <1>2 DEF FileTypeOK, FileInv, PendingBound
  <2>2. a.frame \in ImageFrames
    BY <2>1 DEF Recommendations
  <2> QED
    BY <2>1, <2>2, SessionAssumption
<1>5. /\ last \in Outcomes /\ last.id = a.id /\ last.frame = a.frame /\ last.verified = FALSE
      /\ last.status = IF performed THEN "user_reported" ELSE "skipped"
  BY <1>4 DEF Recommendations, Outcomes
<1>6. last # None
  BY <1>5, SessionAssumption
<1>7. Reported(mem, performed) = Ended(led, last)
  BY <1>2 DEF Reported, Ended, FileInv, IsFile
<1> HIDE DEF led, last, n, a
<1>8. /\ n.receipts \subseteq Ids /\ 1..asked \subseteq n.receipts
      /\ n.done \in [Ids -> Nat] /\ \A i \in Ids : n.done[i] = IF i \in n.receipts THEN 1 ELSE 0
      /\ n.ledger = led /\ n.pending = None /\ n.last = last /\ n.sources = mem.sources
      /\ IsFile(n)
  <2>1. n = Received(Ended(led, last))
    BY <1>7 DEF n
  <2> QED
    BY <1>1, <1>3, <2>1, OutcomeChanges
<1>9. mem.ledger.epoch \in Nat /\ led.epoch \in Nat /\ mem.ledger.epoch <= led.epoch
  BY <1>1, <1>3, NoImageYet
<1>10. FileTypeOK(n)
  <2>1. led.frame \in ImageFrames \cup {None} /\ led.context \in TurnContexts
    BY <1>2, <1>3 DEF FileTypeOK
  <2>2. n.sources \subseteq Images
    BY <1>2, <1>8 DEF FileTypeOK
  <2> QED
    BY <1>5, <1>8, <1>9, <2>1, <2>2 DEF FileTypeOK
<1>11. FrameBound(n) /\ PendingBound(n)
  <2>1. FrameBound(mem)
    BY <1>2 DEF FileInv
  <2> QED
    BY <1>3, <1>8, <2>1 DEF FrameBound, PendingBound
<1>12. ActionBefore(n)
  <2>1. CASE performed
    <3>1. last.frame.id \in DOMAIN album /\ album[last.frame.id].inputs < game.inputs
      BY <1>1, <1>2, <1>4, <1>5, <2>1 DEF FileInv, FrameBound, Followed, a
    <3>2. \A i \in DOMAIN album : album[i].epoch # led.epoch
      BY <1>1, <1>3, <2>1, NoImageYet
    <3> QED
      BY <1>5, <1>8, <3>1, <3>2 DEF ActionBefore
  <2>2. CASE ~performed
    BY <1>5, <1>8, <2>2 DEF ActionBefore
  <2> QED
    BY <2>1, <2>2
<1>13. \A i \in n.sources : files'[i] = "whole"
  BY <1>2, <1>8 DEF FileInv, SourcesWhole, FileTypeOK, Still
<1>14. Follows(n)
  BY <1>8, <1>9, <1>10, <1>11, <1>12, <1>13 DEF Follows
<1>15. performed => Awaits(n)
  BY <1>5, <1>6, <1>8 DEF Awaits
<1> QED
  BY <1>5, <1>6, <1>8, <1>14, <1>15 DEF led, a, n

\* A report: the player's hands are empty, its outcome is to be reviewed.
LEMMA ReportKeeps ==
  ASSUME SessionInv, ReportRequest
  PROVE  SessionInv'
<1> DEFINE performed == "advised" \in owed
           n == Received(Reported(mem, performed))
<1>1. /\ Serves(FALSE) /\ mem.pending # None
      /\ \/ Answered(n, FALSE) /\ held' = None /\ owed' = owed \ {"advised"}
         \/ SaveFails(n) /\ UNCHANGED <<held, owed>>
      /\ UNCHANGED <<files, album, game, unseen>>
  BY DEF ReportRequest
<1>2. Kept /\ Followed /\ ImagesCurrent /\ HandCurrent /\ StockCurrent /\ AdviceOnRecord
  BY <1>1, ServedTrusted DEF SessionInv
<1>3. Still
  BY <1>1, <1>2 DEF Still, Kept, TypeOK
<1>4. /\ Follows(n) /\ n.pending = None
      /\ n.last # None /\ n.last.id = mem.pending.id
      /\ (performed => Awaits(n))
      /\ n.ledger = IF performed THEN Invalidate(mem.ledger, InvalidationBy(mem.pending.kind)) ELSE mem.ledger
  <2>1. performed \in BOOLEAN /\ (performed <=> "advised" \in owed)
    OBVIOUS
  <2> HIDE DEF performed
  <2> QED
    BY <1>1, <1>3, <2>1, ReportedFollows
<1> HIDE DEF n
<1>5. /\ held' \in Recommendations \cup {None} /\ owed' \subseteq {"advised", "other"}
      /\ unseen' = unseen /\ unseen' \subseteq 1..MaxInputs /\ owed \subseteq {"advised", "other"}
  BY <1>1, <1>2 DEF Kept, TypeOK
<1>6. Kept'
  BY <1>1, <1>2, <1>3, <1>4, <1>5, ServedKeeps
<1>7. CASE Answered(n, FALSE) /\ held' = None /\ owed' = owed \ {"advised"}
  <2>1. unseen' # {} => Awaits(n)
    BY <1>1, <1>2, <1>4, <1>5 DEF Followed, Kept, FileInv, PendingBound
  <2>2. ASSUME owed' = {}
        PROVE  FactsTrue(n)
    <3>1. CASE ~performed
      <4>1. FactsTrue(mem)
        BY <1>2, <1>7, <2>2, <3>1, TrustedFacts
      <4> QED
        BY <1>4, <3>1, <4>1 DEF FactsTrue
    <3>2. CASE performed
      <4>1. IsLedger(mem.ledger) /\ owed = {"advised"}
        BY <1>2, <1>7, <2>2, <3>2 DEF Kept, FileInv, IsFile
      <4> DEFINE k == InvalidationBy(mem.pending.kind)
      <4>2. /\ n.ledger.epoch = mem.ledger.epoch + 1 /\ \A s \in Volatile : n.ledger.sections[s] = Blank("stale")
            /\ Stock(n.ledger) = IF k = "input" THEN Stock(mem.ledger) ELSE Blank("stale")
        <5> HIDE DEF k
        <5>1. n.ledger = Invalidate(mem.ledger, k)
          BY <1>4, <3>2 DEF k
        <5> QED
          BY <4>1, <5>1, InvalidateHolds
      <4>3. \A j \in DOMAIN album : album[j].epoch # n.ledger.epoch
        BY <1>2, <4>2, NoImageYet
      <4>4. ~Current(n.ledger.sections["hand"])
        BY <4>2 DEF Volatile, Blank, Current
      <4>5. Current(Stock(n.ledger)) => Stock(n.ledger).data = {game.owned}
        BY <1>2, <4>1, <4>2 DEF StockCurrent, InvalidationBy, Blank, Current
      <4> QED
        BY <4>3, <4>4, <4>5 DEF FactsTrue
    <3> QED
      BY <3>1, <3>2
  <2>3. TrustedInv'
    BY <1>3, <1>4, <1>7, <2>1, <2>2, AnswerTrusted
  <2>4. AdviceOnRecord'
    BY <1>7 DEF AdviceOnRecord
  <2> QED
    BY <1>6, <2>3, <2>4, InvariantOf
<1>8. CASE SaveFails(n) /\ UNCHANGED <<held, owed>>
  <2>1. disk' \in {disk, n} /\ held' = held
    BY <1>8 DEF SaveFails
  <2>2. held # None => mem.pending = held
    BY <1>2 DEF Followed
  <2>3. AdviceOnRecord'
    BY <1>2, <1>4, <2>1, <2>2 DEF AdviceOnRecord
  <2> QED
    BY <1>6, <1>8, <2>3, FailureTrusted, InvariantOf
<1> QED
  BY <1>1, <1>7, <1>8

-------------------------------------------------------------------------------
(* Everything else: restart, capture, inputs *)

\* Neither file is written.
LEMMA FilesStay ==
  ASSUME Kept, Still, UNCHANGED <<mem, disk, asked>>
  PROVE  FileInv(mem)' /\ FileInv(disk)' /\ FileTypeOK(mem)' /\ FileTypeOK(disk)'
<1>1. FileTypeOK(mem) /\ FileTypeOK(disk) /\ FileInv(mem) /\ FileInv(disk)
  BY DEF Kept, TypeOK
<1>2. FileInv(mem)'
  BY <1>1, FileStays DEF FileInv, IsFile, FrameBound, PendingBound, ActionBefore, Receipted, SourcesWhole, Awaits
<1>3. FileInv(disk)'
  BY <1>1, FileStays DEF FileInv, IsFile, FrameBound, PendingBound, ActionBefore, Receipted, SourcesWhole, Awaits
<1> QED
  BY <1>1, <1>2, <1>3 DEF FileTypeOK

\* A repeated request.
LEMMA RepeatedKeeps ==
  ASSUME SessionInv, Repeated
  PROVE  SessionInv'
<1>1. /\ up /\ ~poisoned /\ asked \in mem.receipts /\ asked' = asked + 1
      /\ UNCHANGED <<up, poisoned, mem, needs, disk, files, album, game, held, owed, unseen, faults>>
  BY DEF Repeated, session, player
<1>2. Kept /\ mem = disk
  BY <1>1 DEF SessionInv, Kept, InStep
<1>3. asked \in Ids /\ asked' \in 1..(MaxRequests + 1)
  BY <1>1, <1>2, SessionAssumption DEF Kept, TypeOK, FileTypeOK, Ids
<1>4. TypeOK'
  BY <1>1, <1>2, <1>3 DEF Kept, TypeOK, FileTypeOK
<1>5. Receipted(mem)'
  BY <1>1, <1>2, <1>3 DEF Kept, FileInv, Receipted, Ids
<1>6. FileInv(mem)' /\ FileInv(disk)'
  BY <1>1, <1>2, <1>5 DEF Kept, FileInv, IsFile, FrameBound, PendingBound, ActionBefore, Receipted, SourcesWhole, Awaits
<1>7. InStep' /\ AdviceOnRecord'
  BY <1>1, <1>2 DEF SessionInv, Kept, InStep, AdviceOnRecord
<1>8. Trusted' = Trusted /\ (Trusted => Followed /\ ImagesCurrent /\ HandCurrent /\ StockCurrent)
  BY <1>1 DEF SessionInv, Trusted
<1>9. Trusted => Followed' /\ ImagesCurrent' /\ HandCurrent' /\ StockCurrent'
  BY <1>1, <1>8 DEF Followed, Awaits, ImagesCurrent, HandCurrent, StockCurrent, Current, Stock
<1> QED
  BY <1>4, <1>6, <1>7, <1>8, <1>9 DEF SessionInv

\* A step that writes neither file and leaves the player as it was.
LEMMA QuietKeeps ==
  ASSUME SessionInv, Still, UNCHANGED <<mem, disk, asked, player>>,
         {up', poisoned', needs'} \subseteq BOOLEAN, faults' \in 0..MaxFaults, Trusted' => Trusted,
         ~poisoned' => ~poisoned
  PROVE  SessionInv'
<1>1. Kept
  BY DEF SessionInv, Kept
<1>2. FileInv(mem)' /\ FileInv(disk)' /\ FileTypeOK(mem)' /\ FileTypeOK(disk)'
  BY <1>1, FilesStay
<1>3. TypeOK'
  BY <1>1, <1>2 DEF Kept, TypeOK, Still, player
<1>4. InStep' /\ AdviceOnRecord'
  BY DEF SessionInv, InStep, AdviceOnRecord, player
<1>5. Trusted' => Followed' /\ ImagesCurrent' /\ HandCurrent' /\ StockCurrent'
  <2>1. Trusted' => Followed /\ ImagesCurrent /\ HandCurrent /\ StockCurrent
    BY DEF SessionInv
  <2> QED
    BY <2>1 DEF Followed, Awaits, ImagesCurrent, HandCurrent, StockCurrent, Current, Stock, player
<1> QED
  BY <1>2, <1>3, <1>4, <1>5 DEF SessionInv

\* A copy that breaks off is no source of either file.
LEMMA IngestFailsKeeps ==
  ASSUME SessionInv, NEW i \in Images, IngestFails(i)
  PROVE  SessionInv'
<1>1. /\ files[i] = "none" /\ files' = [files EXCEPT ![i] = "partial"]
      /\ faults < MaxFaults /\ faults' = faults + 1
      /\ UNCHANGED <<up, poisoned, mem, needs, disk, asked, player>>
  BY DEF IngestFails
<1>2. TypeOK
  BY DEF SessionInv
<1>3. Still
  BY <1>1, <1>2 DEF Still, TypeOK, player
<1>4. faults' \in 0..MaxFaults
  BY <1>1, <1>2, SessionAssumption DEF TypeOK
<1> QED
  BY <1>1, <1>2, <1>3, <1>4, QuietKeeps DEF TypeOK, Trusted

\* A process that is gone is not trusted, ...
LEMMA StopKeeps ==
  ASSUME SessionInv, Stop
  PROVE  SessionInv'
<1>1. /\ up /\ up' = FALSE /\ (~poisoned => faults < MaxFaults)
      /\ faults' = IF poisoned THEN faults ELSE faults + 1
      /\ UNCHANGED <<poisoned, mem, needs, disk, files, asked, player>>
  BY DEF Stop
<1>2. TypeOK
  BY DEF SessionInv
<1>3. Still
  BY <1>1, <1>2 DEF Still, TypeOK, player
<1>4. faults' \in 0..MaxFaults
  BY <1>1, <1>2, SessionAssumption DEF TypeOK
<1> QED
  BY <1>1, <1>2, <1>3, <1>4, QuietKeeps DEF TypeOK, Trusted

\* ... nor is the next one, before it was told of unlogged input.
LEMMA ResumeKeeps ==
  ASSUME SessionInv, Resume
  PROVE  SessionInv'
<1>1. /\ up' = TRUE /\ poisoned' = FALSE /\ needs' = TRUE /\ mem' = disk
      /\ UNCHANGED <<disk, files, asked, album, game, held, owed, unseen, faults>>
  BY DEF Resume, player
<1>2. TypeOK /\ FileInv(disk) /\ InStep /\ AdviceOnRecord
  BY DEF SessionInv
<1>3. TypeOK'
  BY <1>1, <1>2 DEF TypeOK, FileTypeOK
<1>4. FileInv(mem)' /\ FileInv(disk)'
  BY <1>1, <1>2 DEF FileInv, IsFile, FrameBound, PendingBound, ActionBefore, Receipted, SourcesWhole, Awaits
<1>5. InStep'
  <2>1. \A i \in DOMAIN album : album[i].epoch \in Nat
    BY <1>2, AlbumTyped
  <2>2. mem.ledger.epoch \in Nat /\ disk.ledger.epoch \in Nat /\ mem.ledger.epoch <= disk.ledger.epoch
    BY <1>2 DEF TypeOK, FileTypeOK, InStep
  <2>3. \A i \in DOMAIN album : album[i].epoch <= disk.ledger.epoch /\ album[i].inputs <= game.inputs
    BY <1>2, <2>1, <2>2 DEF InStep
  <2> QED
    BY <1>1, <2>2, <2>3 DEF InStep
<1>6. AdviceOnRecord' /\ ~Trusted'
  BY <1>1, <1>2 DEF AdviceOnRecord, Trusted
<1> QED
  BY <1>3, <1>4, <1>5, <1>6 DEF SessionInv

\* An image more: it shows the game as it is, in the present epoch.
LEMMA CaptureKeeps ==
  ASSUME SessionInv, Capture
  PROVE  SessionInv'
<1> DEFINE s == [inputs |-> game.inputs, owned |-> game.owned,
                 epoch |-> mem.ledger.epoch, context |-> mem.ledger.context]
<1>1. /\ up /\ ~poisoned /\ Len(album) < MaxImages /\ album' = Append(album, s)
      /\ UNCHANGED <<up, poisoned, mem, needs, disk, files, asked, game, held, owed, unseen, faults>>
  BY DEF Capture, session
<1>2. TypeOK /\ FileInv(mem) /\ InStep /\ AdviceOnRecord /\ mem = disk
  BY <1>1 DEF SessionInv, InStep
<1>3. /\ album \in Seq(Snapshots) /\ Len(album) \in Nat /\ DOMAIN album = 1..Len(album)
      /\ \A i \in DOMAIN album : album[i].inputs \in Nat /\ album[i].epoch \in Nat
  BY <1>2, AlbumTyped
<1>4. s \in Snapshots /\ s.inputs = game.inputs /\ s.owned = game.owned /\ s.epoch = mem.ledger.epoch
      /\ s.context = mem.ledger.context /\ game.inputs \in Nat /\ mem.ledger.epoch \in Nat
  BY <1>2, SessionAssumption DEF Snapshots, TypeOK, FileTypeOK
<1> HIDE DEF s
<1>5. /\ album' \in Seq(Snapshots) /\ Len(album') = Len(album) + 1 /\ DOMAIN album' = 1..(Len(album) + 1)
      /\ \A i \in DOMAIN album : i \in DOMAIN album' /\ album'[i] = album[i]
      /\ \A i \in DOMAIN album' : i \in DOMAIN album \/ album'[i] = s
  BY <1>1, <1>3, <1>4
<1>6. TypeOK'
  <2>1. Len(album') <= MaxImages
    BY <1>1, <1>3, <1>5, SessionAssumption
  <2>2. album' \in Seq([inputs : Nat, owned : Nat, epoch : Nat, context : TurnContexts])
    BY <1>5 DEF Snapshots
  <2> QED
    BY <1>1, <1>2, <2>1, <2>2 DEF TypeOK, FileTypeOK
<1>7. FileInv(mem)'
  <2>1. FrameBound(mem)'
    BY <1>1, <1>2, <1>5 DEF FileInv, FrameBound
  <2>2. ActionBefore(mem)'
    <3> SUFFICES ASSUME mem.last # None, mem.last.status = "user_reported"
                 PROVE  LET before == album'[mem.last.frame.id].inputs IN
                        /\ mem.last.frame.id \in DOMAIN album' /\ before < game.inputs
                        /\ \A i \in DOMAIN album' : album'[i].epoch = mem.ledger.epoch => before < album'[i].inputs
                        /\ mem.last.verified =>
                             mem.last.after \in DOMAIN album' /\ before < album'[mem.last.after].inputs
      BY <1>1 DEF ActionBefore
    <3> DEFINE f == mem.last.frame.id
    <3>1. /\ f \in DOMAIN album /\ album[f].inputs < game.inputs
          /\ \A i \in DOMAIN album : album[i].epoch = mem.ledger.epoch => album[f].inputs < album[i].inputs
          /\ mem.last.verified => mem.last.after \in DOMAIN album /\ album[f].inputs < album[mem.last.after].inputs
      BY <1>2 DEF FileInv, ActionBefore
    <3> HIDE DEF f
    <3>2. \A i \in DOMAIN album' : album'[i].epoch = mem.ledger.epoch => album[f].inputs < album'[i].inputs
      BY <1>4, <1>5, <3>1
    <3> QED
      BY <1>5, <3>1, <3>2 DEF f
  <2>3. IsFile(mem)' /\ PendingBound(mem)' /\ Receipted(mem)' /\ SourcesWhole(mem)'
    BY <1>1, <1>2 DEF FileInv, IsFile, PendingBound, Receipted, SourcesWhole, Awaits
  <2> QED
    BY <2>1, <2>2, <2>3 DEF FileInv
<1>8. FileInv(disk)'
  BY <1>1, <1>2, <1>7 DEF FileInv, IsFile, FrameBound, PendingBound, ActionBefore, Receipted, SourcesWhole, Awaits
<1>9. InStep' /\ AdviceOnRecord'
  <2>1. \A i \in DOMAIN album' : album'[i].epoch <= mem.ledger.epoch /\ album'[i].inputs <= game.inputs
    BY <1>2, <1>4, <1>5 DEF InStep
  <2> QED
    BY <1>1, <1>2, <2>1 DEF InStep, AdviceOnRecord
<1>10. Trusted => Followed' /\ ImagesCurrent' /\ HandCurrent' /\ StockCurrent'
  <2> SUFFICES ASSUME Trusted
               PROVE  Followed' /\ ImagesCurrent' /\ HandCurrent' /\ StockCurrent'
    OBVIOUS
  <2>1. Followed /\ ImagesCurrent /\ HandCurrent /\ StockCurrent
    BY DEF SessionInv
  <2>2. mem.pending # None => mem.pending.frame.id \in DOMAIN album
    <3>1. mem.pending # None => mem.pending.frame = mem.ledger.frame /\ mem.ledger.frame # None
      <4>1. mem.pending # None => mem.pending.frame \in ImageFrames
        BY <1>2 DEF TypeOK, FileTypeOK, Recommendations
      <4> QED
        BY <1>2, <4>1, SessionAssumption DEF FileInv, PendingBound
    <3> QED
      BY <1>2, <3>1 DEF FileInv, FrameBound
  <2>3. Followed'
    BY <1>1, <1>5, <2>1, <2>2 DEF Followed, Awaits
  <2>4. ImagesCurrent'
    BY <1>1, <1>4, <1>5, <2>1 DEF ImagesCurrent
  <2>5. HandCurrent' /\ StockCurrent'
    BY <1>1, <2>1 DEF HandCurrent, StockCurrent, Current, Stock
  <2> QED
    BY <2>3, <2>4, <2>5
<1>11. Trusted' = Trusted
  BY <1>1 DEF Trusted
<1> QED
  BY <1>6, <1>7, <1>8, <1>9, <1>10, <1>11 DEF SessionInv

\* An input the session knows nothing of yet.
LEMMA InputKeeps ==
  ASSUME SessionInv, UNCHANGED <<session, asked, album, faults>>, NEW kind \in Kinds, Input(kind),
         held' = held \/ held' = None, owed' \subseteq {"advised", "other"}, unseen' \subseteq 1..MaxInputs
  PROVE  Kept' /\ AdviceOnRecord'
<1>1. /\ UNCHANGED <<up, poisoned, mem, needs, disk, files, asked, album, faults>>
      /\ TypeOK /\ FileInv(mem) /\ FileInv(disk) /\ InStep /\ AdviceOnRecord
  BY DEF SessionInv, session
<1>2. /\ game.inputs \in 0..MaxInputs /\ game'.inputs = game.inputs + 1 /\ MaxInputs \in Nat
      /\ game' \in [inputs : 0..MaxInputs, owned : 0..MaxInputs, turn : 1..MaxTurns]
  BY <1>1, SessionAssumption DEF TypeOK, Input
<1>3. \A i \in DOMAIN album : album[i].inputs \in Nat
  BY <1>1, AlbumTyped
<1>4. TypeOK'
  BY <1>1, <1>2 DEF TypeOK, FileTypeOK
<1>5. \A m : FileInv(m) => ActionBefore(m)'
  <2> SUFFICES ASSUME NEW m, ActionBefore(m)
               PROVE  ActionBefore(m)'
    BY DEF FileInv
  <2> DEFINE f == m.last.frame.id
  <2>1. \A x \in Nat : x < game.inputs => x < game'.inputs
    BY <1>2
  <2> QED
    BY <1>1, <1>3, <2>1 DEF ActionBefore
<1>6. FileInv(mem)' /\ FileInv(disk)'
  BY <1>1, <1>5 DEF FileInv, IsFile, FrameBound, PendingBound, ActionBefore, Receipted, SourcesWhole, Awaits
<1>7. InStep'
  BY <1>1, <1>2, <1>3 DEF InStep
<1> QED
  BY <1>1, <1>4, <1>6, <1>7 DEF Kept, AdviceOnRecord

\* The advised input: its image was captured before it.
LEMMA FollowKeeps ==
  ASSUME SessionInv, Follow
  PROVE  SessionInv'
<1>1. /\ held # None /\ Input(held.kind) /\ held' = None
      /\ owed' = owed \cup {"advised"} /\ unseen' = unseen \cup {game.inputs + 1}
      /\ UNCHANGED <<session, asked, album, faults>>
  BY DEF Follow
<1>2. TypeOK /\ InStep /\ FileInv(mem)
  BY DEF SessionInv
<1>3. held.kind \in Kinds /\ owed' \subseteq {"advised", "other"} /\ unseen' \subseteq 1..MaxInputs
  BY <1>1, <1>2, SessionAssumption DEF TypeOK, Recommendations, Input
<1>4. Kept' /\ AdviceOnRecord'
  BY <1>1, <1>3, InputKeeps
<1>5. Trusted => Followed' /\ ImagesCurrent' /\ HandCurrent' /\ StockCurrent'
  <2> SUFFICES ASSUME Trusted
               PROVE  Followed' /\ ImagesCurrent' /\ HandCurrent' /\ StockCurrent'
    OBVIOUS
  <2>1. StockCurrent /\ mem.pending = held /\ "advised" \notin owed
    BY <1>1 DEF SessionInv, Followed
  <2>2. mem.pending.frame.id \in DOMAIN album
    <3>1. held.frame \in ImageFrames
      BY <1>1, <1>2 DEF TypeOK, Recommendations
    <3>2. mem.pending.frame = mem.ledger.frame /\ mem.ledger.frame # None
      BY <1>1, <1>2, <2>1, <3>1, SessionAssumption DEF FileInv, PendingBound
    <3> QED
      BY <1>2, <3>2 DEF FileInv, FrameBound
  <2>3. album[mem.pending.frame.id].inputs < game'.inputs
    <3>1. album[mem.pending.frame.id].inputs \in Nat /\ album[mem.pending.frame.id].inputs <= game.inputs
      BY <1>2, <2>2, AlbumTyped DEF InStep
    <3>2. game.inputs \in Nat /\ game'.inputs = game.inputs + 1
      BY <1>1, <1>2, SessionAssumption DEF TypeOK, Input
    <3> QED
      BY <3>1, <3>2
  <2>4. mem' = mem /\ album' = album
    BY <1>1 DEF session
  <2>5. Followed'
    BY <1>1, <2>1, <2>3, <2>4 DEF Followed
  <2>6. ImagesCurrent' /\ HandCurrent'
    BY <1>1 DEF ImagesCurrent, HandCurrent
  <2>7. StockCurrent'
    <3>1. SUFFICES ASSUME Current(Stock(mem.ledger)), owed' = {"advised"}, held.kind # "potion"
                   PROVE  Stock(mem.ledger).data = {game'.owned}
      BY <1>1, <2>1, <2>4 DEF StockCurrent, Current, Stock
    <3>2. game'.owned = game.owned
      BY <1>1, <3>1 DEF Input
    <3>3. owed = {}
      BY <1>1, <1>2, <2>1, <3>1 DEF TypeOK
    <3> QED
      BY <2>1, <3>1, <3>2, <3>3 DEF StockCurrent
  <2> QED
    BY <2>5, <2>6, <2>7
<1>6. Trusted' = Trusted
  BY <1>1 DEF Trusted, session
<1> QED
  BY <1>4, <1>5, <1>6 DEF Kept, SessionInv

\* Another input: from here on the session was not told of all.
LEMMA StrayKeeps ==
  ASSUME SessionInv, Stray
  PROVE  SessionInv'
<1>1. PICK kind \in Kinds : Input(kind)
  BY DEF Stray
<1>2. /\ owed' = owed \cup {"other"} /\ held' = held /\ unseen' = unseen
      /\ UNCHANGED <<session, asked, album, faults>>
  BY DEF Stray
<1>3. TypeOK /\ InStep /\ FileInv(mem)
  BY DEF SessionInv
<1>4. owed' \subseteq {"advised", "other"} /\ unseen' \subseteq 1..MaxInputs
  BY <1>2, <1>3 DEF TypeOK
<1>5. Kept' /\ AdviceOnRecord'
  BY <1>1, <1>2, <1>4, InputKeeps
<1>6. Trusted => Followed' /\ ImagesCurrent' /\ HandCurrent' /\ StockCurrent'
  <2> SUFFICES ASSUME Trusted
               PROVE  Followed' /\ ImagesCurrent' /\ HandCurrent' /\ StockCurrent'
    OBVIOUS
  <2>1. Followed
    BY DEF SessionInv
  <2>2. mem' = mem /\ album' = album
    BY <1>2 DEF session
  <2>3. game.inputs \in Nat /\ game'.inputs = game.inputs + 1
    BY <1>1, <1>3, SessionAssumption DEF TypeOK, Input
  <2>4. "advised" \in owed' => "advised" \in owed
    BY <1>2
  <2>5. "advised" \in owed =>
          mem.pending # None /\ album[mem.pending.frame.id].inputs < game'.inputs
    <3>1. SUFFICES ASSUME "advised" \in owed
                   PROVE  mem.pending # None /\ album[mem.pending.frame.id].inputs < game'.inputs
      OBVIOUS
    <3>2. mem.pending # None /\ album[mem.pending.frame.id].inputs < game.inputs
      BY <2>1, <3>1 DEF Followed
    <3>3. mem.pending.frame.id \in DOMAIN album
      <4>1. mem.pending.frame \in ImageFrames
        BY <1>3, <3>2 DEF TypeOK, FileTypeOK, Recommendations
      <4>2. mem.pending.frame = mem.ledger.frame /\ mem.ledger.frame # None
        BY <1>3, <3>2, <4>1, SessionAssumption DEF FileInv, PendingBound
      <4> QED
        BY <1>3, <4>2 DEF FileInv, FrameBound
    <3>4. album[mem.pending.frame.id].inputs \in Nat
      BY <1>3, <3>3, AlbumTyped
    <3> QED
      BY <2>3, <3>2, <3>4
  <2>6. Followed'
    BY <1>2, <2>1, <2>2, <2>4, <2>5 DEF Followed, Awaits
  <2>7. ImagesCurrent' /\ HandCurrent' /\ StockCurrent'
    BY <1>2 DEF ImagesCurrent, HandCurrent, StockCurrent
  <2> QED
    BY <2>6, <2>7
<1>7. Trusted' = Trusted
  BY <1>2 DEF Trusted, session
<1> QED
  BY <1>5, <1>6, <1>7 DEF Kept, SessionInv

-------------------------------------------------------------------------------
(* Theorems about the session *)

\* The invariant holds at first, ...
LEMMA SessionInit ==
  ASSUME Init
  PROVE  SessionInv
<1>1. /\ up = TRUE /\ poisoned = FALSE /\ needs = FALSE /\ mem = Fresh /\ disk = Fresh
      /\ files = [i \in Images |-> "none"] /\ asked = 1 /\ album = <<>>
      /\ game = [inputs |-> 0, owned |-> 0, turn |-> 1]
      /\ held = None /\ owed = {} /\ unseen = {} /\ faults = 0
  BY DEF Init
<1>2. /\ Fresh.ledger = NewLedger(Context(1)) /\ Fresh.pending = None /\ Fresh.last = None
      /\ Fresh.receipts = {} /\ Fresh.sources = {} /\ Fresh.done = [i \in Ids |-> 0]
      /\ IsFile(Fresh)
  BY DEF Fresh, IsFile, IsLedger, NewLedger
<1>3. /\ NewLedger(Context(1)).context = Context(1) /\ NewLedger(Context(1)).epoch = 0
      /\ NewLedger(Context(1)).frame = None
      /\ \A n \in Sections : NewLedger(Context(1)).sections[n] = Blank("missing")
  BY DEF NewLedger
<1>4. Context(1) \in TurnContexts
  BY SessionAssumption DEF TurnContexts
<1> HIDE DEF Fresh, NewLedger
<1>5. FileTypeOK(Fresh)
  BY <1>2, <1>3, <1>4 DEF FileTypeOK
<1>6. album \in Seq([inputs : Nat, owned : Nat, epoch : Nat, context : TurnContexts])
      /\ Len(album) = 0 /\ DOMAIN album = {}
  BY <1>1
<1>7. TypeOK
  <2>1. asked \in 1..(MaxRequests + 1) /\ faults \in 0..MaxFaults /\ Len(album) <= MaxImages
    BY <1>1, <1>6, SessionAssumption
  <2>2. game \in [inputs : 0..MaxInputs, owned : 0..MaxInputs, turn : 1..MaxTurns]
    BY <1>1, SessionAssumption
  <2>3. files \in [Images -> {"none", "partial", "whole"}]
    BY <1>1
  <2> QED
    BY <1>1, <1>5, <1>6, <2>1, <2>2, <2>3 DEF TypeOK
<1>8. FileInv(Fresh)
  BY <1>1, <1>2, <1>3 DEF FileInv, FrameBound, PendingBound, ActionBefore, Receipted, SourcesWhole
<1>9. InStep /\ AdviceOnRecord
  BY <1>1, <1>2, <1>3, <1>6 DEF InStep, AdviceOnRecord
<1>10. Followed /\ ImagesCurrent
  BY <1>1, <1>6 DEF Followed, ImagesCurrent
<1>11. HandCurrent /\ StockCurrent
  BY <1>1, <1>2, <1>3 DEF HandCurrent, StockCurrent, Stock, Current, Sections, Volatile, Blank
<1> QED
  BY <1>1, <1>7, <1>8, <1>9, <1>10, <1>11 DEF SessionInv

\* ... and every step keeps it.
LEMMA SessionStep ==
  ASSUME SessionInv, [Next]_vars
  PROVE  SessionInv'
<1>1. CASE Request
  <2>1. CASE Repeated
    BY <2>1, RepeatedKeeps
  <2>2. CASE \E i \in Images, full, carry \in BOOLEAN : ObserveRequest(i, full, carry)
    BY <2>2, ObserveKeeps
  <2>3. CASE \E kind \in {"baseline", "verified_transition"} : InventoryRequest(kind)
    BY <2>3, InventoryKeeps
  <2>4. CASE \E kind \in Kinds, allowed \in BOOLEAN : AdviseRequest(kind, allowed)
    BY <2>4, AdviseKeeps
  <2>5. CASE ReportRequest
    BY <2>5, ReportKeeps
  <2>6. CASE UnloggedRequest
    BY <2>6, UnloggedKeeps
  <2>7. CASE ContextRequest
    BY <2>7, ContextKeeps
  <2> QED
    BY <1>1, <2>1, <2>2, <2>3, <2>4, <2>5, <2>6, <2>7 DEF Request
<1>2. CASE \E i \in Images : IngestFails(i)
  BY <1>2, IngestFailsKeeps
<1>3. CASE Stop
  BY <1>3, StopKeeps
<1>4. CASE Resume
  BY <1>4, ResumeKeeps
<1>5. CASE Capture
  BY <1>5, CaptureKeeps
<1>6. CASE Follow
  BY <1>6, FollowKeeps
<1>7. CASE Stray
  BY <1>7, StrayKeeps
<1>8. CASE UNCHANGED vars
  <2>1. /\ UNCHANGED <<up, poisoned, mem, needs, disk, files, asked, album, game, held, owed, unseen, faults>>
        /\ UNCHANGED player
    BY <1>8 DEF vars, session, player
  <2>2. TypeOK
    BY DEF SessionInv
  <2>3. Still
    BY <2>1, <2>2 DEF Still, TypeOK
  <2> QED
    BY <2>1, <2>2, <2>3, QuietKeeps DEF TypeOK, Trusted
<1> QED
  BY <1>1, <1>2, <1>3, <1>4, <1>5, <1>6, <1>7, <1>8 DEF Next

\* The memory, the file, the images and what the player holds and owes agree as
\* SessionInv says, after any requests, inputs, failed saves, kills and resumes.
THEOREM SessionInvariant == Spec => []SessionInv
<1>1. Init => SessionInv
  BY SessionInit
<1>2. SessionInv /\ [Next]_vars => SessionInv'
  BY SessionStep
<1> QED
  BY <1>1, <1>2, PTL DEF Spec

\* The facts that a session told of every input shows as current are those of
\* the present state of the game (observe, inventory, and every invalidation).
THEOREM FactsStayTrue == Spec => []CurrentFactsAreTrue
<1>1. SessionInv => CurrentFactsAreTrue
  BY DEF SessionInv, HandCurrent, StockCurrent, CurrentFactsAreTrue
<1> QED
  BY <1>1, SessionInvariant, PTL

\* No save, copy or kill leaves a file that resume would refuse.
THEOREM SessionResumes == Spec => []AlwaysResumable
<1>1. SessionInv => AlwaysResumable
  BY DEF SessionInv, FileInv, SourcesWhole, PendingBound, AlwaysResumable, Resumable
<1> QED
  BY <1>1, SessionInvariant, PTL

\* Each id takes effect once and is on file when it was answered; advice is given
\* after the last one was reviewed or given up, is never forgotten, and is
\* reviewed on an image that was captured after it was followed.
THEOREM AdviceStaysSound == Spec => []AdviceIsSound
<1>1. ASSUME SessionInv
      PROVE  ReceiptsAreExact
  <2>1. FileInv(mem) /\ FileInv(disk)
    BY <1>1 DEF SessionInv
  <2> QED
    BY <2>1 DEF FileInv, Receipted, ReceiptsAreExact
<1>2. ASSUME SessionInv
      PROVE  AdviceAfterOutcome
  <2>1. PendingBound(mem) /\ (Trusted => Followed)
    BY <1>2 DEF SessionInv, FileInv
  <2> QED
    BY <2>1 DEF PendingBound, Followed, AdviceAfterOutcome
<1>3. ASSUME SessionInv
      PROVE  OutcomeSeen
  <2>1. ActionBefore(mem) /\ ActionBefore(disk)
    BY <1>3 DEF SessionInv, FileInv
  <2>2. \A i \in DOMAIN album : album[i].inputs \in Nat
    BY <1>3, AlbumTyped DEF SessionInv
  <2>3. \A x, y \in Nat : x < y => y > x
    OBVIOUS
  <2> QED
    BY <2>1, <2>2, <2>3 DEF ActionBefore, OutcomeSeen
<1>4. SessionInv => AdviceIsSound
  BY <1>1, <1>2, <1>3 DEF SessionInv, AdviceIsSound
<1> QED
  BY <1>4, SessionInvariant, PTL

-------------------------------------------------------------------------------
(* The way through the map (MapTravel) *)

\* What holds at the start, and further whenever it held, holds up to n.
LEMMA Upwards ==
  ASSUME NEW n \in Nat, NEW S, 0 \in S, \A k \in 1..n : k - 1 \in S => k \in S
  PROVE  0..n \subseteq S
<1> SUFFICES ASSUME NEW k \in 0..n, k \notin S
             PROVE  FALSE
  OBVIOUS
<1> DEFINE Below == {0..i : i \in {i \in 0..n : i \notin S}}
<1>1. Below \subseteq FiniteSubsetsOf(0..n) /\ Below # {}
  <2>1. IsFiniteSet(0..n)
    BY FS_Interval
  <2>2. \A i \in 0..n : 0..i \subseteq 0..n
    OBVIOUS
  <2>3. \A i \in 0..n : IsFiniteSet(0..i)
    BY <2>1, <2>2, FS_Subset
  <2> QED
    BY <2>2, <2>3 DEF FiniteSubsetsOf
<1>2. PICK s \in Below : \A r \in Below : <<r, s>> \notin StrictSubsetOrdering(0..n)
  <2>1. IsWellFoundedOn(StrictSubsetOrdering(0..n), FiniteSubsetsOf(0..n))
    BY <1>1, FS_Interval, FS_StrictSubsetOrderingWellFounded
  <2> HIDE DEF Below
  <2> QED
    BY <1>1, <2>1, WFMin
<1>3. PICK m \in 0..n : m \notin S /\ s = 0..m
  BY <1>2
<1>4. m \in 1..n /\ m - 1 \in 0..n /\ m - 1 \notin S
  BY <1>3
<1>5. 0..(m - 1) \in Below /\ 0..(m - 1) \in SUBSET (0..n) /\ s \in SUBSET (0..n)
  BY <1>3, <1>4
<1>6. 0..(m - 1) \subseteq s /\ 0..(m - 1) # s
  <2>1. m \in 0..m /\ m \notin 0..(m - 1) /\ \A i \in 0..(m - 1) : i \in 0..m
    BY <1>4
  <2> QED
    BY <1>3, <2>1
<1>7. <<0..(m - 1), s>> \in StrictSubsetOrdering(0..n)
  <2> HIDE DEF Below
  <2> QED
    BY <1>5, <1>6 DEF StrictSubsetOrdering
<1> QED
  BY <1>2, <1>5, <1>7

-------------------------------------------------------------------------------
(* What a survey may be sure of *)

MergedFrom(g, vs) ==
  /\ g[0] = NothingSeen
  /\ \A k \in 1..Len(vs) : g[k] = MergeView(g[k - 1], vs[k])
  /\ Survey(vs).edges = g[Len(vs)].edges

\* Its last check does not touch the edges.
LEMMA NothingOk == ASSUME NEW b PROVE [NothingSeen EXCEPT !.ok = b].edges = NothingSeen.edges
  BY DEF NothingSeen
\* Nor does it otherwise.
LEMMA MergeOk ==
  ASSUME NEW s, NEW v, NEW b
  PROVE  [MergeView(s, v) EXCEPT !.ok = b].edges = MergeView(s, v).edges
  BY DEF MergeView

\* A survey takes one view after the other.
LEMMA OneByOne ==
  ASSUME NEW S, NEW vs \in Seq(S)
  PROVE  \E g : MergedFrom(g, vs)
<1> DEFINE n == Len(vs)
           Next1(f, k) == IF k = 0 THEN NothingSeen ELSE MergeView(f[k - 1], vs[k])
           Is(f, m) == f = [k \in 0..m |-> Next1(f, k)]
           T == {m \in 0..n : \E f : Is(f, m)}
<1>1. n \in Nat
  OBVIOUS
<1>2. 0 \in T
  <2> DEFINE f == [k \in 0..0 |-> NothingSeen]
  <2>1. \A k \in 0..0 : k = 0
    OBVIOUS
  <2>2. Is(f, 0)
    BY <2>1
  <2>3. 0 \in 0..n
    BY <1>1
  <2> HIDE DEF f, Is
  <2> QED
    BY <2>2, <2>3
<1>3. \A m \in 1..n : m - 1 \in T => m \in T
  <2> SUFFICES ASSUME NEW m \in 1..n, NEW f, Is(f, m - 1)
               PROVE  m \in 0..n /\ \E h : Is(h, m)
    OBVIOUS
  <2> DEFINE h == [k \in 0..m |-> IF k = m THEN MergeView(f[m - 1], vs[m]) ELSE f[k]]
  <2>1. m \in 0..n /\ m # 0 /\ \A k \in 0..m : k # m => k \in 0..(m - 1)
    BY <1>1
  <2>2. \A k \in 0..m : h[k] = Next1(h, k)
    <3> SUFFICES ASSUME NEW k \in 0..m
                 PROVE  h[k] = Next1(h, k)
      OBVIOUS
    <3>1. k # 0 => k - 1 \in 0..m /\ k - 1 # m
      BY <1>1
    <3>2. k # 0 => h[k - 1] = f[k - 1]
      BY <3>1
    <3>3. CASE k = m
      BY <2>1, <3>2, <3>3
    <3>4. CASE k # m
      <4>1. k \in 0..(m - 1) /\ h[k] = f[k]
        BY <2>1, <3>4
      <4>2. f[k] = Next1(f, k)
        BY <4>1
      <4> QED
        BY <3>2, <4>1, <4>2
    <3> QED
      BY <3>3, <3>4
  <2>3. Is(h, m)
    <3> DEFINE h2 == [k \in 0..m |-> Next1(h, k)]
    <3>1. h = h2
      <4> HIDE DEF Next1
      <4> QED
        BY <2>2
    <3> QED
      BY <3>1
  <2> QED
    BY <2>1, <2>3
<1>4. \E f : Is(f, n)
  <2>1. n \in T
    <3> HIDE DEF T, n
    <3>1. 0..n \subseteq T
      BY <1>1, <1>2, <1>3, Upwards
    <3>2. n \in 0..n
      BY <1>1
    <3> QED
      BY <3>1, <3>2
  <2> QED
    BY <2>1
<1> DEFINE g == CHOOSE f : Is(f, n)
<1>5. Is(g, n)
  BY <1>4
<1>6. MergedSurvey(vs) = g[n]
  BY DEF MergedSurvey
<1>7. \A k \in 0..n : g[k] = Next1(g, k)
  <2> HIDE DEF g, Next1
  <2> QED
    BY <1>5
<1> HIDE DEF g
<1>8. g[0] = NothingSeen
  BY <1>1, <1>7
<1>9. \A k \in 1..n : g[k] = MergeView(g[k - 1], vs[k])
  BY <1>1, <1>7
<1>10. Survey(vs).edges = MergedSurvey(vs).edges
  <2>1. n = 0 \/ n \in 1..n
    BY <1>1
  <2>2. CASE n = 0
    BY <2>2, <1>6, <1>8, NothingOk DEF Survey
  <2>3. CASE n \in 1..n
    <3>1. MergedSurvey(vs) = MergeView(g[n - 1], vs[n])
      BY <1>6, <1>9, <2>3
    <3> HIDE DEF n
    <3> QED
      BY <3>1, MergeOk DEF Survey
  <2> QED
    BY <2>1, <2>2, <2>3
<1> QED
  BY <1>6, <1>8, <1>9, <1>10 DEF MergedFrom

\* Merging makes no edge sure that was not.
LEMMA MergeSure ==
  ASSUME NEW s, NEW v, NEW E, SureEdges(s) \subseteq E, SureEdges(v) \subseteq E
  PROVE  SureEdges(MergeView(s, v)) \subseteq E
  BY DEF MergeView, JoinEdges, SureEdges

\* Nor does a survey.
LEMMA SurveySure ==
  ASSUME NEW m \in Maps, NEW vs \in Seq(Offered(m) \ {Unseen})
  PROVE  SureEdges(Survey(vs)) \subseteq m.edges
<1>1. PICK g : MergedFrom(g, vs)
  BY OneByOne
<1> DEFINE n == Len(vs)
           S == {k \in 0..n : SureEdges(g[k]) \subseteq m.edges}
<1>2. n \in Nat
  OBVIOUS
<1>3. 0 \in S
  <2>1. SureEdges(NothingSeen) = {}
    BY DEF SureEdges, NothingSeen
  <2> QED
    BY <1>1, <1>2, <2>1 DEF MergedFrom
<1>4. ASSUME NEW k \in 1..n, k - 1 \in S
      PROVE  k \in S
  <2>1. k \in 0..n /\ vs[k] \in Offered(m) \ {Unseen}
    BY <1>2
  <2>2. SureEdges(vs[k]) \subseteq m.edges
    BY <2>1, TravelAssumption
  <2>3. SureEdges(MergeView(g[k - 1], vs[k])) \subseteq m.edges
    BY <1>4, <2>2, MergeSure
  <2> QED
    BY <1>1, <2>1, <2>3 DEF MergedFrom
<1>5. n \in S
  <2> HIDE DEF S, n
  <2> QED
    BY <1>2, <1>3, <1>4, Upwards
<1> QED
  BY <1>1, <1>5 DEF MergedFrom, SureEdges

-------------------------------------------------------------------------------
(* The types *)

ScreenOk(s) ==
  /\ s.at \in MapRooms(act) /\ s.moment \in Nat /\ s.res \in Purses /\ s.items \in Belongings
  /\ s.options \in [ExitsOf(act.edges, s.at) -> Range(act.kind) \cup {"unknown"}]

Views == Seq(Offered(act) \ {Unseen})
Caches == [views : Views, route : {Unseen} \cup Routes(act)]

\* Exits lead to rooms, and there are finitely many.
LEMMA ExitsAreRooms ==
  ASSUME act \in Maps, NEW n
  PROVE  ExitsOf(act.edges, n) \subseteq MapRooms(act) /\ IsFiniteSet(ExitsOf(act.edges, n))
<1>1. ExitsOf(act.edges, n) \subseteq MapRooms(act)
  BY SurveyAssumption DEF ExitsOf, MapRooms
<1>2. IsFiniteSet(MapRooms(act))
  BY SurveyAssumption DEF MapRooms
<1> QED
  BY <1>1, <1>2, FS_Subset

\* What is shown in a room has its type.
LEMMA ScreensOk ==
  ASSUME act \in Maps, NEW n \in MapRooms(act), NEW k \in Nat, NEW s \in Screens(n, k)
  PROVE  ScreenOk(s)
<1>1. /\ s.at = n /\ s.moment = k /\ s.res \in Purses /\ s.items \in Belongings
      /\ s.options \in Readings(n)
  BY DEF Screens
<1> DEFINE E == ExitsOf(act.edges, n)
           clear == [o \in E |-> act.kind[o]]
           R == Range(act.kind) \cup {"unknown"}
<1>2. E \subseteq DOMAIN act.kind
  BY ExitsAreRooms DEF MapRooms
<1>3. clear \in [E -> R]
  BY <1>2 DEF Range
<1>4. \A o \in DOMAIN clear : [clear EXCEPT ![o] = "unknown"] \in [E -> R]
  <2> HIDE DEF clear, E
  <2> QED
    BY <1>3
<1>5. s.options = clear \/ \E o \in DOMAIN clear : s.options = [clear EXCEPT ![o] = "unknown"]
  BY <1>1 DEF Readings
<1> HIDE DEF clear
<1>6. s.options \in [E -> R]
  BY <1>3, <1>4, <1>5
<1> QED
  BY <1>1, <1>6 DEF ScreenOk

\* What is known after a plan with view v.
LEMMA ViewsKept ==
  ASSUME act \in Maps, NEW vs \in Views, Len(vs) <= MaxViews, NEW v \in Offered(act)
  PROVE  /\ MergedViews(vs, v) \in Views /\ Len(MergedViews(vs, v)) <= MaxViews + 1
         /\ MergedViews(vs, v) \in Gathered(act)
<1> DEFINE ws == MergedViews(vs, v)
           V == Offered(act) \ {Unseen}
<1>1. ws = vs \/ (v # Unseen /\ ws = Append(vs, v))
  BY DEF MergedViews
<1>2. MaxViews \in Nat
  BY SurveyAssumption
<1>3. ws \in Seq(V) /\ Len(ws) <= MaxViews + 1
  BY <1>1, <1>2 DEF Views
<1> HIDE DEF ws, V
<1>4. Len(ws) \in 0..(MaxViews + 1) /\ ws \in [1..Len(ws) -> V]
  BY <1>2, <1>3
<1> QED
  BY <1>3, <1>4 DEF Gathered, Views, ws, V

-------------------------------------------------------------------------------
(* A route, and the place in it *)

\* A room that is still ahead has a position.
LEMMA IndexIs ==
  ASSUME NEW r \in Routes(act), NEW n, OnRoute(r, n)
  PROVE  IndexOf(r.path, n) \in DOMAIN r.path /\ r.path[IndexOf(r.path, n)] = n
<1>1. r.path \in Seq(MapRooms(act)) /\ r.cursor \in Nat \ {0}
  BY DEF Routes
<1>2. PICK i \in r.cursor..Len(r.path) : r.path[i] = n
  BY DEF OnRoute
<1>3. i \in DOMAIN r.path
  BY <1>1
<1> QED
  BY <1>2, <1>3 DEF IndexOf

\* And, unless it is the last, a room behind it.
LEMMA StepIs ==
  ASSUME NEW r \in Routes(act), NEW n, OnRoute(r, n), n # Last(r.path)
  PROVE  /\ IndexOf(r.path, n) + 1 \in DOMAIN r.path /\ StepFrom(r, n) \in ToSet(r.path)
         /\ StepFrom(r, n) = r.path[IndexOf(r.path, n) + 1]
<1>1. r.path \in Seq(MapRooms(act))
  BY DEF Routes
<1>2. IndexOf(r.path, n) \in 1..Len(r.path) /\ r.path[IndexOf(r.path, n)] = n
  BY <1>1, IndexIs
<1>3. IndexOf(r.path, n) # Len(r.path)
  BY <1>2 DEF Last
<1>4. IndexOf(r.path, n) + 1 \in DOMAIN r.path
  BY <1>1, <1>2, <1>3
<1> QED
  BY <1>4 DEF StepFrom, ToSet

\* The route at its place on screen s; it is the same route.
LEMMA AtIs ==
  ASSUME act \in Maps, NEW s, ScreenOk(s), NEW r \in Routes(act), OnRoute(r, s.at)
  PROVE  /\ At(r, s) \in Routes(act) /\ OnRoute(At(r, s), s.at)
         /\ At(r, s).path = r.path /\ At(r, s).policy = r.policy /\ At(r, s).base = r.base
         /\ At(r, s).lastNode = s.at /\ At(r, s).options = s.options /\ At(r, s).moment = s.moment
<1> DEFINE i == IndexOf(r.path, s.at)
           T == UNION {[D -> Range(act.kind) \cup {"unknown"}] : D \in SUBSET MapRooms(act)}
<1>1. r.path \in Seq(MapRooms(act))
  BY DEF Routes
<1>2. i \in 1..Len(r.path) /\ r.path[i] = s.at
  BY <1>1, IndexIs
<1>3. s.options \in T
  BY ExitsAreRooms DEF ScreenOk
<1>4. s.at \in MapRooms(act) /\ s.moment \in Nat
  BY DEF ScreenOk
<1> HIDE DEF i, T
<1>5. At(r, s) = [r EXCEPT !.cursor = i, !.lastNode = s.at, !.options = s.options, !.moment = s.moment]
  BY DEF At, i
<1>6. r \in [path : Seq(MapRooms(act)), policy : Policies, cursor : Nat \ {0},
             lastNode : MapRooms(act), moment : Nat, options : T,
             base : [items : Belongings, res : Purses, topology : {Topology(vs) : vs \in Gathered(act)}]]
  BY DEF Routes, T
<1>7. i \in Nat \ {0} /\ i \in i..Len(r.path)
  BY <1>1, <1>2
<1>8. At(r, s) \in Routes(act)
  BY <1>3, <1>4, <1>5, <1>6, <1>7 DEF Routes, T
<1>9. /\ At(r, s).path = r.path /\ At(r, s).policy = r.policy /\ At(r, s).base = r.base
      /\ At(r, s).lastNode = s.at /\ At(r, s).options = s.options /\ At(r, s).moment = s.moment
      /\ At(r, s).cursor = i
  BY <1>5, <1>6
<1>10. OnRoute(At(r, s), s.at)
  BY <1>2, <1>7, <1>9 DEF OnRoute
<1> QED
  BY <1>8, <1>9, <1>10

\* A route that was chosen is one.
LEMMA ChosenIs ==
  ASSUME act \in Maps, NEW s, ScreenOk(s), NEW vs \in Gathered(act), NEW policy \in Policies,
         NEW path \in Seq(MapRooms(act))
  PROVE  /\ Chosen(path, policy, s, vs) \in Routes(act)
         /\ Chosen(path, policy, s, vs) # Unseen
<1> DEFINE T == UNION {[D -> Range(act.kind) \cup {"unknown"}] : D \in SUBSET MapRooms(act)}
           B == [items : Belongings, res : Purses, topology : {Topology(ws) : ws \in Gathered(act)}]
           b == [items |-> s.items, res |-> s.res, topology |-> Topology(vs)]
<1>1. s.options \in T
  BY ExitsAreRooms DEF ScreenOk
<1>2. b \in B
  BY DEF ScreenOk
<1>3. s.at \in MapRooms(act) /\ s.moment \in Nat /\ 1 \in Nat \ {0}
  BY DEF ScreenOk
<1>4. Chosen(path, policy, s, vs) = [path |-> path, policy |-> policy, cursor |-> 1, lastNode |-> s.at,
         moment |-> s.moment, options |-> s.options, base |-> b]
  BY DEF Chosen
<1> HIDE DEF T, B, b
<1>5. Routes(act) = [path : Seq(MapRooms(act)), policy : Policies, cursor : Nat \ {0},
             lastNode : MapRooms(act), moment : Nat, options : T, base : B]
  BY DEF Routes, T, B
<1>6. Chosen(path, policy, s, vs) \in Routes(act)
  BY <1>1, <1>2, <1>3, <1>4, <1>5
<1> QED
  BY <1>6, RouteAssumption

-------------------------------------------------------------------------------
(* The invariant *)

\* Choice ch was made for a route that began at a door and went on along edges of
\* the survey; the route that cache c holds is that one.
RouteFollowed(c, ch) ==
  c.route # Unseen =>
    /\ c.route.path = ch.path /\ c.route.policy = ch.policy /\ c.route.base = ch.base
    /\ ch.vs \in Views
    /\ <<ch.path[1], ch.path[2]>> \in act.edges
    /\ \A i \in 2..(Len(ch.path) - 1) : <<ch.path[i], ch.path[i + 1]>> \in DOMAIN Survey(ch.vs).edges

\* RouteStillJustified of screen s, cache c, advice a and choice ch.
StillGood(s, c, a, ch) ==
  a.how = "saved" => /\ ~Overtaken(ch.base, ch.policy, s, Topology(c.views))
                     /\ a.dest \in ToSet(ch.path)
DoubtfulEdge(ch) ==
  \E i \in 2..(Len(ch.path) - 1) :
    <<ch.path[i], ch.path[i + 1]>> \in DOMAIN Survey(ch.vs).edges \ SureEdges(Survey(ch.vs))
Replanned(s, c, a) ==
  a.status = "planned" =>
    /\ PlanMap(s, c, Unseen, Unseen).status = "planned"
    /\ PlanMap(s, c, Unseen, Unseen).dest = a.dest
Justified(s, c, a, ch) ==
  /\ StillGood(s, c, a, ch) /\ Replanned(s, c, a)
  /\ "saved_destination_unavailable" \in a.reasons => DoubtfulEdge(ch)

TravelInv ==
  /\ act \in Maps /\ ScreenOk(snap)
  /\ cache \in Caches /\ Len(cache.views) <= MaxViews
  /\ RouteFollowed(cache, chosen)
  /\ advice # Unseen => Justified(snap, cache, advice, chosen)

\* The property, said of a screen, a cache, an advice and a choice.
LEMMA JustifiedIs == (advice # Unseen => Justified(snap, cache, advice, chosen)) <=> RouteStillJustified
  BY DEF Justified, StillGood, DoubtfulEdge, Replanned, RouteStillJustified

\* An act is begun without a route.
LEMMA InitiallyTravels == ASSUME act \in Maps, InitTravel PROVE TravelInv
<1>1. PICK n \in MapRooms(act) : snap \in Screens(n, 0)
  BY DEF InitTravel
<1>2. ScreenOk(snap)
  BY <1>1, ScreensOk
<1>3. cache \in Caches /\ Len(cache.views) <= MaxViews /\ cache.route = Unseen
  BY SurveyAssumption DEF InitTravel, Caches, Views
<1> QED
  BY <1>2, <1>3 DEF InitTravel, TravelInv, RouteFollowed

-------------------------------------------------------------------------------
(* Why a plan is repeated *)

\* Nothing has changed since a choice that is made now.
LEMMA NothingChanged ==
  ASSUME NEW s, ScreenOk(s), NEW policy \in Policies, NEW t
  PROVE  ~Overtaken([items |-> s.items, res |-> s.res, topology |-> t], policy, s, t)
<1>1. policy.hp \in Nat \ {0} /\ policy.gold \in Nat \ {0}
  BY TravelAssumption
<1>2. s.res.hp \in Nat /\ s.res.gold \in Nat
  BY TravelAssumption DEF ScreenOk
<1>3. ASSUME NEW x \in Nat, NEW step \in Nat \ {0}, NEW marks
      PROVE  ~Drifted(x, x, step, marks)
  BY <1>3 DEF Drifted
<1> QED
  BY <1>1, <1>2, <1>3 DEF Overtaken

\* The only door is the one that is chosen.
LEMMA OnlyDoor ==
  ASSUME act \in Maps, NEW s, ScreenOk(s), Cardinality(DOMAIN s.options) = 1, NEW o \in DOMAIN s.options
  PROVE  o = CHOOSE x \in DOMAIN s.options : TRUE
<1>1. IsFiniteSet(DOMAIN s.options)
  BY ExitsAreRooms DEF ScreenOk
<1>2. PICK x : DOMAIN s.options = {x}
  BY <1>1, FS_Singleton
<1> QED
  BY <1>2

\* At a forced move, whatever is saved.
LEMMA ForcedAgain ==
  ASSUME NEW s, NEW c, Cardinality(DOMAIN s.options) = 1
  PROVE  /\ PlanMap(s, c, Unseen, Unseen).status = "planned"
         /\ PlanMap(s, c, Unseen, Unseen).dest = CHOOSE x \in DOMAIN s.options : TRUE
  BY DEF PlanMap, ForcedMove, Planned

\* At a fork, once route r leads on from here and was chosen for what still is.
LEMMA ForkAgain ==
  ASSUME act \in Maps, NEW s, ScreenOk(s), NEW vs, NEW r \in Routes(act), Obstacles(r, s) = {},
         ~Overtaken(r.base, r.policy, s, Topology(vs)), NEW c, c.views = vs, c.route = At(r, s)
  PROVE  /\ PlanMap(s, c, Unseen, Unseen).status = "planned"
         /\ PlanMap(s, c, Unseen, Unseen).dest = StepFrom(r, s.at)
<1>1. OnRoute(r, s.at) /\ s.at # Last(r.path) /\ StepFrom(r, s.at) \in DOMAIN s.options
  BY DEF Obstacles
<1> DEFINE q == At(r, s)
<1>2. /\ q \in Routes(act) /\ OnRoute(q, s.at) /\ q.path = r.path /\ q.policy = r.policy
      /\ q.base = r.base /\ q.options = s.options /\ q.moment = s.moment
  BY <1>1, AtIs
<1> HIDE DEF q
<1>3. q # Unseen
  BY <1>2, RouteAssumption
<1>4. StepFrom(q, s.at) = StepFrom(r, s.at)
  BY <1>2 DEF StepFrom
<1>5. Obstacles(q, s) = {}
  BY <1>1, <1>2, <1>4 DEF Obstacles
<1>6. Reasons(q, s, Topology(vs)) = {}
  BY <1>2 DEF Reasons, Reopened
<1>7. CASE Cardinality(DOMAIN s.options) = 1
  BY <1>1, <1>7, OnlyDoor, ForcedAgain
<1>8. CASE Cardinality(DOMAIN s.options) # 1
  <2>1. PlanMap(s, c, Unseen, Unseen) = ForkMove(s, c, Unseen, Unseen)
    BY <1>8 DEF PlanMap
  <2>2. MergedViews(c.views, Unseen) = vs /\ c.route = q
    BY DEF MergedViews, q
  <2>3. ForkMove(s, c, Unseen, Unseen)
          = Planned(StepFrom(q, s.at), "saved", [[c EXCEPT !.views = vs] EXCEPT !.route = At(q, s)])
    BY <1>3, <1>5, <1>6, <2>2 DEF ForkMove
  <2> QED
    BY <1>4, <2>1, <2>3 DEF Planned
<1> QED
  BY <1>7, <1>8

\* A door that the route wants and that is not there was never seen for certain.
LEMMA MissingDoor ==
  ASSUME act \in Maps, NEW s, ScreenOk(s), NEW c \in Caches, NEW ch, RouteFollowed(c, ch), c.route # Unseen,
         "saved_destination_unavailable" \in Obstacles(c.route, s)
  PROVE  DoubtfulEdge(ch)
<1> DEFINE r == c.route
           i == IndexOf(r.path, s.at)
<1>1. r \in Routes(act)
  BY DEF Caches
<1>2. OnRoute(r, s.at) /\ s.at # Last(r.path) /\ StepFrom(r, s.at) \notin DOMAIN s.options
  BY DEF Obstacles
<1>3. /\ i \in DOMAIN r.path /\ i + 1 \in DOMAIN r.path /\ r.path[i] = s.at
      /\ StepFrom(r, s.at) = r.path[i + 1]
  BY <1>1, <1>2, IndexIs, StepIs
<1>4. r.path = ch.path /\ r.path \in Seq(MapRooms(act))
  BY <1>1 DEF RouteFollowed, Routes
<1>5. <<r.path[i], r.path[i + 1]>> \notin act.edges
  <2>1. r.path[i + 1] \notin ExitsOf(act.edges, s.at)
    BY <1>2, <1>3 DEF ScreenOk
  <2> HIDE DEF i, r
  <2> QED
    BY <1>3, <2>1 DEF ExitsOf
<1> HIDE DEF i, r
<1>6. i # 1
  BY <1>4, <1>5 DEF RouteFollowed, r
<1>7. i \in 2..(Len(ch.path) - 1)
  BY <1>3, <1>4, <1>6
<1>8. <<ch.path[i], ch.path[i + 1]>> \in DOMAIN Survey(ch.vs).edges /\ ch.vs \in Seq(Offered(act) \ {Unseen})
  BY <1>7 DEF RouteFollowed, Views
<1>9. <<ch.path[i], ch.path[i + 1]>> \notin SureEdges(Survey(ch.vs))
  BY <1>4, <1>5, <1>8, SurveySure
<1> QED
  BY <1>7, <1>8, <1>9 DEF DoubtfulEdge

-------------------------------------------------------------------------------
(* Every step *)

\* The cache after a plan on views vs that puts route r on screen s.
Placed(c, s, vs, r) == [c EXCEPT !.views = vs, !.route = At(r, s)]

\* The route, put at its place in the cache with the views.
LEMMA PlacedIs ==
  ASSUME act \in Maps, NEW s, ScreenOk(s), NEW c \in Caches, NEW vs \in Views,
         NEW r \in Routes(act), Obstacles(r, s) = {}
  PROVE  /\ Placed(c, s, vs, r) \in Caches
         /\ Placed(c, s, vs, r).views = vs /\ Placed(c, s, vs, r).route = At(r, s)
         /\ At(r, s).path = r.path /\ At(r, s).policy = r.policy /\ At(r, s).base = r.base
<1>1. OnRoute(r, s.at)
  BY DEF Obstacles
<1>2. /\ At(r, s) \in Routes(act)
      /\ At(r, s).path = r.path /\ At(r, s).policy = r.policy /\ At(r, s).base = r.base
  BY <1>1, AtIs
<1> DEFINE q == At(r, s)
<1> HIDE DEF q
<1>3. Placed(c, s, vs, r) = [c EXCEPT !.views = vs, !.route = q]
  BY DEF Placed, q
<1>4. Placed(c, s, vs, r) = [views |-> vs, route |-> q]
  BY <1>3 DEF Caches
<1>5. q \in Routes(act)
  BY <1>2 DEF q
<1>6. Placed(c, s, vs, r) \in Caches
  BY <1>4, <1>5 DEF Caches
<1> QED
  BY <1>2, <1>4, <1>6 DEF q

\* A route that leads on from here is planned.
LEMMA Leads ==
  ASSUME NEW s, NEW c, NEW route, NEW v, NEW r,
         r = (IF route = Unseen THEN c.route ELSE route), r # Unseen, Obstacles(r, s) = {},
         route = Unseen => ~Overtaken(r.base, r.policy, s, Topology(MergedViews(c.views, v))) /\ ~Reopened(r, s)
  PROVE  ForkMove(s, c, route, v)
           = Planned(StepFrom(r, s.at), IF route = Unseen THEN "saved" ELSE "chosen",
                     Placed(c, s, MergedViews(c.views, v), r))
<1> DEFINE vs == MergedViews(c.views, v)
<1>1. route = Unseen => Reasons(r, s, Topology(vs)) = {}
  BY DEF Reasons
<1>2. (IF r = Unseen THEN {"no_saved_route"}
       ELSE (IF route # Unseen THEN {} ELSE Reasons(r, s, Topology(vs))) \cup Obstacles(r, s)) = {}
  BY <1>1
<1> QED
  BY <1>2 DEF ForkMove, Placed

\* Otherwise there is a reason.
LEMMA Asks ==
  ASSUME NEW s, NEW c, NEW v, NEW p, p = ForkMove(s, c, Unseen, v),
         c.route = Unseen \/ Obstacles(c.route, s) # {}
           \/ Overtaken(c.route.base, c.route.policy, s, Topology(MergedViews(c.views, v)))
           \/ Reopened(c.route, s)
  PROVE  /\ p.status = "strategy_required" /\ p.how = "none"
         /\ p.cache = [c EXCEPT !.views = MergedViews(c.views, v)]
         /\ "saved_destination_unavailable" \in p.reasons
              => c.route # Unseen /\ "saved_destination_unavailable" \in Obstacles(c.route, s)
<1> DEFINE vs == MergedViews(c.views, v)
           why == IF c.route = Unseen THEN {"no_saved_route"}
                  ELSE Reasons(c.route, s, Topology(vs)) \cup Obstacles(c.route, s)
<1>1. why # {}
  BY DEF Reasons
<1>2. "saved_destination_unavailable" \in why
        => c.route # Unseen /\ "saved_destination_unavailable" \in Obstacles(c.route, s)
  BY DEF Reasons
<1> HIDE DEF vs
<1>3. ForkMove(s, c, Unseen, v)
        = [status |-> "strategy_required", dest |-> Unseen, how |-> "none",
           reasons |-> why, cache |-> [c EXCEPT !.views = vs]]
  BY <1>1 DEF ForkMove, vs
<1> HIDE DEF why
<1> QED
  BY <1>2, <1>3 DEF vs

Advised(p) == [status |-> p.status, dest |-> p.dest, how |-> p.how, reasons |-> p.reasons]

\* A forced move.
LEMMA ForcedKeeps ==
  ASSUME TravelInv, Cardinality(DOMAIN snap.options) = 1,
         NEW p, p = ForcedMove(snap, cache), cache' = p.cache, advice' = Advised(p),
         UNCHANGED <<act, snap, chosen>>
  PROVE  TravelInv'
<1> DEFINE r == cache.route
           wanted == CHOOSE o \in DOMAIN snap.options : TRUE
<1>1. /\ p.status = "planned" /\ p.how = "forced" /\ p.reasons = {} /\ p.dest = wanted
      /\ \/ p.cache = cache
         \/ r # Unseen /\ OnRoute(r, snap.at) /\ p.cache = [cache EXCEPT !.route = At(r, snap)]
  BY DEF ForcedMove, Planned
<1>2. act \in Maps /\ ScreenOk(snap) /\ cache \in Caches /\ Len(cache.views) <= MaxViews
  BY DEF TravelInv
<1>3. CASE p.cache = cache
  <2>1. cache' = cache
    BY <1>3
  <2>2. Justified(snap, cache, advice', chosen)
    BY <1>1, ForcedAgain DEF Advised, Justified, StillGood, Replanned
  <2> QED
    BY <1>2, <2>1, <2>2 DEF TravelInv, ScreenOk, Caches, Views, RouteFollowed
<1>4. CASE r # Unseen /\ OnRoute(r, snap.at) /\ p.cache = [cache EXCEPT !.route = At(r, snap)]
  <2> DEFINE q == At(r, snap)
  <2>1. r \in Routes(act)
    BY <1>2, <1>4 DEF Caches
  <2>2. q \in Routes(act) /\ q.path = r.path /\ q.policy = r.policy /\ q.base = r.base
    BY <1>2, <1>4, <2>1, AtIs
  <2> HIDE DEF q
  <2>3. cache' = [cache EXCEPT !.route = q]
    BY <1>4 DEF q
  <2>4. cache' \in Caches /\ cache'.views = cache.views /\ cache'.route = q
    BY <1>2, <2>2, <2>3 DEF Caches
  <2>5. RouteFollowed(cache', chosen)
    BY <1>4, <2>2, <2>4 DEF TravelInv, RouteFollowed
  <2>6. Justified(snap, cache', advice', chosen)
    BY <1>1, ForcedAgain DEF Advised, Justified, StillGood, Replanned
  <2> QED
    BY <1>2, <2>4, <2>5, <2>6 DEF TravelInv, ScreenOk, Caches, Views, RouteFollowed
<1> QED
  BY <1>1, <1>3, <1>4

\* A plan without a choice.
LEMMA PlanAgainKeeps ==
  ASSUME TravelInv, NEW v \in Offered(act), PlanAgain(v), UNCHANGED act
  PROVE  TravelInv'
<1>1. PICK p : /\ p = PlanMap(snap, cache, Unseen, v) /\ Len(p.cache.views) <= MaxViews
               /\ advice' = Advised(p) /\ cache' = p.cache /\ UNCHANGED <<snap, chosen>>
  BY DEF PlanAgain, PlanWith, Advised
<1>2. act \in Maps /\ ScreenOk(snap) /\ cache \in Caches /\ Len(cache.views) <= MaxViews
  BY DEF TravelInv
<1>3. CASE Cardinality(DOMAIN snap.options) = 1
  <2>1. p = ForcedMove(snap, cache)
    BY <1>1, <1>3 DEF PlanMap
  <2> QED
    BY <1>1, <1>3, <2>1, ForcedKeeps
<1>4. CASE Cardinality(DOMAIN snap.options) # 1
  <2> DEFINE vs == MergedViews(cache.views, v)
             r == cache.route
  <2>1. p = ForkMove(snap, cache, Unseen, v)
    BY <1>1, <1>4 DEF PlanMap
  <2>2. vs \in Views
    BY <1>2, ViewsKept DEF Caches
  <2>3. CASE \/ r = Unseen \/ Obstacles(r, snap) # {} \/ Reopened(r, snap)
             \/ Overtaken(r.base, r.policy, snap, Topology(vs))
    <3>1. /\ p.status = "strategy_required" /\ p.how = "none"
          /\ p.cache = [cache EXCEPT !.views = vs]
          /\ "saved_destination_unavailable" \in p.reasons
               => r # Unseen /\ "saved_destination_unavailable" \in Obstacles(r, snap)
      BY <2>1, <2>3, Asks
    <3> HIDE DEF vs
    <3>2. cache' = [cache EXCEPT !.views = vs]
      BY <1>1, <3>1
    <3>3. cache' \in Caches /\ cache'.route = cache.route /\ Len(cache'.views) <= MaxViews
      BY <1>1, <1>2, <2>2, <3>2 DEF Caches
    <3>4. RouteFollowed(cache', chosen)
      BY <3>3 DEF TravelInv, RouteFollowed
    <3>5. "saved_destination_unavailable" \in p.reasons => DoubtfulEdge(chosen)
      BY <1>2, <3>1, MissingDoor DEF TravelInv
    <3>6. Justified(snap, cache', advice', chosen)
      BY <1>1, <3>1, <3>5 DEF Advised, Justified, StillGood, Replanned
    <3> QED
      BY <1>1, <1>2, <3>3, <3>4, <3>6 DEF TravelInv, ScreenOk, Caches, Views, RouteFollowed
  <2>4. CASE /\ r # Unseen /\ Obstacles(r, snap) = {} /\ ~Reopened(r, snap)
             /\ ~Overtaken(r.base, r.policy, snap, Topology(vs))
    <3> DEFINE c == Placed(cache, snap, vs, r)
    <3>1. p = Planned(StepFrom(r, snap.at), "saved", c)
      BY <2>1, <2>4, Leads
    <3>2. r \in Routes(act)
      BY <1>2, <2>4 DEF Caches
    <3>3. /\ c \in Caches /\ c.views = vs /\ c.route = At(r, snap)
          /\ c.route.path = r.path /\ c.route.policy = r.policy /\ c.route.base = r.base
      BY <1>2, <2>2, <2>4, <3>2, PlacedIs
    <3>4. /\ PlanMap(snap, c, Unseen, Unseen).status = "planned"
          /\ PlanMap(snap, c, Unseen, Unseen).dest = StepFrom(r, snap.at)
      BY <1>2, <2>4, <3>2, <3>3, ForkAgain
    <3>5. StepFrom(r, snap.at) \in ToSet(r.path)
      BY <2>4, <3>2, StepIs DEF Obstacles
    <3>6. r.path = chosen.path /\ r.policy = chosen.policy /\ r.base = chosen.base
      BY <2>4 DEF TravelInv, RouteFollowed
    <3> HIDE DEF c, vs, r
    <3>7. /\ p.status = "planned" /\ p.how = "saved" /\ p.dest = StepFrom(r, snap.at)
          /\ p.reasons = {} /\ p.cache = c
      BY <3>1 DEF Planned
    <3>8. RouteFollowed(c, chosen)
      BY <2>4, <3>3 DEF TravelInv, RouteFollowed, r
    <3>9. Justified(snap, c, advice', chosen)
      BY <1>1, <2>4, <3>3, <3>4, <3>5, <3>6, <3>7 DEF Advised, Justified, StillGood, Replanned
    <3> QED
      BY <1>1, <1>2, <3>3, <3>7, <3>8, <3>9 DEF TravelInv, ScreenOk, Caches, Views, RouteFollowed
  <2> QED
    BY <2>3, <2>4
<1> QED
  BY <1>3, <1>4

\* A choice.
LEMMA DecideRouteKeeps ==
  ASSUME TravelInv, NEW path, NEW policy \in Policies, NEW v \in Offered(act),
         DecideRoute(path, policy, v), UNCHANGED act
  PROVE  TravelInv'
<1> DEFINE vs == MergedViews(cache.views, v)
           r == Chosen(path, policy, snap, vs)
<1>1. act \in Maps /\ ScreenOk(snap) /\ cache \in Caches /\ Len(cache.views) <= MaxViews
  BY DEF TravelInv
<1>2. vs \in Views /\ vs \in Gathered(act)
  BY <1>1, ViewsKept DEF Caches
<1>3. PICK p : /\ p = PlanMap(snap, cache, r, v) /\ Len(p.cache.views) <= MaxViews
               /\ advice' = Advised(p) /\ cache' = p.cache /\ UNCHANGED snap
               /\ RouteOk(path, snap, vs)
               /\ chosen' = [path |-> path, policy |-> policy, vs |-> vs, base |-> r.base]
  BY DEF DecideRoute, PlanWith, Advised
<1>4. /\ path \in Seq(MapRooms(act)) /\ Len(path) >= 2 /\ path[1] = snap.at
      /\ path[2] \in DOMAIN snap.options
      /\ \A i, j \in DOMAIN path : path[i] = path[j] => i = j
      /\ \A i \in 2..(Len(path) - 1) : <<path[i], path[i + 1]>> \in DOMAIN Survey(vs).edges
  BY <1>3 DEF RouteOk, IsInjective
<1>5. /\ r \in Routes(act) /\ r # Unseen /\ r.path = path /\ r.policy = policy /\ r.cursor = 1
      /\ r.base = [items |-> snap.items, res |-> snap.res, topology |-> Topology(vs)]
  <2>1. r \in Routes(act) /\ r # Unseen
    BY <1>1, <1>2, <1>4, ChosenIs
  <2> QED
    BY <2>1 DEF Chosen
<1> HIDE DEF r, vs
<1>6. OnRoute(r, snap.at) /\ snap.at # Last(path) /\ StepFrom(r, snap.at) = path[2]
  <2>1. 1 \in DOMAIN path /\ Len(path) \in DOMAIN path /\ Len(path) # 1 /\ 1 \in 1..Len(path)
    BY <1>4
  <2>2. path[Len(path)] # path[1]
    BY <1>4, <2>1
  <2>3. OnRoute(r, snap.at)
    BY <1>4, <1>5, <2>1 DEF OnRoute
  <2>4. IndexOf(path, snap.at) \in DOMAIN path /\ path[IndexOf(path, snap.at)] = snap.at
    BY <1>5, <2>3, IndexIs
  <2>5. IndexOf(path, snap.at) = 1
    BY <1>4, <2>1, <2>4
  <2> QED
    BY <1>4, <1>5, <2>2, <2>3, <2>5 DEF StepFrom, Last
<1>7. Obstacles(r, snap) = {}
  BY <1>4, <1>5, <1>6 DEF Obstacles
<1>8. ~Overtaken(r.base, r.policy, snap, Topology(vs))
  BY <1>1, <1>5, NothingChanged
<1> DEFINE c == Placed(cache, snap, vs, r)
<1>9. p = Planned(StepFrom(r, snap.at), "chosen", c)
  <2>1. PlanMap(snap, cache, r, v) = ForkMove(snap, cache, r, v)
    BY <1>5 DEF PlanMap
  <2>2. ForkMove(snap, cache, r, v) = Planned(StepFrom(r, snap.at), "chosen", c)
    BY <1>5, <1>7, Leads DEF vs
  <2> QED
    BY <1>3, <2>1, <2>2
<1>10. /\ c \in Caches /\ c.views = vs /\ c.route = At(r, snap)
       /\ c.route.path = r.path /\ c.route.policy = r.policy /\ c.route.base = r.base
  BY <1>1, <1>2, <1>5, <1>7, PlacedIs
<1>11. /\ PlanMap(snap, c, Unseen, Unseen).status = "planned"
       /\ PlanMap(snap, c, Unseen, Unseen).dest = StepFrom(r, snap.at)
  BY <1>1, <1>5, <1>7, <1>8, <1>10, ForkAgain
<1> HIDE DEF c
<1>12. /\ p.status = "planned" /\ p.how = "chosen" /\ p.dest = StepFrom(r, snap.at)
       /\ p.reasons = {} /\ p.cache = c
  BY <1>9 DEF Planned
<1>13. <<path[1], path[2]>> \in act.edges
  <2>1. path[2] \in ExitsOf(act.edges, path[1])
    BY <1>1, <1>4 DEF ScreenOk
  <2>2. PICK e \in act.edges : e[1] = path[1] /\ e[2] = path[2]
    BY <2>1 DEF ExitsOf
  <2>3. e = <<e[1], e[2]>>
    BY <1>1, SurveyAssumption
  <2> QED
    BY <2>2, <2>3
<1>14. RouteFollowed(c, chosen')
  BY <1>2, <1>3, <1>4, <1>5, <1>10, <1>13 DEF RouteFollowed
<1>15. Justified(snap, c, advice', chosen')
  BY <1>3, <1>11, <1>12 DEF Advised, Justified, StillGood, Replanned
<1> QED
  BY <1>1, <1>3, <1>10, <1>12, <1>14, <1>15 DEF TravelInv, ScreenOk, Caches, Views, RouteFollowed

\* The rest: the cache is given up, or another screen is seen.
LEMMA OthersKeep ==
  ASSUME TravelInv, FreshCache \/ Reopen \/ \E to \in MapRooms(act) : Travel(to), UNCHANGED act
  PROVE  TravelInv'
<1>1. act \in Maps /\ ScreenOk(snap) /\ cache \in Caches /\ RouteFollowed(cache, chosen)
  BY DEF TravelInv
<1>2. CASE FreshCache
  <2>1. <<>> \in Views /\ Len(<<>>) <= MaxViews
    BY SurveyAssumption DEF Views
  <2>2. cache' = [views |-> <<>>, route |-> Unseen] /\ advice' = Unseen /\ UNCHANGED snap
    BY <1>2 DEF FreshCache
  <2>3. cache' \in Caches /\ cache'.views = <<>> /\ cache'.route = Unseen
    BY <2>1, <2>2 DEF Caches
  <2> QED
    BY <1>1, <2>1, <2>2, <2>3 DEF TravelInv, ScreenOk, Caches, Views, RouteFollowed
<1>3. ASSUME ScreenOk(snap'), advice' = Unseen, UNCHANGED <<cache, chosen>>
      PROVE  TravelInv'
  BY <1>1, <1>3 DEF TravelInv, ScreenOk, Caches, Views, RouteFollowed
<1>4. CASE Reopen
  <2>1. snap.at \in MapRooms(act) /\ snap.moment + 1 \in Nat
    BY <1>1 DEF ScreenOk
  <2>2. ScreenOk(snap')
    BY <1>1, <1>4, <2>1, ScreensOk DEF Reopen
  <2> QED
    BY <1>3, <1>4, <2>2 DEF Reopen
<1>5. CASE \E to \in MapRooms(act) : Travel(to)
  <2>1. PICK to \in MapRooms(act) : snap' \in Screens(to, 0) /\ advice' = Unseen /\ UNCHANGED <<cache, chosen>>
    BY <1>5 DEF Travel
  <2>2. ScreenOk(snap')
    BY <1>1, <2>1, ScreensOk
  <2> QED
    BY <1>3, <2>1, <2>2
<1> QED
  BY <1>2, <1>4, <1>5

-------------------------------------------------------------------------------

\* What a plan rests on, for any maps, screens and numbers of views: the cached
\* route is the one of the last choice.
THEOREM TravelInvariant == SpecTravel => []TravelInv
<1>1. act \in Maps /\ InitTravel => TravelInv
  BY InitiallyTravels
<1>2. TravelInv /\ [NextTravel /\ UNCHANGED act]_<<act, travelVars>> => TravelInv'
  <2> SUFFICES ASSUME TravelInv, [NextTravel /\ UNCHANGED act]_<<act, travelVars>>
               PROVE  TravelInv'
    OBVIOUS
  <2>1. CASE NextTravel /\ UNCHANGED act
    BY <2>1, PlanAgainKeeps, DecideRouteKeeps, OthersKeep DEF NextTravel
  <2>2. CASE UNCHANGED <<act, travelVars>>
    BY <2>2 DEF TravelInv, travelVars, ScreenOk, Caches, Views, RouteFollowed, Justified, StillGood,
                Replanned, DoubtfulEdge
  <2> QED
    BY <2>1, <2>2
<1> QED
  BY <1>1, <1>2, PTL DEF SpecTravel

\* A saved route is followed only while nothing it was chosen for has changed,
\* leads to no missing door that was surely seen, and is planned again the same.
THEOREM RouteStaysJustified == SpecTravel => []RouteStillJustified
<1>1. TravelInv => RouteStillJustified
  BY JustifiedIs DEF TravelInv
<1> QED
  BY <1>1, TravelInvariant, PTL

===============================================================================
