--------------------------- MODULE EvidenceHistory ----------------------------
(***************************************************************************)
(* One EvidenceLedger and all that its callers may tell it, in any order,  *)
(* true or mistaken.  Beside it stands the reference for what it should    *)
(* know: the set of states of the game that agree with everything offered  *)
(* since the last event after which nothing offered before may be used.    *)
(***************************************************************************)
EXTENDS EvidenceLedger

CONSTANTS
  Frames, Keys, Values, Items,  \* frames; entries of a hand and their values; things owned
  Contexts, Start,             \* contexts, the first of them
  MaxTime, MaxEpoch            \* bounds on capture times and epochs

ASSUME HistoryAssumption ==
  /\ None \notin Frames \cup Keys \cup Values \cup Items
  /\ Values # {}
  /\ Start \in Contexts
  /\ MaxTime \in Nat \ {0} /\ MaxEpoch \in Nat

VARIABLES
  ledger,
  hands,   \* hands the game can have, by all that was offered
  foci,    \* focused entries it can have
  stocks   \* inventories it can have

historyVars == <<ledger, hands, foci, stocks>>

FrameRecords == [id : Frames, at : 1..MaxTime]
Hands == UNION {[K -> Values] : K \in SUBSET Keys}
Foci == Keys \cup {None}
Stocks == SUBSET Items

\* Readings of a hand and of the focus; a complete one has no unknown values.
\* A partial reading here states no order of the cards: the code takes an order
\* for that of the whole hand and is in conflict as soon as it sees another card.
HandOffers ==
  {Offer(d, FALSE) : d \in UNION {[K -> Values \cup {None}] : K \in SUBSET Keys}}
    \cup {Offer(d, TRUE) : d \in Hands}
FocusOffers == {Offer(f, c) : f \in Foci, c \in BOOLEAN}

Offers == [{"hand"} -> HandOffers] \cup [{"ui"} -> FocusOffers]
            \cup {[n \in Volatile |-> IF n = "hand" THEN h ELSE f] :
                    h \in {o \in HandOffers : o.complete}, f \in {o \in FocusOffers : o.complete}}

\* The states of the game that a reading or an inventory receipt admits.
HandsOf(o) ==
  {h \in Hands : /\ DOMAIN o.data \subseteq DOMAIN h
                 /\ o.complete => DOMAIN h = DOMAIN o.data
                 /\ \A k \in DOMAIN o.data : o.data[k] \in {None, h[k]}}
FociOf(o) == {f \in Foci : f = o.data \/ (~o.complete /\ o.data = None)}
StocksOf(r) == {s \in Stocks : r.items \subseteq s /\ (r.complete => s = r.items)}

InitHistory ==
  /\ ledger = NewLedger(Start)
  /\ hands = Hands /\ foci = Foci /\ stocks = Stocks

-------------------------------------------------------------------------------

\* What the reference forgets: all with a new frame for which nobody says that
\* the state is the same, and the focus with any new frame.
Told(p) ==
  LET new == NewFrame(ledger, p)
      h == IF new /\ p.continuity = None THEN Hands ELSE hands
      f == IF new THEN Foci ELSE foci
  IN
  /\ hands' = IF "hand" \in DOMAIN p.sections THEN h \cap HandsOf(p.sections["hand"]) ELSE h
  /\ foci' = IF "ui" \in DOMAIN p.sections THEN f \cap FociOf(p.sections["ui"]) ELSE f
  /\ stocks' = IF new /\ p.continuity = None THEN Stocks ELSE stocks

ObserveStep ==
  \E f \in FrameRecords, q \in Frames \cup {None}, e \in {ledger.epoch, ledger.epoch - 1} \cap Nat :
    LET head == [context |-> ledger.context, epoch |-> e, frame |-> f, continuity |-> q, sections |-> <<>>] IN
    /\ MayObserve(ledger, head)
    /\ \E o \in Offers :
         LET p == [head EXCEPT !.sections = o] IN ledger' = Observe(ledger, p) /\ Told(p)

\* Whoever gave input says so, and whether things owned may have changed.
InvalidateStep ==
  \E kind \in {"input", "unknown_input", "inventory_change"} :
    /\ ledger.epoch < MaxEpoch
    /\ ledger' = Invalidate(ledger, kind)
    /\ hands' = Hands /\ foci' = Foci
    /\ stocks' = IF kind = "input" THEN stocks ELSE Stocks

ContextStep ==
  \E c \in Contexts \ {ledger.context} :
    /\ ledger.epoch < MaxEpoch
    /\ ledger' = ChangeContext(ledger, c)
    /\ hands' = Hands /\ foci' = Foci
    /\ stocks' = IF c.run = ledger.context.run THEN stocks ELSE Stocks

\* A transition says what is owned now; its picture is of the state before it.
InventoryStep ==
  \E kind \in {"baseline", "verified_transition"}, items \in Stocks, c \in BOOLEAN, prior \in Stocks \cup {None} :
    LET r == [context |-> ledger.context, epoch |-> ledger.epoch, frame |-> ledger.frame,
              kind |-> kind, items |-> items, complete |-> c, prior |-> prior] IN
    /\ MayRecord(ledger, r)
    /\ kind = "verified_transition" => ledger.epoch < MaxEpoch
    /\ ledger' = RecordInventory(ledger, r)
    /\ IF kind = "baseline"
       THEN stocks' = stocks \cap StocksOf(r) /\ UNCHANGED <<hands, foci>>
       ELSE stocks' = StocksOf(r) /\ hands' = Hands /\ foci' = Foci

NextHistory == ObserveStep \/ InvalidateStep \/ ContextStep \/ InventoryStep

HistorySpec == InitHistory /\ [][NextHistory]_historyVars

-------------------------------------------------------------------------------
(* Properties *)

Sec(n) == ledger.sections[n]

\* Every part of the ledger has its type; a section has data when it is current.
HistoryTypeOK ==
  /\ ledger.context \in Contexts /\ ledger.epoch \in 0..MaxEpoch
  /\ ledger.frame \in FrameRecords \cup {None}
  /\ ledger.last \in 0..MaxTime /\ ledger.frames \subseteq Frames
  /\ \A n \in Sections :
       /\ Sec(n).status \in {"missing", "stale", "conflict", "partial", "current"}
       /\ ~Current(Sec(n)) => Sec(n).data = None
  /\ Current(Sec("hand")) => Offer(Sec("hand").data, Complete(Sec("hand"))) \in HandOffers
  /\ Current(Sec("ui")) => Sec("ui").data \in Foci
  /\ Current(Sec("inventory")) => Sec("inventory").data \in Stocks

\* What the ledger shows of the hand admits exactly the hands that agree with
\* everything offered, in whatever order and pieces it was offered, and it is
\* in conflict exactly when none does: no reading is lost, and none outlives
\* the event that ended it.
HandIsExact ==
  CASE Current(Sec("hand")) -> hands # {} /\ hands = HandsOf(Offer(Sec("hand").data, Complete(Sec("hand"))))
    [] Sec("hand").status = "conflict" -> hands = {}
    [] OTHER -> hands = Hands

\* The same of what is owned, with baselines merged across frames and epochs.
StockIsExact ==
  CASE Current(Sec("inventory")) ->
         stocks # {} /\ stocks = StocksOf([items |-> Sec("inventory").data, complete |-> Complete(Sec("inventory"))])
    [] Sec("inventory").status = "conflict" -> stocks = {}
    [] OTHER -> stocks = Stocks

\* A focus that is shown agrees with all that was offered about it, and with a
\* hand that is completely known.
FocusIsReal ==
  Current(Sec("ui")) =>
    /\ foci # {} /\ foci = FociOf(Offer(Sec("ui").data, Complete(Sec("ui"))))
    /\ Complete(Sec("hand")) => Sec("ui").data \in DOMAIN Sec("hand").data \cup {None}

\* Of the hand, the focus and what is owned nothing is known that was not read,
\* and nothing that was read is lost.
KnownIsExact == HistoryTypeOK /\ HandIsExact /\ StockIsExact /\ FocusIsReal

===============================================================================
