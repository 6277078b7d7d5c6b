---------------------------- MODULE EvidenceLedger ----------------------------
(***************************************************************************)
(* The evidence ledger of veda/evidence_ledger.py as operators on a value: *)
(* what has been read of the present state of a combat, from which frame,  *)
(* in which epoch.  Every operation either is refused and leaves the       *)
(* ledger as it was (_transaction works on a copy) or returns a new one.   *)
(*                                                                         *)
(* Of the six volatile sections "hand" stands for those with entries under *)
(* ids and attributes that may be unknown, and "ui" has the focus.  An     *)
(* image file and its hash go with the id of a frame.                      *)
(***************************************************************************)
EXTENDS Naturals, FiniteSets

CONSTANT None  \* an unknown value, an absent focus, no frame

Volatile == {"hand", "ui"}
Sections == Volatile \cup {"inventory"}

\* A section is missing, stale or in conflict without data, or it is current.
Blank(st) == [status |-> st, data |-> None]
Section(complete, d) == [status |-> IF complete THEN "current" ELSE "partial", data |-> d]
Current(s) == s.status \in {"partial", "current"}
Complete(s) == s.status = "current"

\* A context names its run and, in "turn", floor, combat and turn.
NewLedger(c) ==
  [context |-> c, epoch |-> 0, frame |-> None, last |-> 0, frames |-> {},
   sections |-> [n \in Sections |-> Blank("missing")]]

Invalidated(l, names) ==
  [l EXCEPT !.sections = [n \in Sections |-> IF n \in names THEN Blank("stale") ELSE @[n]]]

-------------------------------------------------------------------------------
(* Merging a reading into what is known: an offer has its data and whether  *)
(* the reader saw everything.                                               *)

Offer(d, c) == [data |-> d, complete |-> c]

\* Faulty variant: only unequal values contradict each other.
ValuesClash(old, oc, new, nc) ==
  \E k \in DOMAIN old \cap DOMAIN new : None \notin {old[k], new[k]} /\ old[k] # new[k]

EntriesClash(old, oc, new, nc) ==
  \/ oc /\ ~(DOMAIN new \subseteq DOMAIN old)
  \/ nc /\ ~(DOMAIN old \subseteq DOMAIN new)
  \/ \E k \in DOMAIN old \cap DOMAIN new : None \notin {old[k], new[k]} /\ old[k] # new[k]

EntriesJoined(old, new) ==
  [k \in DOMAIN old \cup DOMAIN new |->
     IF k \in DOMAIN old /\ old[k] # None THEN old[k]
     ELSE IF k \in DOMAIN new THEN new[k] ELSE None]

\* In a complete reading the absence of a focus is a fact, else it is unknown.
FocusClash(old, oc, new, nc) ==
  \/ oc /\ old = None /\ new # None
  \/ nc /\ new = None /\ old # None
  \/ None \notin {old, new} /\ old # new

Clash(n, s, o) ==
  IF n = "hand" THEN EntriesClash(s.data, Complete(s), o.data, o.complete)
  ELSE FocusClash(s.data, Complete(s), o.data, o.complete)

Joined(n, old, new) ==
  IF n = "hand" THEN EntriesJoined(old, new) ELSE IF old = None THEN new ELSE old

\* A section in conflict stays so; contradictory evidence puts it there.
Taken(n, s, o) ==
  IF s.status = "conflict" THEN s
  ELSE IF ~Current(s) THEN Section(o.complete, o.data)
  ELSE IF Clash(n, s, o) THEN Blank("conflict")
  ELSE Section(Complete(s) \/ o.complete, Joined(n, s.data, o.data))

\* The focus must be an entry of a hand that is completely known.
CrossChecked(secs) ==
  IF /\ Current(secs["ui"]) /\ secs["ui"].data # None
     /\ Complete(secs["hand"]) /\ secs["ui"].data \notin DOMAIN secs["hand"].data
  THEN [secs EXCEPT !["ui"] = Blank("conflict")]
  ELSE secs

-------------------------------------------------------------------------------
(* observe *)

\* A packet or receipt was made for the present context and epoch.
Binding(l, p) == p.context = l.context /\ p.epoch = l.epoch

NewFrame(l, p) == l.frame # None /\ p.frame.id # l.frame.id

\* Evidence is not older than the newest, a superseded frame does not return,
\* and continuity is asserted from the present frame to another one only.
MayObserve(l, p) ==
  /\ Binding(l, p)
  /\ p.frame.at >= l.last
  /\ p.frame.id \in l.frames => l.frame # None /\ l.frame.id = p.frame.id
  /\ IF NewFrame(l, p) THEN p.continuity \in {None, l.frame.id}
     ELSE p.continuity = None /\ l.frame \in {None, p.frame}

\* A new frame ends all facts unless continuity is asserted, and then the focus.
Carried(l, p) ==
  IF ~NewFrame(l, p) THEN l
  ELSE Invalidated(l, IF p.continuity = None THEN Sections ELSE {"ui"})

Observe(l, p) ==
  LET secs == Carried(l, p).sections
      take == [n \in Sections |-> IF n \in DOMAIN p.sections
                                  THEN Taken(n, secs[n], p.sections[n]) ELSE secs[n]]
  IN  [l EXCEPT !.frame = p.frame, !.last = p.frame.at, !.frames = @ \cup {p.frame.id},
                !.sections = CrossChecked(take)]

-------------------------------------------------------------------------------
(* invalidate, change_context, record_inventory_event *)

NextEpoch(l) == [l EXCEPT !.epoch = @ + 1, !.frame = None]

\* An "input" leaves the inventory; an "unknown_input" or an "inventory_change"
\* leaves nothing.
Invalidate(l, kind) ==
  NextEpoch(Invalidated(l, IF kind = "input" THEN Volatile ELSE Sections))

\* Another run has its own inventory and clock.
ChangeContext(l, c) ==
  LET same == c.run = l.context.run IN
  [NextEpoch(Invalidated(l, IF same THEN Volatile ELSE Sections)) EXCEPT
     !.context = c, !.last = IF same THEN @ ELSE 0]

Stock(l) == l.sections["inventory"]

\* A receipt speaks of the present frame and, if it changes or replaces what
\* is known, names that (prior_digest).
MayRecord(l, r) ==
  /\ Binding(l, r) /\ l.frame # None /\ r.frame = l.frame
  /\ Stock(l).status # "conflict"
  /\ Current(Stock(l)) => r.prior = Stock(l).data
  /\ r.kind = "verified_transition" => Current(Stock(l))

\* A baseline adds to what is known or contradicts it; a partial look is no
\* evidence that items disappeared.
StockMerged(s, r) ==
  IF ~Current(s) THEN Section(r.complete, r.items)
  ELSE IF \/ Complete(s) /\ ~(r.items \subseteq s.data)
          \/ r.complete /\ ~(s.data \subseteq r.items)
  THEN Blank("conflict")
  ELSE Section(Complete(s) \/ r.complete, s.data \cup r.items)

RecordInventory(l, r) ==
  IF r.kind = "baseline"
  THEN [l EXCEPT !.sections["inventory"] = StockMerged(Stock(l), r)]
  ELSE NextEpoch([Invalidated(l, Volatile) EXCEPT
                    !.sections["inventory"] = Section(r.complete, r.items)])

===============================================================================
