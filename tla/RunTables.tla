------------------------------ MODULE RunTables -------------------------------
(***************************************************************************)
(* The tables of one run in the SQLite memory of veda/telemetry_database.py *)
(* as a value, with the queries and writes that veda/play_telemetry.py,     *)
(* veda/advisory_checkpoint.py and scripts/veda_memory.py make of it.       *)
(*                                                                          *)
(* A row is named by its position in its table, the order of insertion; 0   *)
(* is no row.  A time is that of the clock or of the image a fact was read  *)
(* from.  Of the contents of a row only its links, whether it is closed and *)
(* how often it was rewritten are kept.                                     *)
(***************************************************************************)
EXTENDS Naturals, Sequences, FiniteSets, SequencesExt

Context(f, c, t) == [floor |-> f, combat |-> c, turn |-> t]

\* An active run with its first floor on record.
NewRun ==
  [status |-> "active",
   floors |-> <<[at |-> 0, ends |-> 0]>>,
   combats |-> <<>>, turns |-> <<>>, points |-> <<>>, decs |-> <<>>, rows |-> <<>>]

\* The last row of a table by time, and by position among equal times.
Newest(s) == Max({i \in DOMAIN s : \A j \in DOMAIN s : s[j].at <= s[i].at})

OpenCombats(d) == {c \in DOMAIN d.combats : d.combats[c].open}
TurnsOf(d, c) == {t \in DOMAIN d.turns : d.turns[t].combat = c}
LastTurn(d, c) == CHOOSE t \in TurnsOf(d, c) : \A u \in TurnsOf(d, c) : d.turns[u].number <= d.turns[t].number
Numbers(d, c) == {d.turns[t].number : t \in TurnsOf(d, c)}
Pending(d) == {i \in DOMAIN d.decs : d.decs[i].status = "recommended"}

Paused(d) == d.points # <<>> /\ d.points[Newest(d.points)].kind = "pause"

\* _validate_event_context: a floor, a combat of it, a turn of that.
Linked(d, x) ==
  /\ x.floor \in DOMAIN d.floors
  /\ x.combat # 0 => x.combat \in DOMAIN d.combats /\ d.combats[x.combat].floor = x.floor
  /\ x.turn # 0 => x.turn \in DOMAIN d.turns /\ d.turns[x.turn].combat = x.combat

\* _context: the latest floor, the sole open combat, its latest turn if that is
\* open, and an image that none of them and no pause or resume is newer than.
Current(d, x, at) ==
  /\ d.status = "active" /\ Linked(d, x)
  /\ x.floor = Newest(d.floors)
  /\ OpenCombats(d) = IF x.combat = 0 THEN {} ELSE {x.combat}
  /\ x.combat # 0 =>
       IF TurnsOf(d, x.combat) = {} THEN x.turn = 0
       ELSE LET t == LastTurn(d, x.combat) IN
            /\ x.turn = IF d.turns[t].open THEN t ELSE 0
            /\ d.turns[t].at <= at
  /\ d.points # <<>> => d.points[Newest(d.points)].at <= at

\* _chronology: no recorded fact is newer than the image.
Chronological(d, at) == \A i \in DOMAIN d.rows : d.rows[i].at <= at

\* Faulty variant: what is only added is not part of the revision.
RevisionOfRewritten(d) ==
  <<d.status, d.floors, d.combats, d.turns,
    [i \in DOMAIN d.decs |-> <<d.decs[i].status, d.decs[i].edits>>]>>

\* _revision without the checkpoints: the rows that are rewritten, and the
\* number of those that are only added, outcomes and resumes excepted.
Revision(d) ==
  <<d.status, d.floors, d.combats, d.turns,
    [i \in DOMAIN d.decs |-> <<d.decs[i].status, d.decs[i].edits>>],
    Cardinality({i \in DOMAIN d.rows : d.rows[i].kind \in {"stock", "evidence"}})>>

-------------------------------------------------------------------------------
(* Writes *)

\* A fact: evidence, an inventory event, an outcome or a resume; dec is the
\* decision whose outcome it is part of.
Row(kind, by, at, dec) == [kind |-> kind, by |-> by, at |-> at, dec |-> dec]
AddRow(d, r) == [d EXCEPT !.rows = Append(@, r)]

AddFloor(d, at) == [d EXCEPT !.floors = Append(@, [at |-> at, ends |-> 0])]
EndFloor(d, f) == [d EXCEPT !.floors[f].ends = @ + 1]
AddCombat(d, f, at) == [d EXCEPT !.combats = Append(@, [floor |-> f, at |-> at, open |-> TRUE])]
EndCombat(d, c) == [d EXCEPT !.combats[c].open = FALSE]
AddTurn(d, c, n, at) ==
  [d EXCEPT !.turns = Append(@, [combat |-> c, number |-> n, at |-> at, open |-> TRUE])]
EndTurn(d, t) == [d EXCEPT !.turns[t].open = FALSE]
AddPoint(d, k, at, x) == [d EXCEPT !.points = Append(@, [kind |-> k, at |-> at, context |-> x])]
Resolve(d, i, s) == [d EXCEPT !.decs[i].status = s, !.decs[i].edits = @ + 1]

\* A recommendation; the image, the revision and the number of checkpoints are
\* those that the next outcome is held against.
AddDecision(d, by, x, at) ==
  [d EXCEPT !.decs = Append(@, [by |-> by, status |-> "recommended", edits |-> 0, context |-> x,
                                at |-> at, revision |-> <<>>, points |-> 0, born |-> 0])]

\* _revision_evidence, kept with a decision or with its last outcome.
Remember(d, i, at) ==
  [d EXCEPT !.decs[i].at = at, !.decs[i].revision = Revision(d), !.decs[i].points = Len(d.points)]

-------------------------------------------------------------------------------
(* The transitions of a verified outcome *)

Moves == {"end_turn", "start_turn", "end_combat", "start_combat", "advance_floor"}

Allowed(d, x, m) ==
  CASE m = "end_turn" -> x.turn # 0 /\ d.turns[x.turn].open
    [] m = "start_turn" -> x.combat # 0 /\ x.turn = 0
    [] m = "end_combat" -> x.combat # 0 /\ x.turn = 0
    [] m = "start_combat" -> x.combat = 0
    [] m = "advance_floor" -> x.combat = 0

\* The row written for a transition; a floor that was concluded before keeps
\* its conclusion.
Written(d, x, m, at, now) ==
  CASE m = "end_turn" -> EndTurn(d, x.turn)
    [] m = "start_turn" -> AddTurn(d, x.combat, Max(Numbers(d, x.combat) \cup {0}) + 1, at)
    [] m = "end_combat" -> EndCombat(d, x.combat)
    [] m = "start_combat" -> AddCombat(d, x.floor, at)
    [] m = "advance_floor" ->
         AddFloor(IF d.floors[x.floor].ends = 0 THEN EndFloor(d, x.floor) ELSE d, now)

\* The context after it.
Entered(d, x, m) ==
  CASE m = "end_turn" -> [x EXCEPT !.turn = 0]
    [] m = "start_turn" -> [x EXCEPT !.turn = Len(d.turns) + 1]
    [] m = "end_combat" -> [x EXCEPT !.combat = 0]
    [] m = "start_combat" -> [x EXCEPT !.combat = Len(d.combats) + 1]
    [] m = "advance_floor" -> [x EXCEPT !.floor = Len(d.floors) + 1]

\* A transition after others: it fails if it is not allowed, or one of them failed.
Moved(s, m, at, now) ==
  IF s.ok /\ Allowed(s.db, s.context, m)
  THEN [ok |-> TRUE, db |-> Written(s.db, s.context, m, at, now),
        context |-> Entered(s.db, s.context, m)]
  ELSE [s EXCEPT !.ok = FALSE]

\* _transitions: one after the other; the first that is not allowed fails all.
Transitions(d, x, moves, at, now) ==
  LET after[n \in 0..Len(moves)] ==
        IF n = 0 THEN [ok |-> TRUE, db |-> d, context |-> x]
        ELSE Moved(after[n - 1], moves[n], at, now)
  IN  after[Len(moves)]

===============================================================================
