------------------------------- MODULE RunLedger -------------------------------
(***************************************************************************)
(* The record of a run, written by several processes at once.  The player  *)
(* (veda/play_telemetry.py) and the checkpoint (veda/advisory_checkpoint.py)*)
(* work in transactions under SQLite's write lock (BEGIN IMMEDIATE), and    *)
(* name each write with an operation id, to be retried.  The commands of    *)
(* scripts/veda_memory.py read, and look at the clock, before their write   *)
(* waits for the lock.                                                      *)
(***************************************************************************)
EXTENDS RunTables

CONSTANTS
  Procs,    \* processes that have the database open
  Ops,      \* operation ids
  None,     \* nobody, nothing
  MoveSets, \* the lists of transitions that outcomes come with
  MaxTime,  \* bound: the last time of the clock
  MaxRows,  \* bound: rows of each of the tables below facts
  MaxCommands \* bound: commands begun

ASSUME LedgerAssumption ==
  /\ None \notin Procs /\ MaxTime \in Nat /\ MaxRows \in Nat \ {0} /\ MaxCommands \in Nat
  /\ MoveSets \subseteq Seq(Moves)

VARIABLES
  now,      \* the clock
  db,       \* the tables, as committed
  lock,     \* the process that holds the write lock
  job,      \* what a process is about to write
  used,     \* operation ids that are committed
  commands, \* number of commands begun
  touched   \* decisions of the player during whose wait a command wrote the
            \* lifecycle of the run (to state OutcomeOnSameLedger)

vars == <<now, db, lock, job, used, commands, touched>>

Times == 0..MaxTime

Init ==
  /\ now = 0 /\ db = NewRun
  /\ lock = None /\ job = [p \in Procs |-> None]
  /\ used = {} /\ commands = 0 /\ touched = {}

Fits(d) ==
  /\ Len(d.floors) <= MaxRows /\ Len(d.combats) <= MaxRows /\ Len(d.turns) <= MaxRows
  /\ Len(d.points) <= MaxRows /\ Len(d.decs) <= MaxRows

Contexts ==
  {Context(f, c, t) : f \in DOMAIN db.floors, c \in {0} \cup DOMAIN db.combats, t \in {0} \cup DOMAIN db.turns}

Tick ==
  /\ now < MaxTime
  /\ now' = now + 1
  /\ UNCHANGED <<db, lock, job, used, commands, touched>>

-------------------------------------------------------------------------------
(* Transactions: the tables after a request, or none if it is refused *)

Decision(x, at) == [kind |-> "decision", context |-> x, at |-> at]
Outcome(i, at, s, stock, moves) ==
  [kind |-> "outcome", dec |-> i, at |-> at, status |-> s, stock |-> stock, moves |-> moves]
Resume(x, at) == [kind |-> "resume", context |-> x, at |-> at]
Pause(x, at, stock) == [kind |-> "pause", context |-> x, at |-> at, stock |-> stock]

\* record_decision: nothing else is unresolved, and the run is not paused.
MayPrepare(r) ==
  /\ Current(db, r.context, r.at) /\ ~Paused(db)
  /\ Chronological(db, r.at)
  /\ Pending(db) = {}

Prepared(r) ==
  LET i == Len(db.decs) + 1
      d == AddDecision(AddRow(db, Row("evidence", "play", r.at, 0)), "play", r.context, r.at)
  IN  Remember([d EXCEPT !.decs[i].born = Len(d.points)], i, r.at)

\* The ledger is as the decision, or its last outcome, left it; or the only
\* difference is one pause there, before the image (_only_intervening_pause).
Unchanged(r) ==
  LET dec == db.decs[r.dec]
      n == Len(db.points)
  IN  /\ Revision(db) = dec.revision
      /\ \/ n = dec.points
         \/ /\ n = dec.points + 1
            /\ db.points[n].kind = "pause"
            /\ db.points[n].context = Context(dec.context.floor, dec.context.combat, 0)
            /\ dec.at <= db.points[n].at /\ db.points[n].at < r.at

\* _outcome_guard, and the writes that can still fail: transitions out of order.
\* An unknown outcome may be reviewed again from the same image.
MayRecord(r) ==
  /\ r.dec \in Pending(db) /\ db.decs[r.dec].by = "play"
  /\ LET dec == db.decs[r.dec] IN
     /\ dec.at < r.at \/ (r.status = "verified" /\ dec.at = r.at
                          /\ \E i \in DOMAIN db.rows : db.rows[i].kind = "outcome" /\ db.rows[i].dec = r.dec)
     /\ Unchanged(r)
     /\ Current(db, dec.context, r.at)
     /\ Chronological(db, r.at)
     /\ Transitions(db, dec.context, r.moves, r.at, now).ok

NextContext(r) == Transitions(db, db.decs[r.dec].context, r.moves, r.at, now).context

Recorded(r) ==
  LET stocked == IF r.stock THEN AddRow(db, Row("stock", "play", r.at, r.dec)) ELSE db
      moved == Transitions(stocked, db.decs[r.dec].context, r.moves, r.at, now).db
      rowed == AddRow(moved, Row("outcome", "play", r.at, r.dec))
      resolved == CASE r.status = "verified" -> Resolve(rowed, r.dec, "resolved")
                    [] r.status = "not_performed" -> Resolve(rowed, r.dec, "skipped")
                    [] r.status = "unknown" -> rowed
  IN  Remember(resolved, r.dec, r.at)

\* record_session_checkpoint looks at the last checkpoint by time; of equal
\* times at any, for the order of its ids is random.
MayCheckpoint(kind) ==
  /\ db.status = "active"
  /\ IF db.points = <<>> THEN kind = "pause"
     ELSE \E i \in DOMAIN db.points : /\ \A j \in DOMAIN db.points : db.points[j].at <= db.points[i].at
                                      /\ db.points[i].kind # kind

\* record_resume: the image is newer than the pause, and nothing is unresolved.
MayResume(r) ==
  /\ Current(db, r.context, r.at) /\ Paused(db)
  /\ db.points[Newest(db.points)].at < r.at
  /\ Chronological(db, r.at)
  /\ Pending(db) = {} /\ MayCheckpoint("resume")

Here(x) == Context(x.floor, x.combat, 0)
Resumed(r) == AddRow(AddPoint(db, "resume", r.at, Here(r.context)), Row("resume", "play", r.at, 0))

\* record_advisory_checkpoint, of an image taken when the run is paused: a
\* combat is the latest one with an open turn, or no combat is open.  It may
\* come with an inventory, unless that changed after the image.
MayPause(r) ==
  /\ db.status = "active" /\ Linked(db, r.context) /\ r.context.floor = Newest(db.floors)
  /\ IF r.context.combat = 0 THEN OpenCombats(db) = {}
     ELSE /\ r.context.combat = Newest(db.combats) /\ db.combats[r.context.combat].open
          /\ TurnsOf(db, r.context.combat) # {}
          /\ LET t == LastTurn(db, r.context.combat) IN
             t = r.context.turn /\ db.turns[t].open /\ db.turns[t].at <= r.at
  /\ ~Paused(db) /\ (db.points # <<>> => db.points[Newest(db.points)].at < r.at)
  /\ MayCheckpoint("pause")
  /\ r.stock => \A i \in DOMAIN db.rows : db.rows[i].kind = "stock" => db.rows[i].at <= r.at

PausedThen(r) ==
  AddPoint(IF r.stock THEN AddRow(db, Row("stock", "checkpoint", r.at, 0)) ELSE db,
           "pause", r.at, Here(r.context))

Accepted(r) ==
  \/ r.kind = "decision" /\ MayPrepare(r)
  \/ r.kind = "outcome" /\ MayRecord(r)
  \/ r.kind = "resume" /\ MayResume(r)
  \/ r.kind = "pause" /\ MayPause(r)

Applied(r) ==
  CASE r.kind = "decision" -> Prepared(r)
    [] r.kind = "outcome" -> Recorded(r)
    [] r.kind = "resume" -> Resumed(r)
    [] r.kind = "pause" -> PausedThen(r)

Requests ==
  {Decision(x, at) : x \in Contexts, at \in 0..now}
    \cup {Outcome(i, at, "verified", s, m) : i \in Pending(db), at \in 0..now, s \in BOOLEAN, m \in MoveSets}
    \cup {Outcome(i, at, s, FALSE, <<>>) : i \in Pending(db), at \in 0..now, s \in {"not_performed", "unknown"}}
    \cup {Resume(x, at) : x \in Contexts, at \in 0..now}
    \cup {Pause(x, at, s) : x \in Contexts, at \in 0..now, s \in BOOLEAN}

\* Faulty variant: the lock is first taken by the first write.
BeginDeferred(p, o) ==
  /\ job[p] = None /\ o \notin used
  /\ \E r \in Requests :
       /\ Accepted(r) /\ Fits(Applied(r))
       /\ job' = [job EXCEPT ![p] = [op |-> o, request |-> r]]
  /\ UNCHANGED <<now, db, lock, used, commands, touched>>

\* A request that is neither a repetition nor refused; nobody writes until its
\* transaction is over.
Begin(p, o) ==
  /\ lock = None /\ job[p] = None /\ o \notin used
  /\ lock' = p
  /\ \E r \in Requests :
       /\ Accepted(r) /\ Fits(Applied(r))
       /\ job' = [job EXCEPT ![p] = [op |-> o, request |-> r]]
  /\ UNCHANGED <<now, db, used, commands, touched>>

\* Decisions of the player that wait for an outcome while others write d.
Touched(d) ==
  IF [d EXCEPT !.points = db.points] = db THEN {} ELSE {i \in Pending(db) : db.decs[i].by = "play"}

Transaction(p) == job[p] # None /\ "op" \in DOMAIN job[p]

Commit(p) ==
  /\ Transaction(p)
  /\ db' = Applied(job[p].request)
  /\ used' = used \cup {job[p].op}
  /\ lock' = None
  /\ job' = [job EXCEPT ![p] = None]
  /\ touched' = touched \cup IF job[p].request.kind = "pause" THEN Touched(db') ELSE {}
  /\ UNCHANGED <<now, commands>>

\* The image changed meanwhile, or the process is killed.
Rollback(p) ==
  /\ Transaction(p)
  /\ lock' = None
  /\ job' = [job EXCEPT ![p] = None]
  /\ UNCHANGED <<now, db, used, commands, touched>>

-------------------------------------------------------------------------------
(* Commands: a job has its time, its command, and a row, a number, a context *)

Job(c, row, n, x) == [at |-> now, command |-> c, row |-> row, n |-> n, context |-> x]
Nowhere == Context(0, 0, 0)

\* A command that reads before it writes: what it must have found.
Found(j) ==
  \/ j.command \in {"floor-start", "inventory", "run-new"}
  \/ j.command \in {"floor-finish", "combat-start", "decision"} /\ j.row \in DOMAIN db.floors
  \/ j.command = "combat-finish" /\ j.row \in DOMAIN db.combats
  \/ j.command = "turn-start" /\ j.row \in OpenCombats(db)
  \/ j.command = "turn-finish" /\ j.row \in DOMAIN db.turns
  \/ j.command = "resolve" /\ j.row \in DOMAIN db.decs
  \/ j.command \in {"pause", "resume"} /\ MayCheckpoint(j.command)

Start(p, j) ==
  /\ job[p] = None /\ Found(j) /\ commands < MaxCommands
  /\ job' = [job EXCEPT ![p] = j]
  /\ commands' = commands + 1
  /\ UNCHANGED <<now, db, lock, used, touched>>

\* What a statement writes; an UPDATE finds its row still open, or nothing, and
\* the number of a turn is new to its combat, or the INSERT fails.
Stated(j) ==
  CASE j.command = "floor-start" -> AddFloor(db, j.at)
    [] j.command = "floor-finish" -> EndFloor(db, j.row)
    [] j.command = "combat-start" -> AddCombat(db, j.row, j.at)
    [] j.command = "combat-finish" -> IF db.combats[j.row].open THEN EndCombat(db, j.row) ELSE db
    [] j.command = "turn-start" ->
         IF j.n \in Numbers(db, j.row) THEN db ELSE AddTurn(db, j.row, j.n, j.at)
    [] j.command = "turn-finish" -> IF db.turns[j.row].open THEN EndTurn(db, j.row) ELSE db
    [] j.command \in {"floor-evidence", "decision"} -> AddRow(db, Row("evidence", "command", j.at, 0))
    [] j.command = "recommend" -> AddDecision(db, "command", Context(j.row, 0, 0), j.at)
    [] j.command = "resolve" -> Resolve(db, j.row, IF j.n = 1 THEN "resolved" ELSE "skipped")
    [] j.command \in {"pause", "resume"} -> AddPoint(db, j.command, j.n, j.context)
    [] j.command = "inventory" -> AddRow(db, Row("stock", "command", j.at, 0))
    [] j.command = "run-new" -> [db EXCEPT !.status = "abandoned"]

Command(p) == job[p] # None /\ "command" \in DOMAIN job[p]

\* Some commands write twice, each time in a transaction of its own: a floor is
\* finished before the evidence of it, and a recommendation follows its own.
Follow(j) ==
  CASE j.command = "floor-finish" -> [j EXCEPT !.command = "floor-evidence", !.at = now]
    [] j.command = "decision" -> [j EXCEPT !.command = "recommend"]
    [] OTHER -> None

\* The statement waits for the lock and commits.
Write(p) ==
  /\ Command(p) /\ lock = None
  /\ Fits(Stated(job[p]))
  /\ db' = Stated(job[p])
  /\ job' = [job EXCEPT ![p] = Follow(@)]
  /\ touched' = touched \cup Touched(db')
  /\ UNCHANGED <<now, lock, used, commands>>

\* It waited too long for the lock, or the process is killed.
Fail(p) ==
  /\ Command(p)
  /\ job' = [job EXCEPT ![p] = None]
  /\ UNCHANGED <<now, db, lock, used, commands, touched>>

\* A row is named where the command takes one, and a number or a status; the
\* time and the place of a session-checkpoint are given or left out.
Jobs ==
  {Job(c, 0, 0, Nowhere) : c \in {"floor-start", "inventory", "run-new"}}
    \cup {Job(c, i, 0, Nowhere) : c \in {"floor-finish", "combat-start", "combat-finish", "turn-finish", "decision"},
                                 i \in 1..MaxRows}
    \cup {Job(c, i, n, Nowhere) : c \in {"turn-start", "resolve"}, i, n \in 1..MaxRows}
    \cup {Job(c, 0, n, x) : c \in {"pause", "resume"}, n \in 0..now, x \in {Nowhere} \cup {Here(y) : y \in Contexts}}

-------------------------------------------------------------------------------

Next ==
  \/ Tick
  \/ \E p \in Procs :
       \/ \E o \in Ops : Begin(p, o)
       \/ \E j \in Jobs : Start(p, j)
       \/ Commit(p) \/ Rollback(p) \/ Write(p) \/ Fail(p)

Spec == Init /\ [][Next]_vars

-------------------------------------------------------------------------------
(* Properties *)

\* Every variable has its type.
TypeOK ==
  /\ now \in Times /\ lock \in Procs \cup {None} /\ used \subseteq Ops
  /\ job \in [Procs -> {None} \cup {job[p] : p \in {q \in Procs : Transaction(q) # Command(q)}}]
  /\ db.status \in {"active", "abandoned"}
  /\ \A c \in DOMAIN db.combats : db.combats[c].floor \in DOMAIN db.floors
  /\ \A t \in DOMAIN db.turns : db.turns[t].combat \in DOMAIN db.combats
  /\ touched \subseteq DOMAIN db.decs

Stocked(i) == {k \in DOMAIN db.rows : db.rows[k].kind = "stock" /\ db.rows[k].dec = i}

\* A fact read from an image is replayed, in the order of times, after all that
\* was on record when it was committed, and the inventory of a checkpoint after
\* all that was known of the inventory; only a command may write with an older
\* time than a row that is there.  What a decision did to the inventory is on
\* record once at most, however its outcome is retried and by whichever
\* processes, and only if it is settled.
FactsInOrder ==
  /\ TypeOK
  /\ \A i, k \in DOMAIN db.rows :
       /\ i < k
       /\ db.rows[k].by = "play" \/ (db.rows[k].by = "checkpoint" /\ db.rows[i].kind = "stock")
       => db.rows[i].at <= db.rows[k].at
  /\ \A i \in DOMAIN db.decs :
       Stocked(i) # {} => Cardinality(Stocked(i)) = 1 /\ i \notin Pending(db)

\* Connector steps that settle decision i: only they happen under the lock.
Settles(i) ==
  /\ lock # None /\ i \in Pending(db)
  /\ db'.decs[i].status # "recommended"

\* An outcome is committed to the ledger its decision was prepared against: no
\* other process wrote floors, combats, turns, decisions or facts in between.
\* It is not attributed to an input across a resume: between the two the run was
\* paused once at most.  And the context its receipt returns is the current one,
\* so that the next decision can be prepared in it.
OutcomeOnSameLedger ==
  [][/\ \A i \in DOMAIN db.decs :
          Settles(i) =>
            /\ i \notin touched
            /\ \A k \in db.decs[i].born + 1 .. Len(db.points) : db.points[k].kind = "pause"
     /\ \A p \in Procs :
          lock = p /\ db' # db /\ Transaction(p) /\ job[p].request.kind = "outcome" =>
            Current(db', NextContext(job[p].request), job[p].request.at)]_vars

===============================================================================
