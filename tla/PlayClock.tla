------------------------------ MODULE PlayClock ------------------------------
(***************************************************************************)
(* The play clock timing.json (play_timing): how long the run, its floors  *)
(* and its decisions take, kept across processes.  The reviewed player     *)
(* reports its progress event by event; helper scripts report their        *)
(* failures (helper_timing); each report is a transaction under a file     *)
(* lock, and a process may die anywhere.                                   *)
(*                                                                         *)
(* Real time is a history variable.  A process has a monotonic clock of    *)
(* its own; between processes only the wall clock connects two reports,    *)
(* and that may be set.  Phases (a report of a phase only brings the clock *)
(* up to date), labels and recommendations are left out.                   *)
(***************************************************************************)
EXTENDS Naturals, Integers, Sequences, FiniteSets, SequencesExt, FiniteSetsExt

CONSTANTS
  NoScope,          \* no scope
  Captures,         \* screenshots that can be too old
  Target,           \* TARGET_SECONDS of a startup, a move, a floor
  Budget,           \* WATCHDOG_SECONDS by WatchdogClass
  STALE_RECAPTURE_LIMIT, MAX_HISTORY,
  Steps,            \* the settled inputs to come: [complete, up, room, what]
  LastTick, LastOpen, MaxTroubles, Jumps   \* bounds; what the wall clock may be set by

Classes == {"routine", "new_noncombat", "combat", "elite", "boss"}
Alerts == {"target_exceeded", "watchdog_due", "stale_budget"}

ScopeIds ==
  {<<"startup">>, <<"operator">>} \cup ({"arm", "after", "floor"} \X Nat) \cup ({"decision"} \X Nat \X Nat)

Scopes ==
  [id : ScopeIds, kind : {"startup", "move", "floor"}, active : Int, excluded : Int, whole : BOOLEAN,
   stale : SUBSET Captures, class : Classes \cup {NoScope}, alerted : SUBSET Alerts, born : Int]

Timings ==
  [updated : Int, mono : Int, clock : Nat, active : Int, excluded : Int, paused : BOOLEAN,
   complete : BOOLEAN, startup : Scopes, started : BOOLEAN,
   move : Scopes \cup {NoScope}, floor : Scopes \cup {NoScope},
   moves : Seq(ScopeIds), floors : Seq(ScopeIds), verified : Seq(Nat), inputs : Nat, moved : Nat]

ASSUME ClockAssumption ==
  /\ NoScope \notin Captures /\ NoScope \notin Nat /\ NoScope \notin Scopes /\ NoScope \notin Timings
  /\ NoScope \notin {"pause", "begin_move"}
  /\ STALE_RECAPTURE_LIMIT \in Nat \ {0} /\ MAX_HISTORY \in Nat \ {0}
  /\ Steps \in Seq([complete : BOOLEAN, up : BOOLEAN, room : STRING, what : STRING])
  /\ \A k \in DOMAIN Steps : Steps[k].up => Steps[k].complete
  /\ Jumps \subseteq Int

VARIABLES
  real, skew,   \* real time; how far the wall clock is off
  timing,       \* timing.json
  work,         \* process -> the transaction it is in: [read, events, now]
  player,       \* the adapter: [up, opened, armed, rebase, todo]
  session,      \* its state.json: [settled, pending, floor]
  history       \* [rest, jumped, misled, reported, captures, meddled, helped]

\* What the adapter has to report, and what it does between two reports.
Events ==
  [op : {"resume", "pause", "failure", "poll", "deliver", "settle", "close"}]
    \cup [op : {"begin_move"}, id : ScopeIds, class : Classes \cup {NoScope}]
    \cup [op : {"set_watchdog"}, class : Classes]
    \cup [op : {"begin_floor"}, id : ScopeIds, whole : BOOLEAN]
    \cup [op : {"rebase_floor"}, id : ScopeIds]
    \cup [op : {"complete_floor"}, id : ScopeIds, to : ScopeIds]
    \cup [op : {"verified_input"}, action : Nat, complete : BOOLEAN]
    \cup [op : {"stale_capture"}, capture : Captures]

Instants == [wall : Int, mono : Int, clock : Nat]
Players == [up : BOOLEAN, opened : Nat, armed : BOOLEAN, rebase : BOOLEAN, todo : Seq(Events)]
Histories ==
  [rest : Int, jumped : BOOLEAN, misled : BOOLEAN, reported : SUBSET Nat, captures : SUBSET Captures,
   meddled : {NoScope, "pause", "begin_move"}, helped : Nat]

Processes == {"player", "helper"}

ClockTypeOK ==
  /\ real \in Nat /\ skew \in Int
  /\ timing \in Timings \cup {NoScope}
  /\ work \in [Processes -> [read : Timings \cup {NoScope}, events : Seq(Events), now : Instants \cup {NoScope}]]
  /\ player \in Players
  /\ session \in [settled : Nat, pending : Nat \cup {NoScope}, floor : Nat]
  /\ history \in Histories

clockVars == <<real, skew, timing, work, player, session, history>>

ClockOf(p) == IF p = "player" THEN player.opened ELSE 100 + history.helped
Now(p) == [wall |-> real + skew, mono |-> real, clock |-> ClockOf(p)]

-------------------------------------------------------------------------------
\* The state of the clock and its events (record_event).

Scope(id, kind, whole) ==
  [id |-> id, kind |-> kind, active |-> 0, excluded |-> 0, whole |-> whole, stale |-> {},
   class |-> NoScope, alerted |-> {}, born |-> real]

\* begin_session, opened by an adapter that did not see the launch.
NewTiming(now) ==
  [updated |-> now.wall, mono |-> now.mono, clock |-> now.clock,
   active |-> 0, excluded |-> 0, paused |-> FALSE, complete |-> TRUE,
   startup |-> Scope(<<"startup">>, "startup", FALSE), started |-> FALSE,
   move |-> NoScope, floor |-> NoScope,
   moves |-> <<>>, floors |-> <<>>, verified |-> <<>>, inputs |-> 0, moved |-> 0]

Continuous(t, now) == now.clock = t.clock /\ now.mono >= t.mono
\* Faulty variant: the monotonic clock of another process is taken for ours.
ElapsedAnyClock(t, now) ==
  IF now.clock # t.clock /\ now.wall >= t.updated THEN 0 ELSE now.mono - t.mono

Elapsed(t, now) ==
  IF Continuous(t, now) THEN now.mono - t.mono
  ELSE IF now.wall < t.updated THEN 0 ELSE now.wall - t.updated

Longer(s, d, paused) ==
  IF s = NoScope THEN s
  ELSE IF paused THEN [s EXCEPT !.excluded = @ + d] ELSE [s EXCEPT !.active = @ + d]

Advance(t, now) ==
  LET d == Elapsed(t, now)
  IN [t EXCEPT !.active = IF t.paused THEN @ ELSE @ + d,
               !.excluded = IF t.paused THEN @ + d ELSE @,
               !.startup = IF t.started THEN @ ELSE Longer(@, d, t.paused),
               !.move = Longer(@, d, t.paused), !.floor = Longer(@, d, t.paused),
               !.complete = @ /\ (Continuous(t, now) \/ now.wall >= t.updated),
               !.updated = now.wall, !.mono = now.mono, !.clock = now.clock]

Recent(seq) == IF Len(seq) > MAX_HISTORY THEN SubSeq(seq, Len(seq) - MAX_HISTORY + 1, Len(seq)) ELSE seq

CloseMove(t) ==
  [t EXCEPT !.moves = Recent(Append(@, t.move.id)), !.moved = @ + 1, !.move = NoScope]

\* Where a capture that was too old is counted.
StaleScope(t) ==
  IF t.move # NoScope THEN "move" ELSE IF ~t.started THEN "startup" ELSE "floor"

\* The event cannot be taken: it raises, and the file stays as it was.
Refuses(t, e) ==
  CASE e.op = "begin_move" -> IF t.move # NoScope THEN t.move.id # e.id ELSE e.id \in ToSet(t.moves)
    [] e.op = "set_watchdog" -> t.move = NoScope
    [] e.op = "begin_floor" -> IF t.floor # NoScope THEN t.floor.id # e.id ELSE e.id \in ToSet(t.floors)
    [] e.op = "rebase_floor" -> t.floor = NoScope \/ t.floor.id # e.id \/ t.move # NoScope
    [] e.op = "verified_input" -> e.complete /\ t.move = NoScope /\ e.action \notin ToSet(t.verified)
    [] e.op = "complete_floor" -> t.floor = NoScope \/ t.floor.id # e.id \/ t.move # NoScope
    [] e.op = "pause" -> t.paused
    [] e.op = "resume" -> ~t.paused
    [] e.op = "stale_capture" -> StaleScope(t) = "floor" /\ t.floor = NoScope
    [] OTHER -> FALSE

Apply(t, e) ==
  CASE e.op = "begin_move" ->
         IF t.move # NoScope THEN t
         ELSE [t EXCEPT !.move = [Scope(e.id, "move", TRUE) EXCEPT !.class = e.class]]
    [] e.op = "set_watchdog" -> [t EXCEPT !.move.class = e.class]
    [] e.op = "begin_floor" ->
         IF t.floor # NoScope THEN t ELSE [t EXCEPT !.floor = Scope(e.id, "floor", e.whole)]
    [] e.op = "rebase_floor" -> [t EXCEPT !.floor = Scope(e.id, "floor", FALSE)]
    [] e.op = "verified_input" ->
         IF e.action \in ToSet(t.verified) THEN t
         ELSE LET u == [t EXCEPT !.verified = Recent(Append(@, e.action)), !.inputs = @ + 1, !.started = TRUE]
              IN IF e.complete THEN CloseMove(u) ELSE u
    [] e.op = "complete_floor" -> [t EXCEPT !.floors = Recent(Append(@, t.floor.id)), !.floor = NoScope]
    [] e.op = "pause" -> [t EXCEPT !.paused = TRUE]
    [] e.op = "resume" -> [t EXCEPT !.paused = FALSE]
    [] e.op = "stale_capture" ->
         CASE StaleScope(t) = "move" -> [t EXCEPT !.move.stale = @ \cup {e.capture}]
           [] StaleScope(t) = "startup" -> [t EXCEPT !.startup.stale = @ \cup {e.capture}]
           [] OTHER -> [t EXCEPT !.floor.stale = @ \cup {e.capture}]
    [] OTHER -> t

Record(t, e, now) == Apply(Advance(t, now), e)

\* _diagnostics that poll reports, each once per scope.
Due(s) ==
  IF s = NoScope THEN {}
  ELSE {c \in {"target_exceeded", "watchdog_due", "stale_budget"} :
          \/ c = "target_exceeded" /\ s.active > Target[s.kind]
          \/ c = "watchdog_due" /\ s.kind = "move" /\ s.class # NoScope /\ s.active >= Budget[s.class]
          \/ c = "stale_budget" /\ Cardinality(s.stale) >= STALE_RECAPTURE_LIMIT}

Told(s) == IF s = NoScope THEN s ELSE [s EXCEPT !.alerted = @ \cup Due(s)]
NewAlerts(t) ==
  UNION {Due(s) \ s.alerted : s \in {t.startup, t.move, t.floor} \ {NoScope}}
Polled(t) == [t EXCEPT !.startup = Told(@), !.move = Told(@), !.floor = Told(@)]

-------------------------------------------------------------------------------
\* A transaction: the lock is taken and the file read; then it is replaced.

NoWork == [read |-> NoScope, events |-> <<>>, now |-> NoScope]
Busy(p) == work[p].events # <<>>

\* Faulty variant: a helper does not wait for the lock.
UnlockedForPlayer == ~Busy("player")

Unlocked == \A p \in Processes : ~Busy(p)

Enter(p, events) ==
  /\ Unlocked
  /\ work' = [work EXCEPT ![p] = [read |-> timing, events |-> events, now |-> Now(p)]]

After1(t, e, now) == IF Refuses(t, e) THEN t ELSE Record(t, e, now)

\* A process reports one event, a helper perhaps a second with it.
After(w) ==
  LET t == After1(w.read, w.events[1], w.now)
  IN IF Len(w.events) = 1 THEN t ELSE After1(t, w.events[2], w.now)

Leave(p) ==
  LET w == work[p]
      t == After(w)
      polled == \E i \in DOMAIN w.events : w.events[i].op = "poll"
      written == IF polled THEN Polled(t) ELSE t
      inputs == {w.events[i].action : i \in {i \in DOMAIN w.events : w.events[i].op = "verified_input"}}
  IN /\ Busy(p)
     /\ timing' = written
     /\ work' = [work EXCEPT ![p] = NoWork]
     /\ history' = [history EXCEPT
          !.misled = @ \/ (history.jumped /\ written # w.read /\ ~Continuous(w.read, w.now)),
          !.jumped = @ /\ written = w.read,
          !.reported = @ \cup {a \in inputs : a \in ToSet(t.verified)}]
     /\ UNCHANGED <<real, skew, player, session>>

-------------------------------------------------------------------------------
\* The reviewed player.  An operation leaves a list of reports to make, each on
\* what the file says at that time; between any two of them it may die.

OperatorsMove == <<"operator">>

Report(t, item) ==
  CASE item.op = "resume" -> IF t.paused THEN <<item>> ELSE <<>>
    [] item.op = "pause" -> IF t.paused THEN <<>> ELSE <<item>>
    [] item.op = "rebase_floor" ->
         IF player.rebase /\ t.floor # NoScope /\ t.floor.id = item.id /\ t.move = NoScope
         THEN <<item>> ELSE <<>>
    [] item.op = "begin_floor" -> IF t.floor = NoScope \/ (item.whole /\ t.floor.id # item.id) THEN <<item>> ELSE <<>>
    [] item.op = "complete_floor" -> IF t.floor # NoScope /\ t.floor.id # item.to THEN <<item>> ELSE <<>>
    [] item.op = "set_watchdog" -> IF t.move # NoScope /\ t.move.id # OperatorsMove THEN <<item>> ELSE <<>>
    [] item.op = "begin_move" -> IF t.move = NoScope \/ item.id = OperatorsMove THEN <<item>> ELSE <<>>
    [] OTHER -> <<item>>

Do(op) == [op |-> op]
BeginMove(id, class) == [op |-> "begin_move", id |-> id, class |-> class]
FloorId(n) == <<"floor", n>>
BeginFloor(n, whole) == [op |-> "begin_floor", id |-> FloorId(n), whole |-> whole]

\* Bound: what goes wrong or comes from outside: failed operations and helpers,
\* the operator's reports and the wall clock set.
Troubles == Cardinality(history.captures) + history.helped
  + Cardinality({x \in {history.meddled} : x # NoScope}) + Cardinality({x \in {skew} : x # 0})
MoreTrouble == Troubles < MaxTroubles

PlayerIdle == player.up /\ player.todo = <<>> /\ ~Busy("player")
Begins(items) == player' = [player EXCEPT !.todo = items]

\* ReviewedPlaySession.__init__ and PlayTiming.__init__: the file is created once.
OpenPlayer ==
  /\ ~player.up /\ player.opened < LastOpen /\ Unlocked
  /\ LET paused == timing # NoScope /\ timing.paused
     IN player' = [up |-> TRUE, opened |-> player.opened + 1, armed |-> FALSE, rebase |-> paused,
                   todo |-> IF paused THEN <<Do("resume")>> ELSE <<>>]
  /\ timing' = IF timing # NoScope THEN timing
               ELSE NewTiming([wall |-> real + skew, mono |-> real, clock |-> player.opened + 1])
  /\ history' = [history EXCEPT !.jumped = @ /\ timing # NoScope, !.rest = IF timing = NoScope THEN 0 ELSE @]
  /\ UNCHANGED <<real, skew, work, session>>

CrashPlayer ==
  /\ player.up
  /\ player' = [player EXCEPT !.up = FALSE, !.armed = FALSE, !.todo = <<>>]
  /\ work' = [work EXCEPT !["player"] = NoWork]
  /\ UNCHANGED <<real, skew, timing, session, history>>

ArmPlayer ==
  /\ PlayerIdle /\ ~player.armed /\ session.pending = NoScope
  /\ player' = [player EXCEPT !.armed = TRUE,
       !.todo = <<Do("resume"), BeginMove(<<"arm", player.opened>>, NoScope)>>]
  /\ UNCHANGED <<real, skew, timing, work, session, history>>

\* decision_watchdog_profile: what the reviewed screen allows for a decision.
WatchdogClass(step) ==
  IF step.room \in {"boss", "elite"} THEN step.room
  ELSE IF step.room = "enemy" \/ step.what = "fight" THEN "combat"
  ELSE IF step.what \in {"map", "menu"} THEN "routine"
  ELSE "new_noncombat"

\* prepare, and the input sent and verified after it.
PrepareStep ==
  /\ PlayerIdle /\ player.armed /\ session.pending = NoScope /\ session.settled < Len(Steps)
  /\ LET k == session.settled + 1
         class == WatchdogClass(Steps[k])
     IN Begins(<<Do("resume"), [op |-> "rebase_floor", id |-> FloorId(session.floor)],
                 BeginFloor(session.floor, FALSE), [op |-> "set_watchdog", class |-> class],
                 BeginMove(<<"decision", k, player.opened>>, class), Do("deliver")>>)
  /\ UNCHANGED <<real, skew, timing, work, session, history>>

\* finalize: the outcome is in the memory already.
FloorItems(k) ==
  LET to == session.floor + 1
  IN IF ~Steps[k].up THEN <<>>
     ELSE <<[op |-> "complete_floor", id |-> FloorId(session.floor), to |-> FloorId(to)], BeginFloor(to, TRUE)>>

Settled(k) == [op |-> "verified_input", action |-> k, complete |-> Steps[k].complete]
NextMove(k) == IF Steps[k].complete THEN <<BeginMove(<<"after", k>>, NoScope)>> ELSE <<>>

FinalItems(k) ==
  <<Do("resume"), Settled(k)>> \o FloorItems(k) \o <<Do("settle")>> \o NextMove(k)

FinalizeStep ==
  /\ PlayerIdle /\ session.pending # NoScope
  /\ Begins(FinalItems(session.pending))
  /\ UNCHANGED <<real, skew, timing, work, session, history>>

\* An operation that fails since a picture was too old.  Bound: once for each.
OperationFails ==
  /\ PlayerIdle /\ MoreTrouble
  /\ \E c \in Captures \ history.captures :
       /\ Begins(<<Do("resume"), Do("failure"), [op |-> "stale_capture", capture |-> c]>>)
       /\ history' = [history EXCEPT !.captures = @ \cup {c}]
  /\ UNCHANGED <<real, skew, timing, work, session>>

\* Bound: no poll when there is nothing to measure and nothing to tell.
PollClock ==
  /\ PlayerIdle /\ (real > timing.mono \/ NewAlerts(timing) # {})
  /\ Begins(<<Do("poll")>>)
  /\ UNCHANGED <<real, skew, timing, work, session, history>>

\* The operation "timing": the operator's own pauses and scopes.  Bound: once.
OperatorReports ==
  /\ PlayerIdle /\ MoreTrouble /\ history.meddled = NoScope
  /\ \E e \in {Do("pause"), BeginMove(OperatorsMove, NoScope)} :
       /\ Begins(<<e>>)
       /\ history' = [history EXCEPT !.meddled = e.op]
  /\ UNCHANGED <<real, skew, timing, work, session>>

StopPlayer ==
  /\ PlayerIdle /\ Begins(<<Do("pause"), Do("close")>>)
  /\ UNCHANGED <<real, skew, timing, work, session, history>>

\* What the items do up to the first that reports something or changes state.json.
Idles(item) == item.op \notin {"deliver", "settle", "close"} /\ Report(timing, item) = <<>>

NextReport ==
  /\ player.up /\ player.todo # <<>> /\ ~Busy("player")
  /\ LET effective == {i \in DOMAIN player.todo : ~Idles(player.todo[i])}
         i == IF effective = {} THEN Len(player.todo) ELSE Min(effective)
         item == player.todo[i]
         rest == [player EXCEPT !.todo = SubSeq(@, i + 1, Len(@)),
                                !.rebase = @ /\ \A j \in 1..i : player.todo[j].op # "rebase_floor"]
     IN CASE item.op = "deliver" ->
               /\ session' = [session EXCEPT !.pending = session.settled + 1]
               /\ player' = rest /\ UNCHANGED work
          [] item.op = "settle" ->
               /\ session' = [settled |-> session.pending, pending |-> NoScope,
                              floor |-> IF Steps[session.pending].up THEN session.floor + 1 ELSE session.floor]
               /\ player' = rest /\ UNCHANGED work
          [] item.op = "close" ->
               /\ player' = [rest EXCEPT !.up = FALSE, !.armed = FALSE] /\ UNCHANGED <<session, work>>
          [] OTHER ->
               /\ IF Idles(item) THEN UNCHANGED work ELSE Enter("player", Report(timing, item))
               /\ player' = rest /\ UNCHANGED session
  /\ UNCHANGED <<real, skew, timing, history>>

\* record_helper_failure: a clock that exists, under its lock, in one transaction.
HelperFails ==
  /\ timing # NoScope /\ ~Busy("helper") /\ MoreTrouble
  /\ \E c \in (Captures \ history.captures) \cup {NoScope} :
       LET stale == [op |-> "stale_capture", capture |-> c]
       IN Enter("helper", IF c = NoScope \/ Refuses(timing, stale) THEN <<Do("failure")>>
                          ELSE <<Do("failure"), stale>>)
  /\ history' = [history EXCEPT !.helped = @ + 1]
  /\ UNCHANGED <<real, skew, timing, player, session>>

HelperDies ==
  /\ Busy("helper")
  /\ work' = [work EXCEPT !["helper"] = NoWork]
  /\ UNCHANGED <<real, skew, timing, player, session, history>>

\* Bound: no time passes within an operation of the adapter, or within a transaction.
Quiet == Unlocked /\ player.todo = <<>>

SecondPasses ==
  /\ Quiet /\ timing # NoScope /\ real < LastTick
  /\ real' = real + 1
  /\ history' = [history EXCEPT !.rest = IF timing.paused THEN @ + 1 ELSE @]
  /\ UNCHANGED <<skew, timing, work, player, session>>

\* Bound: the wall clock is set once.
SetWallClock ==
  /\ Quiet /\ MoreTrouble /\ skew = 0
  /\ skew' \in Jumps
  /\ history' = [history EXCEPT !.jumped = TRUE]
  /\ UNCHANGED <<real, timing, work, player, session>>

InitClock ==
  /\ real = 0 /\ skew = 0 /\ timing = NoScope
  /\ work = [p \in Processes |-> NoWork]
  /\ player = [up |-> FALSE, opened |-> 0, armed |-> FALSE, rebase |-> FALSE, todo |-> <<>>]
  /\ session = [settled |-> 0, pending |-> NoScope, floor |-> 1]
  /\ history = [rest |-> 0, jumped |-> FALSE, misled |-> FALSE, reported |-> {}, captures |-> {},
                meddled |-> NoScope, helped |-> 0]

NextClock ==
  \/ OpenPlayer \/ CrashPlayer \/ ArmPlayer \/ PrepareStep \/ FinalizeStep \/ OperationFails
  \/ PollClock \/ OperatorReports \/ StopPlayer \/ NextReport
  \/ HelperFails \/ HelperDies \/ SecondPasses \/ SetWallClock
  \/ \E p \in Processes : Leave(p)

SpecClock == InitClock /\ [][NextClock]_clockVars

-------------------------------------------------------------------------------

\* Through crashes, restarts, pauses and reports of other processes, the clock
\* accounts for every moment since it began, and for the paused ones apart,
\* unless the wall clock was set between reports of two processes; and it never
\* calls a measurement incomplete otherwise (_advance).
ClocksAreExact ==
  (timing # NoScope /\ ~history.misled) =>
    /\ timing.complete
    /\ timing.active + timing.excluded = timing.mono - timing.startup.born
    /\ timing.excluded = history.rest - (IF timing.paused THEN real - timing.mono ELSE 0)
    /\ \A s \in {timing.move, timing.floor} \ {NoScope} : s.active + s.excluded = timing.mono - s.born

\* When a settled input has led to another floor, the floor's clock is that of
\* the new floor, wherever the adapter died on the way, unless the operator has
\* opened a move of his own (finalize, record_event).
FloorClockFollows ==
  (timing # NoScope /\ session.pending = NoScope /\ player.todo = <<>>
     /\ ~Busy("player") /\ history.meddled # "begin_move")
    => timing.floor = NoScope \/ timing.floor.id = FloorId(session.floor)

\* Whatever two processes report at the same time, and however often a result is
\* finalized again after a crash, a settled input counts once, a move is closed
\* once, and the clock of the floor follows the player (PlayTiming, helper_timing).
ReportsCountOnce ==
  /\ FloorClockFollows
  /\ timing # NoScope =>
       /\ timing.inputs = Cardinality(history.reported)
       /\ timing.moved = Cardinality({k \in history.reported : Steps[k].complete})

===============================================================================
