# A formal model of VEDA

VEDA lets a reviewer play *Slay the Spire* on a PlayStation through a computer:
images of the screen are read, an input is decided on, sent through a Remote Play
session, and its effect is verified on a later image.  One sentence governs the
code: **an input is sent at most once, and what is written down about it is what
happened to it.**  The controller cannot be asked afterwards what it did, replies
get lost, processes are killed, files fail to be saved and several programs write
the same database.  The modules here state what the code does about that, check it
on small instances with TLC, and prove part of it for instances of every size with
TLAPS.

`PROJECT.json` holds the list of components, the runs, the faulty variants that
each property was tried against, the map from definitions to source lines, the
findings, the hazards and the theorems.

## 1. The system

| Part (source) | State it keeps | Operations | Talks to |
|---|---|---|---|
| Reviewed player (`veda/reviewed_play.py`, `scripts/veda_reviewed_play.py`) | `state.json`: one pending action with its status, counters, policy; in memory: armed, poisoned; an exclusive lock on its directory | open, arm, prepare, cancel, send, verify, reconcile, recover, finalize, disarm, stop | the memory (decisions, outcomes), the controller, the request channel |
| Request channel (`veda/adapter_channel.py`, `scripts/veda_submit.py`) | a Unix socket, its backlog | submit, serve | the player |
| Warm bridge (`scripts/warm_bridge.py`, `scripts/bridge_health.py`) | requests by id, a lock, `stopped`, `faulted`, `failed` | dispatch, timeout, cancel, feedback, close | clients by socket, the Remote Play service |
| Bridge client (`veda/bridge_client.py`) | a socket, a lock, closed, the uncertain latch | call, close | the bridge |
| Execution loop (`veda/execution.py`, `execution_adapters.py`, `runtime_frames.py`) | the action journal (JSON lines, fsync), frames, retained images | capture, decide, attempt, send, verify, reconcile | a controller adapter |
| Evidence ledger (`veda/evidence_ledger.py`) | context, epoch, frame, facts by section with coverage, conflicts | observe, advance | the advisory session |
| Advisory session (`veda/advisory_session.py`, `evidence_advisory.py`) | a journal file with the ledger, the pending action, receipts | observe, advise, report an input, new turn, close, resume | reviewer, ledger |
| Private memory (`veda/telemetry_database.py`, `scripts/veda_memory.py`) | SQLite: runs, floors, combats, turns, decisions, checkpoints, events | one command per process | everything that records |
| Play telemetry (`veda/play_telemetry.py`) and checkpoint (`veda/advisory_checkpoint.py`) | rows of the same tables, one receipt per operation id | decision, outcome, resume; pause | the player |
| Menus (`choice_execution`, `menu_*`, `loot*`, `shop*`, `campfire*`, `neow_*`) | focus moves of a shop seen so far, inventory events | choose, plan one input, check the next screen | the player |
| Fights (`combat_input`, `combat_requests`, `combat_flow`, `combat_inspection`, `decision_policy`) | the planned action with its queue, the focus budget of a turn | plan one input, check, promote | the player |
| Map (`map_survey`, `map_brief`, `map_travel`) | the saved survey and route | merge views, rank, plan a move | the player |
| Evidence continuity (`evidence_continuity.py`, in the player) | an epoch with its sequence, context and barrier | arm, bind, invalidate, renew | requests, the player |
| Clocks (`play_timing`, `helper_timing`) | `timing.json`: nested elapsed times, troubles, counts | begin, complete, pause, resume, report | the player, helper scripts; no authority |
| Recognition (`native_ocr`, `vision*`, `*_evidence`, `card_*`, ...) | none | image to partial facts | reviewer |
| Side programs (mailbox, handoff, retrospectives, watchers, references, site) | one file each | append, read | people |

**What is hard.**  (a) Two durable stores, `state.json` and SQLite, with no common
transaction, and a controller call between their writes.  (b) Replies that are lost
while the request is executed.  (c) Coroutines that are cancelled while they hold
a button down.  (d) `fsync`, `os.replace` and directory flushes that fail in the
middle.  (e) Facts that are true of an image and false of the game an input later, and images that hide part of the game.
(f) Commands that read a table, look at the clock, and only then wait for the
database lock.  (g) Rows that are replayed in another order than they were written in.
(h) Plans made on one screen and carried out over several.  The places where this bites most are the `hazards` of `PROJECT.json`,
each with the properties that would catch it; two have none, and a note why.

## 2. Modules

    OneInput  <---refines---  ReviewedPlay  <---proofs---  ReviewedPlay_proofs
                                   |
     AdapterChannel   EvidenceWindow   PlayClock      (around the same session)
           ^                  ^            ^
           |                  +---proofs---+----  PlayTime_proofs
           +---proofs---  SocketClients_proofs
                                   |
                                   |  decisions, outcomes
                                   v
                              RunLedger  ---uses--->  RunTables
                                   ^---proofs---  RunLedger_proofs  ---proofs---+
                              MemoryReplay (what the rows entitle to believe) <---+

    ControllerCall  <---refines---  Bridge = BridgeClient + BridgeDispatcher
         ^                             |         |                  |
         |                             |         |       BridgeDispatcher_proofs
         |                             |    SocketClients_proofs
         |                        Bridge_proofs
         +---------instance of------  ExecutionLoop
                                          ^---proofs---  ExecutionLoop_proofs

    EvidenceLedger  <--- EvidenceHistory (against a reference semantics)
         ^                    ^---proofs---  Advice_proofs  ---proofs--->  MapTravel -> MapSurvey
         +---------------- AdvisorySession  <---proofs---+

    PlayPolicy <- MenuControls <- ChoiceStep <- GameScreens <- ScreenPlay
        ^
        +------- CombatInput <- CombatPlay

Each `MC_x` module holds the bounds and symmetry of runs.  Systems that do not touch
each other share a run: an `MC_` module with a variable `topic` extends several of them,
and a behaviour is one of the system its topic names, while the others stand still.
`MC_Floor` does this for survey, travel, menus and fight, `MC_Processes` for client,
channel, clocks and images, `MC_RunLedger` for the tables and their replay, `MC_Progress` for the
liveness of bridge and player, `MC_AdvisorySession` for ledger and session.

### ReviewedPlay: one durable pending input
`mem[s]` is `self.state`, `disk[s]` is `state.json`, `dec` the status of each
decision in SQLite, `wire` where its command is.  `pc[s]` names the durable write
the running handler has just made, so that a crash between any two of them is the
action `Crash`.  A save either succeeds, fails before it lands, or fails after it
landed (`os.replace` done, flush of the directory failed); both failures poison the
session, which then serves only stop and summary.  Actions by the function they are:

* arming and control: `Open`, `ArmCheck`, `Arm`, `ArmFails`, `Stop`, `Crash`, `Refuse`, `OtherSaveFails`;
* `prepare` / `cancel_prepared`: `Prepare`, `CancelPrepared`;
* `send`: `Send`, `SendProbeFails`, `RecordDecision`, `RecordRefused`, `Barrier`,
  `Call`, `CallRefused`, `ReplyConfirmed`, `ReplyFails`;
* `verify`, `reconcile`, `recover_unsent`, `finalize`: `Verify`,
  `ReconcileNotPerformed`, `ReconcileUnknown`, `RecoverUnsent`, `Finalize`,
  `LogOutcome`, `LogReplayed`, `LogFails`, `Clear`, `Discard`;
* the world: `Execute` and `Drop` of a command under way, `Age` of a retained image,
  `ExternalWrite` by another program.

Time is the number of inputs the game has received; "image of time n" is one that
shows exactly n inputs.  `Probes` are focus probes and looks at the map, for which an
unchanged screen is a result; every other input is verified in strict mode by a
screen that differs, in learning mode perhaps not.  Left out: `execute` (it is
`prepare` then `send`), shadow mode and metadata repair.  What a proposal or a result must
contain is in the modules of the screens, the evidence epoch in `EvidenceWindow`, the
recovery limit in `AdapterChannel`, `_only_intervening_pause` in `RunLedger`.  `OneInput` is the promise without files or crashes: an input is
recorded, handed over at most once and only while it is the recorded one, and settled
before the next is recorded.

### BridgeDispatcher, BridgeClient, Bridge, ControllerCall
In `BridgeDispatcher` a step runs one coroutine to its next `await`: a line arrives
(`at`), is deduplicated by id (`ledger`), waits for the lock, taps, is timed out and
cancelled, unwinds, and is answered.  `input[c]` is how much of a tap reached the
console.  Socket mode only; malformed lines have no effect on the state, and starting
the session precedes everything modelled.  A transport that fails is the
action `TransportFails` followed by the service's exception.  A cancelled tap may send one more feedback before the
cancellation reaches it.  `BridgeClient` is one or more client objects shared by
threads: calls take the lock, connect, send (perhaps part of a line), receive, and
latch after doubt; `close()` takes no lock.  `Bridge` puts both together, with the socket
between them, and implements `ControllerCall`, which is checked and proved: a call ends in `ok` only if the
input was executed, in `not_sent` only if it never will be, and otherwise may
still be executed later.

### ExecutionLoop
`ExecutionLoop` in live mode with its `ActionJournal`: the file as it is
on disk, the rows the process has written and those it can rely on after `fsync`.
The controller is an instance of `ControllerCall`.  A process that dies half way
through a line is an append that raises, then a kill.  `Reconcile` is the operator
who closes an unresolved action by hand; the model lets him do that after
the bridge of the dead process has gone too.  Two loops on one journal are not
modelled: nothing in the code keeps them apart, the launcher starts one.

### EvidenceLedger, EvidenceHistory, AdvisorySession
`EvidenceLedger` has the ledger as a record and its operations as operators: a frame
binds a context, an epoch and an image; sections are merged if consistent, marked as
conflicting if not, and dropped when epoch or context advance.  `hand` stands for
the keyed sections (enemies and statuses merge alike), `ui` for the focus, the inventory is
a set with coverage.  `EvidenceHistory` feeds it every sequence of readings, in any order, and
keeps beside it the set of game states that agree with all of them: what the ledger says is known
must be what that set says.  `AdvisorySession` is the session around it with its
journal: requests with ids, images offered late or twice, inputs the session is told of or not,
a save that fails before or after its rename, kills and resumes.  What the tactical
checks think of a plan is a free choice.

### RunTables, RunLedger
`RunTables` has the tables of one run as a value, and the queries and statements as
operators.  `RunLedger` has processes on it.  A *transaction* (`record_decision`,
`record_outcome`, `record_resume`, the advisory checkpoint) holds SQLite's write lock
from `Begin` to `Commit` or `Rollback` (`BEGIN IMMEDIATE`); its request is accepted
under the lock by the guards of the code: current context, chronology, pending
decisions, unchanged revision, transitions in order.  An operation id that is committed is answered from
its receipt and changes nothing, which is why `Begin` has only new ids.  A *command* of
`veda_memory.py` is `Start` (it reads, and looks at the clock) and a later `Write` (its
statement waits for the lock); two commands write twice, each in a transaction of
its own (`Follow`).  The revision is the content of the tables: the digest is taken
to be injective.  Left out: ages (`MAX_AGE_SECONDS`), the checks of the image file (a
rollback), evidence-only commands other than the ones listed (the same as a row), and a
second run.

### MemoryReplay
Two folds over rows that are only ever added: `Remembered` is `inventory_ledger` (baselines,
complete or partial by category, then events, in the order of stamps, kinds and ids),
`ZoneState` is `combat_zone_state` (an opening baseline, movements, shuffles, and rows that say
"unknown").  Both put the rows in order first (`Sorted`) and then take one after the other (`Folded`, a recursive function).
A report of several changes is said one change after the other, each against what the memory would know after those
before it (`Reported`), as `_mutations` projects it.  The world has the belongings and the piles as they are, and a reviewer who
tells the truth about what is seen.  `Discover` is the command of
`veda_memory.py`, `PlayInput`, `PlayAndInspect` and `CommitResult` the input with its outcome, `PlayByHand` what happens between, `Checkpoint` the pause, `MoveCards` an outcome in a fight.
Two histories that lead to a false memory are known and set apart by name, `Overtaken`
(a discovery between an input and its outcome, stamped later than the result's image)
and `twice` (a checkpoint on an outcome's own image); section 6 lists them as observations.

### EvidenceWindow
The clock, the screen and who changes it; `wrapped` are the packaged requests, `doing` is the
pending input, `latest` the time of the newest evidence in the memory.  A binding names an epoch; the epoch carries a sequence, a
context and a barrier.  `ArmFrom`, `ReportChange` (`invalidate_evidence`), `Dispatch` and
`SettleWith` move it (with an image that shows the input: the code asks that it be later than `attempted_at`, which is
stamped before the call, and leaves the rest to the reviewer), `Disarm` and `Reopen` end it, `OtherHand` changes the screen without telling.
`told` and `own` are history: the changes the player was told of, and those of its own inputs.

### AdapterChannel
One serial server with two sources, its terminal and the socket's backlog; commands
(`veda_submit`) connect, wait, give up, and when a preflight finds an open input try to
settle it from a retained packet.  The reviewed player behind it is cut down to what
its answers tell: `Handled` is `_handle`, request by request, and gives the effects each may have
(`Prepared`, `Sent`, `Executed`, `Finalized`, `Withdrawn`, refusals, a transport that is lost).  `prepare` and
`send` are requests of their own, and of different commands: an input may be left prepared, by
`prepare`, by an `execute` that was refused, or by a crash, and a later `send` finds it by its name.
`CutShort` adds what is in the files when the process dies within a request.  `past` is history: what
reached the console, on whose request, which packets were used.
Left out are `timing`, `resume`, `invalidate_evidence` and `repair_outcome_metadata`, which
change nothing that an answer here tells of, and saves that fail, which are in `ReviewedPlay`.
At the terminal the model arms, asks for a summary and executes once; `prepare`, `send` and the rest come by the socket.

### PlayClock
`timing.json` as a record of scopes with elapsed and paused time, moved by `_advance` from
one report to the next.  A process has a monotonic clock of its own; the wall clock may be
set back (`Jumps`).  A transaction takes the file lock and reads the file (`Enter`), and later replaces the file and
gives the lock back (`Leave`); a process may die before either.
The reporting handler of the reviewed player (`finalize`) is modelled report by report.

### MenuControls, ChoiceStep, GameScreens, ScreenPlay
`MenuControls` are the menus and their controls, `ChoiceStep` the two functions the reviewed
player uses: `PlanSteps`, the taps that may be sent for a choice on a reviewed screen, and
`Verdicts`, what may be said of the screen after it; both empty where the code refuses.
`GameScreens` is the game (external): what a button does on each screen of a floor with Neow,
a shop whose focus moves in one of three ways, a campfire, rewards and a chest.  `ScreenPlay`
is the composition: `Decide` by the routine planners or the strategist, `Press`, perhaps lost,
and `Review` by a reviewer who writes down what the settled game shows.

### CombatInput, CombatPlay
The same for fights: `Inputs` and `CombatVerdicts` over readings in which a keyword box may
hide cards, then a fight of several turns with enemies to aim at, an upgrade picker and a card
that puts another back, a queue of planned continuations, and commands that are lost or cut short.

### MapSurvey, MapTravel
`Survey(views)` merges cropped views with confidences; `RouteFacts` says of each route what is
forced, possible or unknown (`_walk`, `_exists`); `Ranked` is `plan_routes`.  In `MapTravel`
`PlanMap` is the whole of `plan_map` with its cache, the world moves from room to room, spends
and gains, and the map screen is opened again.


## 3. Runs

All runs pass unless marked V: those end with a counterexample, on purpose.  Each takes less than three minutes.

| Run | Distinct states | Question |
|---|---|---|
| `play_strict` | 101 K | Two sessions, two inputs, strict policy, two faults, another program writing: the barrier is durable, nothing is repeated, one input is in doubt at most and planned on a current image, the ledger is truthful and counts once. |
| `play_policies` | 430 K | The same under both policies, with the inductive invariant, the refinement of `OneInput`, and `state.json` never forgetting. |
| `progress` | 186 K | Three lines over two ids at the bridge: answers final and true, nothing sent behind a timeout, every call answered and the session ended.  And a player with faults and restarts: a verified result is settled in the end. |
| `play_late_review` V | | The documented promise that `finalize` settles a verified result, without condition: refuted (section 6). |
| `bridge_idle_client` V | | The session ends, with a client that stays connected and a Python whose `wait_closed` waits: refuted (section 6). |
| `bridge_promise` | 318 K | Client and dispatcher together implement `ControllerCall`, and no input follows one in doubt. |
| `processes` | 3.4 M | Three threads on one client object with `close()` beside them; two submitted commands and the terminal at one server; the clocks over restarts and a wall clock set back; requests bound to epochs of evidence while the game is also played by hand. |
| `loop_safety` | 467 K | Two inputs, two faults, restarts: logged before sent, closed truthfully; a run ends. |
| `advisory_session` | 1 432 K | Every order of readings of two frames: the ledger says what they say.  And a session of six requests with one fault: current facts are true, it resumes, advice is sound. |
| `run_ledger` | 251 K | Two processes, four transactions, one command, three clock values: effects once, facts in order, outcomes on the ledger they were decided on.  And the replay of belongings and of the piles of a fight. |
| `floor` | 404 K | Survey and travel of a map, the menus of a floor, a fight of two turns. |
| `screens_lost_map` V | | A lost map activation is never called a success: refuted (section 6). |

**Why the bounds are enough.**  Two sessions are the least for one to record between the
check and the use of another; with two inputs there is one to settle and one that comes
too early or is confused with it; two faults allow one during recovery from
the other.  Three lines at a dispatcher are a tap, a second use of its id and one that waits behind
it; at most one of them is not a good tap, as kinds other than taps do not
interact with each other.  A client needs three calls to have one in doubt, one
waiting and one later.  Two commands and two typed lines at the adapter are a request given
up on, one behind it, and an inspection from either side.  Two settled inputs of which the second
leads to another floor make every boundary of the clocks, with two processes of the player.
Three hours and two changes are an image taken, overtaken and used too late; two epochs one
that is replaced.  Two frames and two keys make every pair of readings that can
agree, extend, contradict or supersede; conflicts are pairwise.  Five requests suffice
for observe, advise, input, observe again and a repetition.  In the run ledger
three clock values give an older, an equal and a newer stamp, two rows per table a current
and a former one, and one command the interference of a write from outside; in the replay
three images give a baseline, an event and a second baseline in each order, and three cards
a pile that is emptied and shuffled back.  A map with two forks and a forced move between them
has a route that is followed, kept and reconsidered; two views hide and overlap.  A floor
visits every menu once; one lost press is enough to come behind any other.  Two turns
have a boundary, and three cards a card to the left and right of the focus.
Every bound is a CONSTANT of its module (`MaxFaults`, `MaxRequests`, `MaxTime`, ...) or an
operator of its `MC_` module (`Bound`, `MostlyTaps`, `Waning`).

`CHECK_DEADLOCK FALSE` is set everywhere: each of these systems may really stop,
with its session closed, its inputs all used, its floor done or its process dead.

**Faulty variants.**  Next to the definitions stand operators marked "Faulty
variant", each the definition with one plausible mistake: a guard dropped, a save
omitted, a lock taken late, a stamp compared the wrong way.  Nothing uses them.  Put in the place of their original,
each one makes the property it is listed with in `PROJECT.json` fail under the same configuration.

**Fairness.**  `progress`, of the bridge: coroutines that can run do, timers go off, `close()` of the
service returns (the code wraps it in a timeout); nothing is assumed of clients, service or
transport; and `wait_closed` is that of a Python before 3.12.  Of the player: a handler that has been entered runs on, a session that is down or
poisoned is opened again, and `finalize`, which every reply advertises as the next operation, is
asked for again and again, even if other requests intervene (hence strong fairness); nothing is
assumed of the controller or of the game.
`loop_safety`: the process takes its steps while it lives; every wait in it is bounded.

## 4. Properties

* **The player.**  `DurableBarrier`: when the controller is about to be called, SQLite
  waits for this input and `state.json` says attempted.  `InputNeverRepeated`;
  `OneInputInDoubt` (at most one, and the plan's image shows all others);
  `LedgerTruthful` (resolved means delivered, skipped means never, and `completed` counts each settled input once);
  `NoOrphanDecision`, `PendingNeverForgotten`, `VerifiedEventuallySettled`,
  `KeepsPromise`, and `IInv`, the inductive invariant, of which types,
  `SkippedNeverDelivered` and `ServedFromDisk` (a session that serves has in memory what is on disk) are parts or consequences.
* **Images.**  `EvidenceHolds`: an input is dispatched on an image that still shows the
  screen, unless the change was one nobody reported, or the image is unbound and young;
  and a new image can always be bound.
* **The bridge.**  `AnswersAreTrue` of the dispatcher (each id executed once, not-sent is final,
  ok means executed); `NoInputAfterUnknown`, `EveryCallEnds`.  Of the client `CallsAreTrue`
  (not-sent is true, confirmed by the server, no socket leaks) and `NothingAfterDoubt`
  (nor after close); of both `KeepsCallPromise`, `NoInputBehindDoubt`.
* **The channel.**  `ReportsAreTrue` (what a command printed stays true whatever is handled later: after "not sent"
  nothing is ever sent on its request, and neither its own input nor the one it tells of is ever sent, except
  an input it tells of as prepared, for which `must_not_repeat` is false and which a later `send` may send;
  automatic recovery is bounded), `InspectionIsConclusive` (after a lost reply, an answered inspection
  leaves no request of it waiting).
* **The loop.**  `LoggedBeforeInput` (on a fresh frame, and rows once closed stay closed), `RowsAreTrue`
  (one in flight, verified and not-sent are true, with evidence), `RunEnds`.  Staying closed is said
  of rows the process itself closed: after a flush that failed, the file may close an
  action as verified and then say `unknown_outcome`; the reader of the journal takes the last.
* **Evidence.**  `KnownIsExact` (hand, stock and focus, against the set of game states that agree
  with all readings); of the session `CurrentFactsAreTrue`, `AlwaysResumable`, `AdviceIsSound`
  (receipts exact, advice after outcome, on record, outcome seen).
* **The memory.**  `FactsInOrder` (and each effect once), `OutcomeOnSameLedger` (not across a resume,
  with a current receipt), `MemoryIsTrue` (belongings and piles).
* **The clocks.**  `ClocksAreExact` (every moment accounted for once, pauses apart),
  `ReportsCountOnce` (and the floor's clock follows the player).
* **Menus.**  `VerdictIsTrue` (the game takes only the option decided on; judged complete when,
  and only when, it did), `WalkIsShort`, `RecordedIsOwned`, `CanBeSettled`.
* **Fights.**  `PlayedAsPlanned`, `SearchIsBounded`, `CombatSettles`.
* **Map.**  `FactsAreTrue` (definite facts hold of the real map, whatever the views hide and in
  whatever order they come), `RouteStillJustified`.

The type invariant of each module is a conjunct of one of these.

## 5. Proofs

Eight modules hold theorems; TLAPS checks every leaf.

### ReviewedPlay_proofs
They hold for any number of sessions, inputs and faults, under either policy, from the one
assumption `ConstantsAssumption` (actions are finitely many, `None` is neither an action nor a session, policies are the two).

| Theorem | States |
|---|---|
| `TypeCorrect` | `Spec => []TypeOK` |
| `Invariant` | `Spec => []IInv` |
| `BarrierIsDurable` | `Spec => []DurableBarrier` |
| `NeverRepeated` | `Spec => []InputNeverRepeated` |
| `SkipIsTruthful` | `Spec => []SkippedNeverDelivered` |
| `NothingOrphaned` | `Spec => []NoOrphanDecision` |
| `MemoryIsDurable` | `Spec => []ServedFromDisk` |
| `NeverForgotten` | `Spec => PendingNeverForgotten` |
| `Implements` | `Spec => KeepsPromise`: ReviewedPlay implements OneInput |

None of the safety properties is inductive.  That an input is not repeated depends
on what the *disk* says, since a restart takes over from there; what the disk says can be
relied on only because a session whose save failed serves nothing further; and that a
handler finds its input where it left it depends on who else might have written.
`IInv` puts these together:

* `Files`: what memory and disk say of a pending input, each by itself, is possible: it belongs to this
  session; while "prepared", nothing is recorded; once handed over, it says
  attempted or later; a retained proof that nothing was sent is true.
* `InSync`: only a poisoned session differs from its file, and it runs no handler.
* `Handlers`: what each handler relies on at the point it has reached.
* `SkippedNeverDelivered`, `NoOrphanDecision`.

The proof that a step preserves `Safe` has one lemma per kind of step: of one session on its own
file (`SessionStep`, `QuietStep`, `NamedStep`, ...) with `OthersFramed` for all others, then one
step per action.  The refinement proof maps each action to its step of `OneInput` or to a stutter; only
`RecordDecision` needs more than the invariant: that no other decision is open is the
guard the code evaluates in the same transaction.

### ReviewedPlay_proofs, second part: the strict policy
`OneInputInDoubt` and `LedgerTruthful` are promises of the strict policy: the learning policy may
settle an input without seeing its effect, and a probe proves nothing by an unchanged screen.  They are proved from
`Strict == Policies = {"strict"} /\ Probes = {}`, which each theorem states, for any number of sessions, inputs and
faults.

| Theorem | States |
|---|---|
| `StrictInvariant` | `Strict => (Spec => []StrictInv)` |
| `OneAtATime` | `Strict => (Spec => []OneInputInDoubt)` |
| `LedgerTells` | `Strict => (Spec => []LedgerTruthful)` |

`IInv` says what a file may claim; `StrictInv` adds where inputs stand in time.  `OneWaits`: one decision
waits at most, and what the game received is settled as such or is that one.  `PastIsKnown`: the ledger's
newest evidence is later than every settled input, hence an image that the ledger accepts shows them all
(`PlannedLast`).  `Evidenced`: a retained result, in memory or on disk, rests on an image that shows its input; this
is where the strict policy is needed.  `Counted`: `completed` of the file
is the number of settled inputs of the session other than the one it still holds, so that retries of the logging, before
or after a crash, count it once.

### PlayTime_proofs: images
For any number of turns, any age and any bounds, from `WindowAssumption` (the bounds are
naturals and `NoEpoch` is none of the values it stands beside):

| Theorem | States |
|---|---|
| `WindowInvariant` | `SpecEvidence => []WindowInv` |
| `EvidenceAlwaysHolds` | `SpecEvidence => EvidenceHolds` |

Two barriers do different work.  `BoundImagesTold`: the epoch's barrier moves to the present with each
reported change and each input, so that an image that can still be bound shows them.
`NewImagesOwn`: the memory refuses a decision older than its newest evidence, so that an
unbound image, too, shows every settled input.  The second is suspended while an answered input waits for its
result, and restored because the result is judged on an image taken after the call.
`ImagesInOrder` (later images show more) ties both to time.

### PlayTime_proofs: clocks
For any list of settled inputs, any limits and whatever the wall clock is set by, from `ClockAssumption` (`NoScope` is none of the
values it stands beside, the limits are naturals but zero, only a completed input leads to another floor, jumps are integers); adapters and helpers die
at any point of a transaction.

| Theorem | States |
|---|---|
| `ClockInvariant` | `SpecClock => []ClockInv` |
| `ClocksStayExact` | `SpecClock => []ClocksAreExact` |
| `CountedOnce` | `SpecClock => []ReportsCountOnce` |

That the times add up needs little more than itself (`Exact`): `ClockExact` adds that the wall clock, unless it was set since the
last report, is as far off now as it was then, because the next process has nothing else to measure by.
That each input counts once needs the whole protocol of the reporting handler.  `timing.json` remembers the inputs it counted only
up to `MAX_HISTORY`; what saves it is that the input which waits is reported before it is settled and is still among the remembered
when the handler is repeated after a crash (`Counted`).  `Agenda` says in which order the remaining
reports come and which input they are about, `ReportUnderWay` the same of the one that is being written, `MoveClosed` that the move
of a completed input is closed before its floor is, and `FloorKnown` that the clock's floor is the player's or the one the waiting input
leads to.  One lemma per report (`OneEvent`, from `After1Keeps`) says what it leaves; `AdvanceExact` is the arithmetic.  `ClockInv` was checked by TLC before it was proved.

### SocketClients_proofs: the bridge client
For any calls, threads and client objects, from `ClientAssumption` (`NoCall` is no call, and there are calls and
objects); `SpecClient` is the client with an arbitrary server.

| Theorem | States |
|---|---|
| `ClientInvariant` | `SpecClient => []ClientInv` |
| `CallsAlwaysTrue` | `SpecClient => []CallsAreTrue` |
| `SilentAfterDoubt` | `SpecClient => NothingAfterDoubt` |

`close()` takes no lock, so that nothing can be said of a closed object by itself.  `LockHeld` says who is
inside; `DoubtLasts`, that once an outcome is in doubt nobody is past the check that
would stop him; `ClosedIsEmpty`, that a closed object has a connection only while the call that has just made it is
at its second check.  Without that second check the last would fail, and a line could follow a close.

### BridgeDispatcher_proofs
For any number of lines, ids and repetitions, from `DispatcherAssumption` (lines and ids are finitely many, the
ledger holds one id at least).  `SpecServer` is the dispatcher without fairness, and its clients send what they like.

| Theorem | States |
|---|---|
| `DispatcherInvariant` | `SpecServer => []DispatcherInv` |
| `AnswersAlwaysTrue` | `SpecServer => []AnswersAreTrue` |
| `SilentAfterUnknown` | `SpecServer => NoInputAfterUnknown` |

"not_sent" is given at the admission, when the time in the queue is over, once the lock is taken and when the clients
are cancelled.  That it is final rests on something different in each (`RefusalsLast`): if the id has an owner, this has been
answered without a task, and no repetition becomes an owner; if it has none, the session has ended or the
ledger is full, and both stay so, since `_requests` forgets nothing.  `IdsOwned` makes the input of an id
that of its owner.  `DoubtStops` is why nothing begins after a doubtful outcome: the lock is released while the
cancelled task still unwinds, and it is the flag `stopped`, read again after the lock is taken, that keeps the next
one out.

### Bridge_proofs
For any number of calls and client objects and any choice of those that are taps, from `BridgeAssumption` (as the
assumptions of the parts; `None` is no call).

| Theorem | States |
|---|---|
| `BridgeInvariant` | `Spec => []BridgeInv` |
| `BridgeKeepsPromise` | `Spec => KeepsCallPromise`: Bridge implements ControllerCall |
| `SilentBehindDoubt` | `Spec => NoInputBehindDoubt` |

`ClientSide` says what a call knows of its line, `ServerSide` what the dispatcher does with it, and `Joined` holds
the two together: the dispatcher has only lines that were sent whole, with the content they were sent with, and what the
client can read is what it answered.  The refinement maps the first byte of a line to `Submit`, the first button to
`Execute` and whatever ends the call to `Return`; every other step is a stutter.  The cases that need the invariant are
`Execute`, which must not follow a "not_sent" that the client has already returned (`BegunIsTap`), and the two certain
answers of `Return` (`ConfirmedExecuted`, `UnsentNotBegun`).  `Bridge` instantiates the parts, whose
theorems speak of their own variables with an arbitrary other side; so the proof has an invariant of its own, which is shorter
than theirs because every call has an id of its own.

### ExecutionLoop_proofs
For any actions, budget and number of disk failures, from `LoopAssumption` (finitely many actions, `NoAction` none
of them, bounds are naturals); kills, restarts and the operator are part of `Spec`.

| Theorem | States |
|---|---|
| `LoopInvariant` | `Spec => []LoopInv` |
| `RowsAlwaysTrue` | `Spec => []RowsAreTrue` |
| `AlwaysLogged` | `Spec => LoggedBeforeInput` |

`SameRows`: until one of its writes fails a process has in memory what is on disk, and `OneOpen`: only the action
under way is open there.  So a process that has found no open row can rely on all others being closed, and
`WiresKnown` (what is on its way is open) makes its own input the only one; this carries over a restart because it
speaks of the file.  `FrameCurrent`: no input is made between the frame of a decision and its input.
`Directories` and `Backed` say what was flushed, and retained, by when.

### SocketClients_proofs: the request channel
For any number of commands, adapter processes, typed lines and result packets and any backlog, from `ChannelAssumption` (commands are finitely
many, none of them is the terminal, `Nil` is no value it stands beside); crashes of the adapter are part of `SpecChannel`.

| Theorem | States |
|---|---|
| `ChannelInvariant` | `SpecChannel => []ChannelInv` |
| `InspectionAlwaysConclusive` | `SpecChannel => []InspectionIsConclusive` |
| `ReportsAlwaysTrue` | `SpecChannel => []ReportsAreTrue` |

A command that gives up leaves its request behind, and nothing the adapter stores says so.  `OneMessage` therefore follows each request from the
backlog to its service: no command has two, and the one that is there asks what its command asks unless the command has given up.
That "not sent" is final has two grounds.  The request is past (`Over`), so that nothing more is sent on it; and of the input, `Unsendable` says that
in `state.json` it is not, or no longer, prepared, and once it is not it never is again (`Comes`).  What is reported as prepared is the one exception,
and `StateTrue` says why there is no other: an input in `state.json` was sent if its reply was ok, and was not if
it is prepared, about to be dispatched, or answered with "not_sent".
`InspectionsBehind` compares the order of the backlog with what each inspection was to find out; a line typed at the terminal is conclusive only
because `timed_requests` looks at the socket first, which the proof uses in `ReadTerminal`.  `CommandsFresh` and `ConsoleFresh`: nothing has the name of
an input whose request was not handled yet, so that a "not_sent" which is given before the service is final.
`AsksRightly` says that a command which has begun to recover submits a packet of the same input, and finalizes it only when that packet was accepted;
`ReportTrue` is the report itself, with what is known of `state.json` it makes `Told`.  `Counted` pays for every submission in advance: the commands about to submit a result
for an input and those that have are together no more than the tries of that input in `state.json`, whatever two commands read before either wrote.

The requests are handled by operators that return sets of effects.  `HandledHolds` and `CutShortMoves` say once what every effect of every request
does to the pending input (it stays, is tried, opened, sent, settled or withdrawn: `Moves`) and what its answer says of it, `Outcome` what
follows for all the inputs, `ReceivedHolds` what a command makes of any such answer, and
`NewestFound` that the packet found was written for the input; each step then uses only these.  `ChannelInv` was checked by TLC on an instance of
two commands before it was proved.

Where a definition was a CASE whose guards overlap, TLC takes the first that holds, while a proof may not.  The attempt to prove `ReceivedHolds` found
one, which is now an IF as in the code, and so are those of `CombatPlay`, `ChoiceStep`, `CombatInput` and `PlayClock` that had the same form.

### Advice_proofs: evidence and the advisory session
For any frames, keys, values, items, times and epochs (`HistoryAssumption`: there is a value, and `None` is no value of any kind) and any number of
requests, images, inputs, turns and faults (`SessionAssumption`: the bounds are naturals, `None` is none of the values it stands beside).

| Theorem | States |
|---|---|
| `HistoryInvariant` | `HistorySpec => []HistoryInv` |
| `KnownStaysExact` | `HistorySpec => []KnownIsExact` |
| `SessionInvariant` | `Spec => []SessionInv` |
| `FactsStayTrue` | `Spec => []CurrentFactsAreTrue` |
| `SessionResumes` | `Spec => []AlwaysResumable` |
| `AdviceStaysSound` | `Spec => []AdviceIsSound` |

`HistoryInv` gives of each section the set of game states it stands for: a hand that is completely known is one, one that
is not stands for all that extend it, a conflict for none, a section without data for all.  The lemmas `HandsJoin`, `HandsClash`, `FocusTaken` and
`StockTaken` show that what the ledger does with one more reading is the intersection, and that it sees a conflict exactly when that is empty.
`FocusInHand` is what the focus needs of the hand: a focus that contradicts a completely known hand is refused.

`FileInv` holds of the journal and of the memory each by itself, since a restart takes over from the file.  Its core is
`ActionBefore`: an image of the present epoch was captured after the action that was last reported, which is what
makes an outcome an outcome of that action, and `Receipted`: what was answered took effect once.  `InStep` says
how the two may differ, after a failed save.  What may be believed is stated for a session that is `Trusted`: it is up, no save of it has failed, and it is not waiting for the reconciliation that a resume demands.
`Followed` says how the input that was made, and is not reported yet, relates to the advice on file, and `HandCurrent` and `StockCurrent` that facts
are those of the game once it was told of all inputs; the inventory even then if what was followed is a card.

### Advice_proofs: the route on the map
For any maps, views, purses, belongings and conditions of reconsidering, from `SurveyAssumption` (rooms are finitely many, the edges of a map
join its rooms, rows rise), `TravelAssumption` (what a view is sure of is on the map, thresholds are positive) and `RouteAssumption` (`Unseen`
is no route).  `SpecTravel` is the travel through one act.

| Theorem | States |
|---|---|
| `TravelInvariant` | `SpecTravel => []TravelInv` |
| `RouteStaysJustified` | `SpecTravel => []RouteStillJustified` |

`RouteFollowed` says that the route in the cache is the one of the last choice, with the same baseline, however often it was moved along; it began
at a door of the screen and went on along edges of the survey of that day.  That a missing door hung on a doubtful edge (`MissingDoor`) then needs that a
survey is sure of no edge that none of its views was sure of (`SurveySure`): an induction over the list of views, done by
the least counterexample (`Upwards`, `OneByOne`), since `MergedSurvey` is a recursive function.  That the same screen is planned the same again has
two cases, `ForcedAgain` and `ForkAgain`; the second needs that the path has no room twice, which `_decision` checks.

### RunLedger_proofs
Two parts, of `RunLedger` and of `MemoryReplay`.  The first holds for any processes, operation ids, rows and commands, and any lists of transitions, from `LedgerAssumption` (`None` is no process,
the bounds are naturals); commands write while decisions wait, and any transaction may be rolled back.

| Theorem | States |
|---|---|
| `LedgerInvariant` | `Spec => []LedgerInv` |
| `FactsStayInOrder` | `Spec => []FactsInOrder` |
| `OutcomesOnSameLedger` | `Spec => OutcomeOnSameLedger` |
| `MemoryStaysTrue` | `SpecMemory => []MemoryIsTrue` |

An outcome is compared with the *content* of the tables, not with a version number, so the proof has to exclude that content
comes back.  `Upto` orders revisions: floors, combats and turns only grow, what is open may close, a decision that is rewritten has a greater
edit count.  It is reflexive, transitive and antisymmetric (`UptoItself`, `UptoFurther`, `UptoBothWays`), so
that a revision that was left is not met again (`NeverBack`).  `Known` says that the one waiting decision remembers a revision of before, not the
present one once a command wrote, and that between its making and what it remembers only pauses came; `Commanded` is what
one statement of a command does to this, in one lemma per statement.
`Locked` says that what `Begin` has accepted is still acceptable when `Commit` writes it, because nobody writes while the lock is held; the clock
moves on, which the code's transitions use, so that `TransitionsAlike` is needed: neither the time nor rows added
meanwhile decide whether transitions are allowed.  `TransitionsHold` says that each transition leads to a context that is current
again.  Both are inductions over a list; they are done by the least counterexample (`Least`, `Upwards`, `Steps`) since the
library's induction theorem cannot be used.  `Connected` keeps the numbers of a combat's turns apart; without it the latest turn
would not be one.  An earlier form of the invariant, of the same parts, was checked by TLC before the proof.

`MemoryStaysTrue` holds for any items, copies, lists of changes, decks, movements and rows.  It rests on `MemoryAssumption` (the categories are the
three of the code; what is looked at, may change or may move has the form of a level, a change or a movement; the bounds are
naturals) and on `LackingAssumption` (the mark for "nothing waits" is neither a result nor a hand).  It is a statement about folds over all rows, and is
brought into reach in three steps.
* *The order.*  Both folds sort first.  The invariant says that the rows were added in the order in which they will be
  replayed (`InTime`, `InIdOrder`), and putting in order what is in order changes nothing (`TimelineIs`, `ZoneStateIs`).
  This is where stamps matter: a new row has the time of the newest image or a later one, and a baseline of the time of an event,
  which would go before it, is what `twice` excepts; rows of one outcome have ids that ascend, which `IdOfItsOwn` breaks.
* *One step.*  A fold is unrolled into the course of its values (`Iterates`), so that it can be compared with the course of
  the game next to it by the least place where they part (`Alongside`, `InTurn`, `InGame`, `InReport`, `InView`, `InFight`).  Each step
  keeps the two in agreement: a change made by hand that the memory may not know of (`HandKeeps`), a change that is reported against the running
  knowledge (`ToldKeeps`, with `ReportKeeps` for all of them), a reviewed baseline (`ObservedKeeps`), a movement (`RowsFollow`).
* *The result that waits.*  `StockInv` says of the rows alone that they are true of what the player had before the input, and of the
  rows with those of the waiting result that they are true of what the player has now; once another writer was there
  nothing is said any more, and the result is never committed.  `ZonesInv` says that the replayed
  zones are the piles as long as every movement was told.

The proof showed an error of an earlier form of the model: what was reported of several changes was compared with what the
memory knew before the first of them, so that something acquired and used up in one result was reported as acquired only.

**Only model-checked.**
* Liveness (`EveryCallEnds`, `RunEnds`, `VerifiedEventuallySettled`): fairness and ENABLED are outside what the prover does.
* `FactsAreTrue`: walks and recursive functions over the survey of a map, in every order of its views; this is induction over data
  in which each view is about a part of the same graph, and not, as in `MemoryStaysTrue`, one step of a course next to another.
* `PlayedAsPlanned`, `SearchIsBounded`, `CombatSettles` and `VerdictIsTrue`, `WalkIsShort`, `RecordedIsOwned`, `CanBeSettled`: fights and menus are
  finite tables of screens and buttons that are composed with a game of fixed rules, so that the instance TLC checks is
  most of what there is; parts of them (`After`, the expected state of a fight) are recursive.

## 6. Findings

* `play_late_review`: `docs/veda-action-evidence.md` promises that a verified result waiting for
  durable logging is finalized.  A review that ends in "unknown" and is recorded, followed by a verification on an
  image taken *before* that review, passes `verify` (which compares the image with the
  attempt only, `reviewed_play.py:1074`) and is refused by the ledger ever after.
  The run gives the sequence.  `VerifiedEventuallySettled` states the condition
  under which the promise does hold.
* `bridge_idle_client`: `_run` awaits `socket_server.wait_closed()` (`warm_bridge.py:397`)
  while its handlers wait for the next line of clients that stay connected.  From Python 3.12 on this
  waits for the connections: one idle client, without an idle timeout, keeps the bridge from
  ending, although it was told to close.
* `screens_lost_map`: a press on the map that is lost leaves the same map, which the learning
  policy settles with `choice_complete` (`reviewed_play.py:362`); the comment at
  `reviewed_play.py:1088` says a no-op never claims success.

**Observations**, met while modelling and kept in the models as the code has them; no
document promises otherwise:

* *Player and screens.*  Under the strict policy the entry of an elite's or boss's room can never be
  settled.  After a card offer is skipped, the routine loot planner opens it again.  The debit of a
  card removal is predicted at its opening though it is paid at the removal.  End Turn with an open
  upgrade picker presses the button that confirms the upgrade (`combat_input.py:149` comes before the
  picker is looked at).  A focus probe that was proven unsent keeps its row in the focus
  budget.  `UpgradeConfirmed` is satisfied by any upgraded card in the hand.  A new turn can only be verified
  when the focus lands in the hand or nowhere.  A comment at `reviewed_play.py:222` speaks of an
  inventory change at a loot handoff, which the code requires to be none.
* *Evidence.*  An unbound image is not affected by a reported change while it is young enough.  A change
  nobody reports is invisible to a bound image of any age.  A change reported before a restart is
  forgotten when arming rests on an older image.  After an unreported change of context, bindings are
  refused until an unbound input or a new arming.
* *Memory.*  Zones once unknown stay so for the fight.  A checkpoint's baseline taken on the image of an outcome
  is replayed before that outcome's events, which then count twice.  A discovery between an
  input and its commit mixes old and new belongings.  An outcome refused because another program wrote
  to the ledger stays pending for good.
* *Channel.*  A preflight with an input pending spends the recovery limit.  A newer packet that does not
  fit hides an older one that does.  The report of a recovered input repeats the `armed` of before.
* *Clocks.*  No pause is recorded at a crash, so downtime counts as active.  A wall clock set forward
  between two processes cannot be told from waiting.
* *Map.*  Views given with a forced move are not kept.  Edges of any confidence make a route, and a wrong
  reading of low confidence can block a later complete view.

## 7. Plan

Done: `ReviewedPlay` with `OneInput`, `EvidenceWindow`, the bridge (client, dispatcher and both together) and the
execution loop, evidence and advisory session, the run ledger, the request channel and the clocks, with their proofs; the cached route of the map with its proof; the replay of
the ledger, the survey of the map, menus and fights.

What is left, in order of use: shadow mode and the repair of outcome metadata; the
refinement of the decision and outcome steps of `ReviewedPlay` by `RunLedger`; the routine combat planner and potions.

## 8. Not modelled, and why

Recognition of images is arithmetic on pixels, and launchers, site and
side programs are input and output: no finite instance says anything about them.
Authorisation and readiness are conjunctions over documents that are read once.
Ages and freshness limits are left to the environment (`Age`, refusals) except where an order of times
is the point (`EvidenceWindow`, `RunLedger`, `PlayClock`).  Digests are injective.
Texts, labels and wording are left out, and menus that take several picks are not among the screens.
Two loops on one journal are not modelled: the launcher starts one.
An image that is captured while the controller is still being called, and reviewed as the result of the input, is not modelled:
`verify` compares its time with `attempted_at` only, and that it shows the input is the reviewer's word.
The notes of `components` and `hazards` in `PROJECT.json` give the reason for each part.
