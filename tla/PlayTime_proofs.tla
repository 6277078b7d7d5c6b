--------------------------- MODULE PlayTime_proofs ----------------------------
(***************************************************************************)
(* Proofs about what time means to the reviewed player: the images that    *)
(* grow too old for an input (EvidenceWindow), for any turns, ages and     *)
(* bounds; and the play clock (PlayClock), for any inputs to come, any     *)
(* number of restarts and faults, and any time the wall clock is set to.   *)
(***************************************************************************)
EXTENDS EvidenceWindow, PlayClock, FiniteSetTheorems, TLAPS

(* Images and epochs (EvidenceWindow) *)

Typed ==
  /\ hour \in Nat /\ changes \in Nat /\ turn \in Turns
  /\ shots \subseteq Shots
  /\ epoch \in EpochRecords \cup {NoEpoch} /\ epochs \in Nat
  /\ wrapped \subseteq Requests
  /\ doing \in [status : {"none", "prepared", "attempted", "answered"},
                request : Requests \cup {NoEpoch}, at : Nat]
  /\ ready \in BOOLEAN
  /\ latest \in Nat /\ told \in Nat /\ own \in Nat

\* Later images show at least what earlier ones show, and none shows the future.
ImagesInOrder ==
  /\ \A s \in shots : s.at <= hour /\ s.shows <= changes
  /\ \A s, t \in shots : s.at <= t.at => s.shows <= t.shows
  /\ own <= changes /\ told <= changes
  /\ epoch # NoEpoch => epoch.since <= hour

\* What is pending was packaged, from a saved image.
PendingIsPackaged ==
  /\ \A r \in wrapped : r.shot \in shots
  /\ doing.status # "none" => doing.request \in wrapped

\* An image that can be bound shows every change that was reported; one that
\* the memory does not refuse shows every input that was answered.
BoundImagesTold ==
  epoch # NoEpoch =>
    \A s \in shots : s.at >= epoch.since /\ (epoch.seq > 0 => s.at # epoch.since) => s.shows >= told
NewImagesOwn ==
  doing.status # "answered" => \A s \in shots : s.at >= latest => s.shows >= own

\* An armed player has an epoch, of the present turn unless a result is awaited.
EpochIsCurrent ==
  /\ ready => epoch # NoEpoch /\ epoch.active
  /\ epoch # NoEpoch /\ doing.status # "answered" => epoch.context \in {NoEpoch, turn}

WindowInv ==
  Typed /\ ImagesInOrder /\ PendingIsPackaged /\ BoundImagesTold /\ NewImagesOwn /\ EpochIsCurrent
-------------------------------------------------------------------------------

\* What the changes of an epoch leave of its fields.
LEMMA NextSeq == ASSUME NEW e \in EpochRecords PROVE e.seq + 1 \in Nat /\ e.seq + 1 > 0
  BY DEF EpochRecords

\* What a moved-on epoch keeps, and from when it counts.
LEMMA MovedOnEpoch ==
  ASSUME Typed, epoch # NoEpoch
  PROVE  LET f == MovedOn(epoch)
         IN f \in EpochRecords /\ f.active = epoch.active /\ f.context = epoch.context /\ f.seq > 0 /\ f.since = hour
<1>1. epoch \in EpochRecords /\ epochs + 1 \in Nat /\ hour \in Nat
  BY DEF Typed
<1>2. epoch.seq + 1 \in Nat /\ epoch.seq + 1 > 0
  BY <1>1, NextSeq
<1>3. PICK n \in Nat, m \in Nat : n = epochs + 1 /\ m = epoch.seq + 1 /\ m > 0
  BY <1>1, <1>2
<1>4. MovedOn(epoch) = [epoch EXCEPT !.id = n, !.seq = m, !.since = hour]
  BY <1>3 DEF MovedOn
<1> QED
  BY <1>1, <1>3, <1>4 DEF EpochRecords

\* A process that ends leaves the epoch inactive.
LEMMA EpochEnds ==
  ASSUME NEW e \in EpochRecords
  PROVE  LET f == [e EXCEPT !.active = FALSE]
         IN f \in EpochRecords /\ f.context = e.context /\ f.seq = e.seq /\ f.since = e.since
  BY DEF EpochRecords

\* The context of an input is all that settling it writes to the epoch.
LEMMA EpochSettles ==
  ASSUME NEW e \in EpochRecords, NEW c \in Turns
  PROVE  LET f == [e EXCEPT !.context = c]
         IN f \in EpochRecords /\ f.active = e.active /\ f.context = c /\ f.seq = e.seq /\ f.since = e.since
  BY DEF EpochRecords

\* It holds at the start.
LEMMA Initially == InitEvidence => WindowInv
<1> SUFFICES ASSUME InitEvidence PROVE WindowInv
  OBVIOUS
<1>1. Typed
  BY DEF InitEvidence, Typed
<1>2. ImagesInOrder /\ PendingIsPackaged /\ BoundImagesTold /\ NewImagesOwn /\ EpochIsCurrent
  BY DEF InitEvidence, ImagesInOrder, PendingIsPackaged, BoundImagesTold, NewImagesOwn, EpochIsCurrent
<1> QED
  BY <1>1, <1>2 DEF WindowInv

\* The epoch of an input that is handed over, and of one that is settled.
LEMMA Attempted ==
  ASSUME WindowInv, Dispatch
  PROVE  /\ epoch' \in EpochRecords /\ epoch'.active /\ epoch'.seq > 0 /\ epoch'.since = hour
         /\ epoch'.context = turn
         /\ doing.request \in wrapped /\ doing.request.shot.at \in Nat
<1>1. epoch \in EpochRecords /\ epoch.active /\ hour \in Nat
  BY DEF WindowInv, Typed, EpochIsCurrent, Dispatch
<1>2. doing.request \in wrapped /\ doing.request \in Requests
  BY DEF WindowInv, Typed, PendingIsPackaged, Dispatch
<1>3. doing.request.turn \in Turns /\ doing.request.shot.at \in Nat
  BY <1>2 DEF Requests, Shots
<1>4. epoch.seq + 1 \in Nat /\ epoch.seq + 1 > 0
  BY <1>1, NextSeq
<1>5. PICK m \in Nat : m = epoch.seq + 1 /\ m > 0
  BY <1>4
<1>6. epoch' = [epoch EXCEPT !.seq = m, !.since = hour, !.context = doing.request.turn]
  BY <1>1, <1>5, WindowAssumption DEF Dispatch
<1> QED
  BY <1>1, <1>2, <1>3, <1>5, <1>6 DEF EpochRecords, Dispatch

\* What settling an input, answered or given up, leaves of the epoch.
LEMMA InputSettled ==
  ASSUME WindowInv, epoch # NoEpoch, NEW shot, SettleWith(shot)
  PROVE  /\ epoch' \in EpochRecords /\ epoch'.active = epoch.active /\ epoch'.context = turn
         /\ epoch'.seq = epoch.seq /\ epoch'.since = epoch.since
  BY EpochSettles DEF WindowInv, Typed, SettleWith

\* Every action keeps the types.
LEMMA StepTyped ==
  ASSUME WindowInv, [NextEvidence]_evidenceVars PROVE Typed'
<1> Typed
  BY DEF WindowInv
<1> USE WindowAssumption DEF Typed
<1>1. CASE UNCHANGED evidenceVars
  BY <1>1 DEF evidenceVars
<1>2. CASE Capture
  BY <1>2 DEF Capture, Shots
<1>3. CASE OtherHand
  BY <1>3 DEF OtherHand
<1>4. ASSUME NEW shot \in shots, NEW bound \in BOOLEAN, Wrap(shot, bound) PROVE Typed'
  BY <1>4 DEF Wrap, Shots, Requests
<1>5. ASSUME NEW shot \in shots, ArmFrom(shot) PROVE Typed'
  BY <1>5 DEF ArmFrom, Shots, EpochRecords
<1>6. CASE ReportChange
  <2>1. epoch' \in EpochRecords
    BY <1>6, MovedOnEpoch DEF ReportChange
  <2> QED
    BY <1>6, <2>1 DEF ReportChange, MovedOn
<1>7. CASE Disarm
  <2>1. epoch' \in EpochRecords
    BY <1>7, EpochEnds DEF Disarm, WindowInv, EpochIsCurrent
  <2> QED
    BY <1>7, <2>1 DEF Disarm
<1>8. CASE Reopen
  BY <1>8 DEF Reopen
<1>9. ASSUME NEW r \in wrapped, PrepareFrom(r) PROVE Typed'
  BY <1>9 DEF PrepareFrom
<1>10. CASE CancelPrepared
  BY <1>10 DEF CancelPrepared
<1>11. CASE Dispatch
  BY <1>11, Attempted DEF Dispatch
<1>12. ASSUME NEW effect \in BOOLEAN, NEW next \in Turns, CallReturns(effect, next) PROVE Typed'
  BY <1>12 DEF CallReturns
<1>13. CASE Withdraw
  BY <1>13 DEF Withdraw
<1>14. ASSUME NEW shot \in shots, SettleWith(shot) PROVE Typed'
  BY <1>14, InputSettled DEF SettleWith, Shots
<1> QED
  BY <1>1, <1>2, <1>3, <1>4, <1>5, <1>6, <1>7, <1>8, <1>9, <1>10, <1>11, <1>12, <1>13, <1>14 DEF NextEvidence

\* Images stay in order: a new one is the latest, and shows all there is.
LEMMA StepInOrder ==
  ASSUME WindowInv, Typed', [NextEvidence]_evidenceVars PROVE ImagesInOrder'
<1> USE DEF WindowInv, ImagesInOrder
<1>1. CASE UNCHANGED <<hour, changes, shots, epoch, told, own>>
  BY <1>1
<1>2. CASE Capture
  <2>1. \A s \in shots' : s \in shots \/ (s.at = hour' /\ s.shows = changes)
    BY <1>2 DEF Capture
  <2> QED
    BY <1>2, <2>1 DEF Capture, Typed, Shots, EpochRecords
<1>3. CASE OtherHand
  BY <1>3 DEF OtherHand, Typed, Shots
<1>4. ASSUME NEW shot \in shots, ArmFrom(shot) PROVE ImagesInOrder'
  BY <1>4 DEF ArmFrom, Typed, Shots
<1>5. CASE ReportChange
  BY <1>5, MovedOnEpoch DEF ReportChange, Typed
<1>6. CASE Disarm
  BY <1>6, EpochEnds DEF Disarm, Typed, EpochIsCurrent
<1>7. CASE Reopen
  BY <1>7 DEF Reopen
<1>8. CASE Dispatch
  BY <1>8, Attempted DEF Dispatch, Typed
<1>9. ASSUME NEW effect \in BOOLEAN, NEW next \in Turns, CallReturns(effect, next) PROVE ImagesInOrder'
  BY <1>9 DEF CallReturns, Typed, Shots
<1>10. ASSUME NEW shot \in shots, SettleWith(shot) PROVE ImagesInOrder'
  BY <1>10, InputSettled DEF SettleWith, Typed
<1> QED
  BY <1>1, <1>2, <1>3, <1>4, <1>5, <1>6, <1>7, <1>8, <1>9, <1>10
  DEF NextEvidence, evidenceVars, Wrap, PrepareFrom, CancelPrepared, Withdraw

\* Requests are only added, and what is pending is one of them until it is settled.
LEMMA StepPackaged ==
  ASSUME WindowInv, [NextEvidence]_evidenceVars PROVE PendingIsPackaged'
<1> USE DEF WindowInv, PendingIsPackaged
<1>1. CASE UNCHANGED <<shots, wrapped, doing>>
  BY <1>1
<1>2. CASE Capture
  BY <1>2 DEF Capture
<1>3. ASSUME NEW shot \in shots, NEW bound \in BOOLEAN, Wrap(shot, bound) PROVE PendingIsPackaged'
  BY <1>3 DEF Wrap
<1>4. ASSUME NEW r \in wrapped, PrepareFrom(r) PROVE PendingIsPackaged'
  BY <1>4 DEF PrepareFrom, Typed
<1>5. CASE CancelPrepared \/ Withdraw
  BY <1>5 DEF CancelPrepared, Withdraw, Typed
<1>6. CASE Dispatch
  BY <1>6 DEF Dispatch, Typed
<1>7. ASSUME NEW effect \in BOOLEAN, NEW next \in Turns, CallReturns(effect, next) PROVE PendingIsPackaged'
  BY <1>7 DEF CallReturns, Typed
<1>8. ASSUME NEW shot \in shots, SettleWith(shot) PROVE PendingIsPackaged'
  BY <1>8 DEF SettleWith, Typed
<1> QED
  BY <1>1, <1>2, <1>3, <1>4, <1>5, <1>6, <1>7, <1>8
  DEF NextEvidence, evidenceVars, OtherHand, ArmFrom, ReportChange, Disarm, Reopen

\* A reported change and an input put the barrier at the present, where no image
\* is beyond it; arming puts it at an image, and later images show more.
LEMMA StepTold ==
  ASSUME WindowInv, Typed', [NextEvidence]_evidenceVars PROVE BoundImagesTold'
<1> USE DEF WindowInv, BoundImagesTold
<1>1. CASE UNCHANGED <<shots, epoch, told>>
  BY <1>1
<1>2. CASE Capture
  <2>1. \A s \in shots' : s \in shots \/ s.shows = changes
    BY <1>2 DEF Capture
  <2> QED
    BY <1>2, <2>1 DEF Capture, ImagesInOrder, Typed, Shots
<1>3. ASSUME NEW shot \in shots, ArmFrom(shot) PROVE BoundImagesTold'
  BY <1>3 DEF ArmFrom, ImagesInOrder, Typed, Shots
<1>4. CASE ReportChange
  BY <1>4, MovedOnEpoch DEF ReportChange, ImagesInOrder, Typed, Shots
<1>5. CASE Disarm
  BY <1>5, EpochEnds DEF Disarm, EpochIsCurrent, Typed
<1>6. CASE Reopen
  BY <1>6 DEF Reopen
<1>7. CASE Dispatch
  BY <1>7, Attempted DEF Dispatch, ImagesInOrder, Typed, Shots
<1>8. ASSUME NEW shot \in shots, SettleWith(shot) PROVE BoundImagesTold'
  <2>1. CASE epoch = NoEpoch
    BY <1>8, <2>1 DEF SettleWith
  <2>2. CASE epoch # NoEpoch
    BY <1>8, <2>2, InputSettled DEF SettleWith
  <2> QED
    BY <2>1, <2>2
<1> QED
  BY <1>1, <1>2, <1>3, <1>4, <1>5, <1>6, <1>7, <1>8
  DEF NextEvidence, evidenceVars, OtherHand, Wrap, PrepareFrom, CancelPrepared, CallReturns, Withdraw

\* While an answered input waits, the newest evidence may be older than it; the
\* image that settles it is not.
LEMMA StepOwn ==
  ASSUME WindowInv, Typed', [NextEvidence]_evidenceVars PROVE NewImagesOwn'
<1> USE DEF WindowInv, NewImagesOwn
<1>1. CASE UNCHANGED <<shots, latest, own, doing>>
  BY <1>1
<1>2. CASE Capture
  <2>1. \A s \in shots' : s \in shots \/ s.shows = changes
    BY <1>2 DEF Capture
  <2> QED
    BY <1>2, <2>1 DEF Capture, ImagesInOrder, Typed, Shots
<1>3. ASSUME NEW r \in wrapped, PrepareFrom(r) PROVE NewImagesOwn'
  BY <1>3 DEF PrepareFrom, Pausing
<1>4. CASE CancelPrepared \/ Withdraw
  BY <1>4 DEF CancelPrepared, Withdraw
<1>5. CASE Dispatch
  BY <1>5, Attempted DEF Dispatch, Typed, Shots
<1>6. ASSUME NEW effect \in BOOLEAN, NEW next \in Turns, CallReturns(effect, next) PROVE NewImagesOwn'
  BY <1>6 DEF CallReturns, Typed
<1>7. ASSUME NEW shot \in shots, SettleWith(shot) PROVE NewImagesOwn'
  BY <1>7 DEF SettleWith, ImagesInOrder, Typed, Shots
<1> QED
  BY <1>1, <1>2, <1>3, <1>4, <1>5, <1>6, <1>7
  DEF NextEvidence, evidenceVars, OtherHand, Wrap, ArmFrom, ReportChange, Disarm, Reopen

\* Only an input can end a turn, and its result tells the epoch the next one.
LEMMA StepCurrent ==
  ASSUME WindowInv, Typed', [NextEvidence]_evidenceVars PROVE EpochIsCurrent'
<1> USE WindowAssumption DEF WindowInv, EpochIsCurrent
<1>1. CASE UNCHANGED <<turn, epoch, doing, ready>>
  BY <1>1
<1>2. ASSUME NEW shot \in shots, ArmFrom(shot) PROVE EpochIsCurrent'
  <2>1. epochs' \in Nat /\ shot.at \in Nat
    BY <1>2 DEF Typed, Shots
  <2>2. epoch' \in EpochRecords /\ epoch'.active /\ epoch'.context = NoEpoch
    BY <1>2, <2>1 DEF ArmFrom, EpochRecords
  <2> QED
    BY <2>2
<1>3. CASE ReportChange
  BY <1>3, MovedOnEpoch DEF ReportChange
<1>4. CASE Disarm
  BY <1>4, EpochEnds DEF Disarm, Typed
<1>5. CASE Reopen
  BY <1>5 DEF Reopen
<1>6. ASSUME NEW r \in wrapped, PrepareFrom(r) PROVE EpochIsCurrent'
  BY <1>6 DEF PrepareFrom, Pausing
<1>7. CASE CancelPrepared \/ Withdraw
  BY <1>7 DEF CancelPrepared, Withdraw
<1>8. CASE Dispatch
  BY <1>8, Attempted DEF Dispatch
<1>9. ASSUME NEW effect \in BOOLEAN, NEW next \in Turns, CallReturns(effect, next) PROVE EpochIsCurrent'
  BY <1>9 DEF CallReturns, Typed
<1>10. ASSUME NEW shot \in shots, SettleWith(shot) PROVE EpochIsCurrent'
  <2>1. CASE epoch = NoEpoch
    BY <1>10, <2>1 DEF SettleWith
  <2>2. CASE epoch # NoEpoch
    BY <1>10, <2>2, InputSettled DEF SettleWith
  <2> QED
    BY <2>1, <2>2
<1> QED
  BY <1>1, <1>2, <1>3, <1>4, <1>5, <1>6, <1>7, <1>8, <1>9, <1>10
  DEF NextEvidence, evidenceVars, Capture, OtherHand, Wrap

\* Every step keeps it.
LEMMA Inductive == WindowInv /\ [NextEvidence]_evidenceVars => WindowInv'
  BY StepTyped, StepInOrder, StepPackaged, StepTold, StepOwn, StepCurrent DEF WindowInv

\* The types and the invariant hold of every behaviour.
THEOREM WindowInvariant == SpecEvidence => []WindowInv
<1>1. InitEvidence => WindowInv
  BY Initially
<1>2. WindowInv /\ [NextEvidence]_evidenceVars => WindowInv'
  BY Inductive
<1> QED
  BY <1>1, <1>2, PTL DEF SpecEvidence

-------------------------------------------------------------------------------

\* An input rests on an image that shows all inputs before it and, if bound, all
\* reported changes: the memory's chronology gives the first, the epoch the second.
LEMMA DispatchRests ==
  ASSUME WindowInv, [NextEvidence]_evidenceVars PROVE RestsOnTrueImage
<1> SUFFICES ASSUME doing.status = "prepared", doing'.status = "attempted"
             PROVE  /\ doing.request.shot.shows >= own
                    /\ doing.request.binding # NoEpoch => doing.request.shot.shows >= told
  BY DEF RestsOnTrueImage
<1>1. Dispatch
  BY DEF WindowInv, Typed, NextEvidence, evidenceVars, Capture, OtherHand, Wrap, ArmFrom, ReportChange,
         Disarm, Reopen, PrepareFrom, Pausing, CancelPrepared, CallReturns, Withdraw, SettleWith
<1>2. doing.request \in wrapped /\ doing.request.shot \in shots
  BY <1>1, Attempted DEF WindowInv, PendingIsPackaged
<1>3. doing.request.shot.shows >= own
  BY <1>1, <1>2 DEF Dispatch, WindowInv, NewImagesOwn
<1>4. ASSUME doing.request.binding # NoEpoch PROVE doing.request.shot.shows >= told
  BY <1>1, <1>2, <1>4 DEF Dispatch, Usable, BindingHolds, WindowInv, BoundImagesTold
<1> QED
  BY <1>3, <1>4

\* A new image can be bound.
LEMMA NewImagesBind == WindowInv => NewImageBinds
<1> SUFFICES ASSUME WindowInv, ready, Pausing
             PROVE  BindingHolds(epoch, epoch, turn, [at |-> hour + 1, shows |-> changes, turn |-> turn])
  BY DEF NewImageBinds
<1>1. epoch # NoEpoch /\ epoch.active /\ epoch.context \in {NoEpoch, turn}
  BY DEF WindowInv, EpochIsCurrent, Pausing
<1>2. hour + 1 > epoch.since
  BY <1>1 DEF WindowInv, ImagesInOrder, Typed, EpochRecords
<1> QED
  BY <1>1, <1>2 DEF BindingHolds, WindowInv, Typed, EpochRecords

\* However often the game is played by hand, requests wait, processes restart and
\* epochs move on: inputs rest on images that are still true, and a new image can
\* always be bound (dispatch, check_binding, invalidate_evidence, _chronology).
THEOREM EvidenceAlwaysHolds == SpecEvidence => EvidenceHolds
<1>1. WindowInv /\ [NextEvidence]_evidenceVars => RestsOnTrueImage
  BY DispatchRests
<1>2. WindowInv => NewImageBinds
  BY NewImagesBind
<1> QED
  BY <1>1, <1>2, Inductive, WindowInvariant, PTL DEF EvidenceHolds, SpecEvidence


-------------------------------------------------------------------------------
(* The play clock (PlayClock) *)

\* A scope accounts for the time since it began, up to the last report.
ScopeExact(s, mono) == s.active + s.excluded = mono - s.born

\* The clock accounts for the time r and the paused time z of it, when the last
\* report was written at t.mono.
Exact(t, r, z) ==
  /\ t.complete
  /\ t.mono <= r
  /\ t.active + t.excluded = t.mono - t.startup.born
  /\ t.excluded = z - (IF t.paused THEN r - t.mono ELSE 0)
  /\ t.move # NoScope => ScopeExact(t.move, t.mono)
  /\ t.floor # NoScope => ScopeExact(t.floor, t.mono)

Opened == player.opened > 0

\* A transaction works on the file as it is, at the present.
OneTransaction ==
  /\ \A p \in Processes : Busy(p) =>
       /\ timing # NoScope /\ work[p].read = timing /\ work[p].now \in Instants
       /\ Len(work[p].events) \in {1, 2}
       /\ work[p].now.mono = real /\ work[p].now.wall = real + skew
  /\ \A p, q \in Processes : Busy(p) /\ Busy(q) => p = q

\* There is a clock once an adapter was opened.
ClockBegun == /\ player.up => Opened
              /\ Opened <=> timing # NoScope

\* It is exact unless a report was measured by a wall clock set since the last;
\* if it was not set, it is as far off now as it was then.
ClockExact ==
  timing # NoScope /\ ~history.misled =>
    /\ Exact(timing, real, history.rest)
    /\ ~history.jumped => timing.updated = timing.mono + skew

FileInv == ClockTypeOK /\ OneTransaction /\ ClockBegun /\ ClockExact

-------------------------------------------------------------------------------
\* The rest of the invariant: what the adapter still has to report.

Pending == session.pending
Meddled == history.meddled = "begin_move"
Upward == Pending # NoScope /\ Steps[Pending].up

InTodo(op) == \E i \in DOMAIN player.todo : player.todo[i].op = op
Reporting(op) == Busy("player") /\ work["player"].events[1].op = op

\* A report is about the input that waits and the floor it leads to.
AboutPending(e) ==
  /\ e.op = "verified_input" =>
       Pending # NoScope /\ e.action = Pending /\ e.complete = Steps[Pending].complete
  /\ e.op = "complete_floor" =>
       Upward /\ e.id = FloorId(session.floor) /\ e.to = FloorId(session.floor + 1)
  /\ e.op = "begin_floor" =>
       IF e.whole THEN Upward /\ e.id = FloorId(session.floor + 1)
       ELSE Pending = NoScope /\ e.id = FloorId(session.floor)
  /\ e.op = "settle" => Pending # NoScope
  /\ e.op = "deliver" => Pending = NoScope /\ session.settled < Len(Steps)

PendingIsNext == Pending # NoScope => Pending = session.settled + 1 /\ Pending \in DOMAIN Steps

\* The reports to come are about what waits, in the order finalize makes them.
Agenda ==
  /\ \A i \in DOMAIN player.todo : AboutPending(player.todo[i])
  /\ \A i, j \in DOMAIN player.todo : i < j =>
       /\ player.todo[i].op # "deliver"
       /\ player.todo[i].op = "settle" => player.todo[j].op = "begin_move"
       /\ player.todo[j].op = "verified_input" => player.todo[i].op = "resume"
       /\ player.todo[j].op = "complete_floor" => player.todo[i].op \in {"resume", "verified_input"}
  /\ \A j \in DOMAIN player.todo : player.todo[j].op = "begin_move" =>
       \/ Pending = NoScope \/ Meddled
       \/ \E i \in DOMAIN player.todo : i < j /\ player.todo[i].op = "settle"

\* So is the report that is being made, which is one.
ReportUnderWay ==
  /\ Busy("player") =>
       /\ Len(work["player"].events) = 1
       /\ AboutPending(work["player"].events[1])
       /\ work["player"].events[1].op = "begin_move" => Pending = NoScope \/ Meddled
       /\ work["player"].events[1].op \notin {"settle", "deliver"}
  /\ Busy("helper") =>
       /\ \A i \in 1..Len(work["helper"].events) : work["helper"].events[i].op \in {"failure", "stale_capture"}

\* Inputs are counted by what was reported of them.
Counted ==
  /\ IsFiniteSet(history.reported)
  /\ \A k \in history.reported : k <= session.settled \/ k = Pending
  /\ timing = NoScope => history.reported = {}
  /\ timing # NoScope =>
       /\ timing.verified \in Seq(history.reported)
       /\ timing.inputs = Cardinality(history.reported)
       /\ timing.moved = Cardinality({k \in history.reported : Steps[k].complete})
       /\ Pending \in history.reported => \E i \in DOMAIN timing.verified : timing.verified[i] = Pending

\* The move of a completed input is closed before its floor is.
MoveClosed ==
  timing # NoScope /\ ~Meddled =>
    /\ Pending \in history.reported /\ Steps[Pending].complete => timing.move = NoScope
    /\ Reporting("complete_floor") => timing.move = NoScope
    /\ InTodo("complete_floor") =>
         InTodo("verified_input") \/ Reporting("verified_input") \/ timing.move = NoScope

\* The clock's floor is the player's, or the one the input that waits leads to;
\* this before it is settled.
FloorKnown ==
  timing # NoScope /\ ~Meddled =>
    /\ \/ timing.floor = NoScope \/ timing.floor.id = FloorId(session.floor)
       \/ Upward /\ timing.floor.id = FloorId(session.floor + 1)
    /\ InTodo("settle") /\ Upward =>
         \/ InTodo("complete_floor") \/ Reporting("complete_floor")
         \/ timing.floor = NoScope \/ timing.floor.id = FloorId(session.floor + 1)

ClockInv == FileInv /\ PendingIsNext /\ Agenda /\ ReportUnderWay /\ Counted /\ MoveClosed /\ FloorKnown

-------------------------------------------------------------------------------
(* What one report does to the file *)

\* Time that passes makes a scope longer, and leaves its name and beginning.
LEMMA LongerScope ==
  ASSUME NEW s \in Scopes \cup {NoScope}, NEW d \in Int, NEW paused
  PROVE  /\ Longer(s, d, paused) \in Scopes \cup {NoScope}
         /\ s = NoScope => Longer(s, d, paused) = NoScope
         /\ s # NoScope =>
              /\ Longer(s, d, paused) \in Scopes /\ Longer(s, d, paused) # NoScope
              /\ Longer(s, d, paused).id = s.id /\ Longer(s, d, paused).born = s.born
              /\ \A m \in Int : ScopeExact(s, m) => ScopeExact(Longer(s, d, paused), m + d)
<1>1. CASE s = NoScope
  BY <1>1 DEF Longer
<1>2. CASE s # NoScope
  <2>1. s \in Scopes
    BY <1>2
  <2>2. Longer(s, d, paused) = IF paused THEN [s EXCEPT !.excluded = @ + d] ELSE [s EXCEPT !.active = @ + d]
    BY <1>2 DEF Longer
  <2>3. Longer(s, d, paused) \in Scopes
    BY <2>1, <2>2 DEF Scopes
  <2>4. Longer(s, d, paused) # NoScope
    BY <2>3, ClockAssumption
  <2>5. Longer(s, d, paused).id = s.id /\ Longer(s, d, paused).born = s.born
    BY <2>1, <2>2 DEF Scopes
  <2>6. ASSUME NEW m \in Int, ScopeExact(s, m) PROVE ScopeExact(Longer(s, d, paused), m + d)
    BY <2>1, <2>2, <2>6 DEF Scopes, ScopeExact
  <2> QED
    BY <1>2, <2>3, <2>4, <2>5, <2>6
<1> QED
  BY <1>1, <1>2

\* The time since the last report is a number of seconds.
LEMMA ElapsedIsTime ==
  ASSUME NEW t \in Timings, NEW now \in Instants PROVE Elapsed(t, now) \in Int
  BY DEF Elapsed, Continuous, Timings, Instants

\* _advance touches times only.
LEMMA AdvanceForm ==
  ASSUME NEW t \in Timings, NEW now \in Instants
  PROVE  LET u == Advance(t, now)
         IN /\ u \in Timings
            /\ u.updated = now.wall /\ u.mono = now.mono /\ u.clock = now.clock
            /\ u.paused = t.paused /\ u.started = t.started
            /\ u.moves = t.moves /\ u.floors = t.floors
            /\ u.verified = t.verified /\ u.inputs = t.inputs /\ u.moved = t.moved
            /\ u.startup.born = t.startup.born
            /\ u.move = Longer(t.move, Elapsed(t, now), t.paused)
            /\ u.floor = Longer(t.floor, Elapsed(t, now), t.paused)
            /\ u.active = (IF t.paused THEN t.active ELSE t.active + Elapsed(t, now))
            /\ u.excluded = (IF t.paused THEN t.excluded + Elapsed(t, now) ELSE t.excluded)
            /\ t.complete /\ (Continuous(t, now) \/ now.wall >= t.updated) => u.complete
<1> DEFINE d == Elapsed(t, now)
           u == Advance(t, now)
<1>0. d \in Int
  BY ElapsedIsTime
<1>1. u = [t EXCEPT !.active = IF t.paused THEN @ ELSE @ + d,
               !.excluded = IF t.paused THEN @ + d ELSE @,
               !.startup = IF t.started THEN @ ELSE Longer(@, d, t.paused),
               !.move = Longer(@, d, t.paused), !.floor = Longer(@, d, t.paused),
               !.complete = @ /\ (Continuous(t, now) \/ now.wall >= t.updated),
               !.updated = now.wall, !.mono = now.mono, !.clock = now.clock]
  BY DEF Advance
<1> HIDE DEF d, u
<1>2. t.startup \in Scopes /\ t.move \in Scopes \cup {NoScope} /\ t.floor \in Scopes \cup {NoScope}
  BY DEF Timings
<1>3. /\ Longer(t.move, d, t.paused) \in Scopes \cup {NoScope}
      /\ Longer(t.floor, d, t.paused) \in Scopes \cup {NoScope}
  BY <1>0, <1>2, LongerScope
<1>4. /\ (IF t.started THEN t.startup ELSE Longer(t.startup, d, t.paused)) \in Scopes
      /\ (IF t.started THEN t.startup ELSE Longer(t.startup, d, t.paused)).born = t.startup.born
  BY <1>0, <1>2, LongerScope, ClockAssumption
<1>5. u = [updated |-> now.wall, mono |-> now.mono, clock |-> now.clock,
           active |-> IF t.paused THEN t.active ELSE t.active + d,
           excluded |-> IF t.paused THEN t.excluded + d ELSE t.excluded,
           paused |-> t.paused,
           complete |-> t.complete /\ (Continuous(t, now) \/ now.wall >= t.updated),
           startup |-> IF t.started THEN t.startup ELSE Longer(t.startup, d, t.paused),
           started |-> t.started,
           move |-> Longer(t.move, d, t.paused), floor |-> Longer(t.floor, d, t.paused),
           moves |-> t.moves, floors |-> t.floors, verified |-> t.verified,
           inputs |-> t.inputs, moved |-> t.moved]
  BY <1>1 DEF Timings
<1>6. u \in Timings
  BY <1>0, <1>3, <1>4, <1>5 DEF Timings, Instants
<1>7. /\ u.updated = now.wall /\ u.mono = now.mono /\ u.clock = now.clock
      /\ u.paused = t.paused /\ u.started = t.started
      /\ u.moves = t.moves /\ u.floors = t.floors
      /\ u.verified = t.verified /\ u.inputs = t.inputs /\ u.moved = t.moved
      /\ u.startup.born = t.startup.born
      /\ u.move = Longer(t.move, d, t.paused)
      /\ u.floor = Longer(t.floor, d, t.paused)
  BY <1>5, <1>4
<1>8. /\ u.active = (IF t.paused THEN t.active ELSE t.active + d)
      /\ u.excluded = (IF t.paused THEN t.excluded + d ELSE t.excluded)
  BY <1>5
<1>9. t.complete /\ (Continuous(t, now) \/ now.wall >= t.updated) => u.complete
  BY <1>5
<1> QED
  BY <1>6, <1>7, <1>8, <1>9 DEF d, u

\* When the time since the last report is measured rightly, _advance keeps the
\* clock exact.
Measured(t, now) ==
  Elapsed(t, now) = now.mono - t.mono /\ (Continuous(t, now) \/ now.wall >= t.updated)

\* Bringing an exact clock up to date by the time that has passed keeps it exact.
LEMMA AdvanceExact ==
  ASSUME NEW t \in Timings, NEW now \in Instants, NEW z \in Int,
         Exact(t, now.mono, z), Measured(t, now)
  PROVE  Exact(Advance(t, now), now.mono, z)
<1> DEFINE d == Elapsed(t, now)
           u == Advance(t, now)
<1>0. d = now.mono - t.mono /\ d \in Int
  BY ElapsedIsTime DEF Measured
<1>1. /\ u \in Timings /\ u.mono = now.mono /\ u.paused = t.paused
      /\ u.startup.born = t.startup.born
      /\ u.move = Longer(t.move, d, t.paused) /\ u.floor = Longer(t.floor, d, t.paused)
      /\ u.active = (IF t.paused THEN t.active ELSE t.active + d)
      /\ u.excluded = (IF t.paused THEN t.excluded + d ELSE t.excluded)
      /\ t.complete /\ (Continuous(t, now) \/ now.wall >= t.updated) => u.complete
  BY AdvanceForm
<1> HIDE DEF d, u
<1>2. t.mono \in Int /\ now.mono \in Int /\ t.mono + d = now.mono
  BY <1>0 DEF Timings, Instants
<1>3. u.complete
  BY <1>1 DEF Exact, Measured
<1>4. /\ t.active \in Int /\ t.excluded \in Int /\ t.startup.born \in Int
      /\ u.active \in Int /\ u.excluded \in Int /\ t.paused \in BOOLEAN
  BY <1>1 DEF Timings, Scopes
<1>5. u.active + u.excluded = now.mono - u.startup.born
  BY <1>0, <1>1, <1>2, <1>4 DEF Exact
<1>6. u.excluded = z - (IF u.paused THEN now.mono - u.mono ELSE 0)
  BY <1>0, <1>1, <1>2, <1>4 DEF Exact
<1>7. t.move \in Scopes \cup {NoScope} /\ t.floor \in Scopes \cup {NoScope}
  BY DEF Timings
<1>a. ASSUME NEW s \in Scopes \cup {NoScope}, s # NoScope => ScopeExact(s, t.mono),
             Longer(s, d, t.paused) # NoScope
      PROVE  ScopeExact(Longer(s, d, t.paused), now.mono)
  <2>1. s # NoScope
    BY <1>a, <1>0, LongerScope
  <2>2. ScopeExact(Longer(s, d, t.paused), t.mono + d)
    BY <1>a, <2>1, <1>0, <1>2, LongerScope
  <2> QED
    BY <2>2, <1>2
<1>8. u.move # NoScope => ScopeExact(u.move, u.mono)
  BY <1>a, <1>1, <1>7 DEF Exact
<1>9. u.floor # NoScope => ScopeExact(u.floor, u.mono)
  BY <1>a, <1>1, <1>7 DEF Exact
<1> QED
  BY <1>1, <1>2, <1>3, <1>5, <1>6, <1>8, <1>9 DEF Exact, u

\* A history keeps its newest entry.
LEMMA RecentNewest ==
  ASSUME NEW S, NEW s \in Seq(S), NEW x \in S
  PROVE  LET r == Recent(Append(s, x)) IN r \in Seq(S) /\ Len(r) > 0 /\ r[Len(r)] = x
<1> DEFINE a == Append(s, x)
<1>1. a \in Seq(S) /\ Len(a) = Len(s) + 1 /\ a[Len(a)] = x /\ Len(s) \in Nat
  OBVIOUS
<1> HIDE DEF a
<1>2. MAX_HISTORY \in Nat /\ MAX_HISTORY > 0
  BY ClockAssumption
<1>3. CASE Len(a) <= MAX_HISTORY
  <2>1. Recent(a) = a
    BY <1>1, <1>2, <1>3 DEF Recent
  <2> QED
    BY <2>1, <1>1 DEF a
<1>4. CASE Len(a) > MAX_HISTORY
  <2> DEFINE r == SubSeq(a, Len(a) - MAX_HISTORY + 1, Len(a))
  <2>1. Recent(a) = r
    BY <1>4, <1>1, <1>2 DEF Recent
  <2>2. Len(a) - MAX_HISTORY + 1 \in 1..Len(a)
    BY <1>4, <1>1, <1>2
  <2>3. r \in Seq(S) /\ Len(r) = MAX_HISTORY
    BY <1>1, <1>2, <2>2
  <2>4. r[MAX_HISTORY] = a[Len(a)]
    BY <1>1, <1>2, <2>2
  <2> QED
    BY <1>1, <1>2, <2>1, <2>3, <2>4 DEF a
<1> QED
  BY <1>1, <1>2, <1>3, <1>4

\* A scope that begins is one, and has no time yet.
LEMMA NewScope ==
  ASSUME real \in Int, NEW id \in ScopeIds, NEW kind \in {"startup", "move", "floor"}, NEW whole \in BOOLEAN
  PROVE  /\ Scope(id, kind, whole) \in Scopes /\ Scope(id, kind, whole) # NoScope
         /\ Scope(id, kind, whole).id = id /\ Scope(id, kind, whole).born = real
         /\ ScopeExact(Scope(id, kind, whole), real)
<1>1. Scope(id, kind, whole) \in Scopes
  BY DEF Scope, Scopes
<1>2. Scope(id, kind, whole).id = id /\ Scope(id, kind, whole).born = real
  BY DEF Scope
<1>3. ScopeExact(Scope(id, kind, whole), real)
  BY DEF Scope, ScopeExact
<1> QED
  BY <1>1, <1>2, <1>3, ClockAssumption

\* A capture that was too old is noted in a scope, which stays as it is.
LEMMA NotedScope ==
  ASSUME NEW s \in Scopes, NEW c \in Captures
  PROVE  LET r == [s EXCEPT !.stale = @ \cup {c}]
         IN /\ r \in Scopes /\ r # NoScope /\ r.id = s.id /\ r.born = s.born
            /\ r.active = s.active /\ r.excluded = s.excluded
<1> DEFINE r == [s EXCEPT !.stale = @ \cup {c}]
<1>1. r \in Scopes
  BY DEF Scopes
<1>2. r.id = s.id /\ r.born = s.born /\ r.active = s.active /\ r.excluded = s.excluded
  BY DEF Scopes
<1> QED
  BY <1>1, <1>2, ClockAssumption

\* What an event keeps of the file: the times, and, unless it is about them,
\* the absence of a move, the floor and the counts.
SameScope(r, s) == (s = NoScope => r = NoScope) /\ (s # NoScope => r # NoScope /\ r.id = s.id)
ScopesExact(t) ==
  /\ t.move # NoScope => ScopeExact(t.move, t.mono)
  /\ t.floor # NoScope => ScopeExact(t.floor, t.mono)
SameTimes(u, t) ==
  /\ u.updated = t.updated /\ u.mono = t.mono /\ u.clock = t.clock
  /\ u.active = t.active /\ u.excluded = t.excluded /\ u.complete = t.complete
  /\ u.startup.born = t.startup.born
  /\ ScopesExact(t) => ScopesExact(u)
SameCounts(u, t) == u.verified = t.verified /\ u.inputs = t.inputs /\ u.moved = t.moved

Effect(u, t, e) ==
  /\ e.op # "begin_move" /\ t.move = NoScope => u.move = NoScope
  /\ e.op \notin {"begin_floor", "complete_floor"} => SameScope(u.floor, t.floor)
  /\ e.op = "begin_floor" => u.floor.id = e.id
  /\ e.op = "complete_floor" => u.floor = NoScope
  /\ e.op # "verified_input" => SameCounts(u, t)
  /\ e.op = "verified_input" =>
       IF \E i \in DOMAIN t.verified : t.verified[i] = e.action THEN SameCounts(u, t)
       ELSE /\ u.verified = Recent(Append(t.verified, e.action)) /\ u.inputs = t.inputs + 1
            /\ u.moved = t.moved + (IF e.complete THEN 1 ELSE 0)
            /\ e.complete => u.move = NoScope

\* record_event, after _advance.
LEMMA ApplyKeeps ==
  ASSUME NEW t \in Timings, NEW e \in Events, ~Refuses(t, e), real \in Int, t.mono = real
  PROVE  Apply(t, e) \in Timings /\ SameTimes(Apply(t, e), t) /\ Effect(Apply(t, e), t, e)
<1> DEFINE u == Apply(t, e)
<1>0. /\ t.move \in Scopes \cup {NoScope} /\ t.floor \in Scopes \cup {NoScope} /\ t.startup \in Scopes
      /\ t.moves \in Seq(ScopeIds) /\ t.floors \in Seq(ScopeIds) /\ t.verified \in Seq(Nat)
      /\ t.inputs \in Nat /\ t.moved \in Nat /\ NoScope \notin Scopes
  BY ClockAssumption DEF Timings
<1>s. ASSUME u = t, e.op \notin {"begin_floor", "complete_floor", "verified_input"}
      PROVE  u \in Timings /\ SameTimes(u, t) /\ Effect(u, t, e)
  BY <1>s DEF SameTimes, Effect, SameCounts, SameScope
<1>1. CASE e.op = "begin_move"
  <2>1. e.id \in ScopeIds /\ e.class \in Classes \cup {NoScope}
    BY <1>1 DEF Events
  <2>2. u = IF t.move # NoScope THEN t
            ELSE [t EXCEPT !.move = [Scope(e.id, "move", TRUE) EXCEPT !.class = e.class]]
    BY <1>1 DEF Apply
  <2>3. CASE t.move # NoScope
    BY <2>2, <2>3, <1>s, <1>1
  <2>4. CASE t.move = NoScope
    <3> DEFINE m == [Scope(e.id, "move", TRUE) EXCEPT !.class = e.class]
    <3> DEFINE s == Scope(e.id, "move", TRUE)
    <3>a. s \in Scopes /\ ScopeExact(s, real)
      BY <2>1, NewScope
    <3>c. m = [s EXCEPT !.class = e.class]
      OBVIOUS
    <3> HIDE DEF s, m
    <3>b. m \in Scopes /\ m.active = s.active /\ m.excluded = s.excluded /\ m.born = s.born
      BY <2>1, <3>a, <3>c DEF Scopes
    <3>1. m \in Scopes /\ ScopeExact(m, real)
      BY <3>a, <3>b DEF ScopeExact
    <3>2. u = [t EXCEPT !.move = m]
      BY <2>2, <2>4 DEF m, s
    <3>3. u \in Timings
      BY <3>1, <3>2 DEF Timings
    <3>4. SameTimes(u, t)
      BY <3>1, <3>2, <1>0 DEF Timings, SameTimes, ScopesExact
    <3>5. Effect(u, t, e)
      BY <3>2, <1>1, <1>0 DEF Timings, Effect, SameCounts, SameScope
    <3> QED
      BY <3>3, <3>4, <3>5
  <2> QED
    BY <2>3, <2>4
<1>2. CASE e.op = "set_watchdog"
  <2>1. e.class \in Classes
    BY <1>2 DEF Events
  <2>2. t.move # NoScope
    BY <1>2 DEF Refuses
  <2> DEFINE m == [t.move EXCEPT !.class = e.class]
  <2>3. m \in Scopes /\ m.active = t.move.active /\ m.excluded = t.move.excluded /\ m.born = t.move.born
    BY <2>1, <2>2, <1>0 DEF Scopes
  <2>4. u = [t EXCEPT !.move = m]
    BY <1>2 DEF Apply, Timings
  <2> HIDE DEF m
  <2>5. u \in Timings
    BY <2>3, <2>4 DEF Timings
  <2>6. SameTimes(u, t)
    BY <2>2, <2>3, <2>4, <1>0 DEF Timings, SameTimes, ScopesExact, ScopeExact
  <2>7. Effect(u, t, e)
    BY <2>2, <2>4, <1>2, <1>0 DEF Timings, Effect, SameCounts, SameScope
  <2> QED
    BY <2>5, <2>6, <2>7
<1>3. CASE e.op = "begin_floor"
  <2>1. e.id \in ScopeIds /\ e.whole \in BOOLEAN
    BY <1>3 DEF Events
  <2>2. u = IF t.floor # NoScope THEN t ELSE [t EXCEPT !.floor = Scope(e.id, "floor", e.whole)]
    BY <1>3 DEF Apply
  <2>3. CASE t.floor # NoScope
    <3>1. t.floor.id = e.id
      BY <1>3, <2>3 DEF Refuses
    <3> QED
      BY <2>2, <2>3, <3>1, <1>3 DEF SameTimes, Effect, SameCounts, SameScope
  <2>4. CASE t.floor = NoScope
    <3> DEFINE f == Scope(e.id, "floor", e.whole)
    <3>1. f \in Scopes /\ f.id = e.id /\ ScopeExact(f, real)
      BY <2>1, NewScope
    <3> HIDE DEF f
    <3>2. u = [t EXCEPT !.floor = f]
      BY <2>2, <2>4 DEF f
    <3>3. u \in Timings
      BY <3>1, <3>2 DEF Timings
    <3>4. SameTimes(u, t)
      BY <3>1, <3>2, <1>0 DEF Timings, SameTimes, ScopesExact
    <3>5. Effect(u, t, e)
      BY <3>1, <3>2, <1>3, <1>0 DEF Timings, Effect, SameCounts, SameScope
    <3> QED
      BY <3>3, <3>4, <3>5
  <2> QED
    BY <2>3, <2>4
<1>4. CASE e.op = "rebase_floor"
  <2>1. e.id \in ScopeIds
    BY <1>4 DEF Events
  <2>2. t.floor # NoScope /\ t.floor.id = e.id
    BY <1>4 DEF Refuses
  <2> DEFINE f == Scope(e.id, "floor", FALSE)
  <2>3. f \in Scopes /\ f # NoScope /\ f.id = e.id /\ ScopeExact(f, real)
    BY <2>1, NewScope
  <2>4. u = [t EXCEPT !.floor = f]
    BY <1>4 DEF Apply
  <2> HIDE DEF f
  <2>5. u \in Timings
    BY <2>3, <2>4 DEF Timings
  <2>6. SameTimes(u, t)
    BY <2>3, <2>4, <1>0 DEF Timings, SameTimes, ScopesExact
  <2>7. Effect(u, t, e)
    BY <2>2, <2>3, <2>4, <1>4, <1>0 DEF Timings, Effect, SameCounts, SameScope
  <2> QED
    BY <2>5, <2>6, <2>7
<1>5. CASE e.op = "verified_input"
  <2>1. e.action \in Nat /\ e.complete \in BOOLEAN
    BY <1>5 DEF Events
  <2> DEFINE known == \E i \in DOMAIN t.verified : t.verified[i] = e.action
  <2>2. e.action \in ToSet(t.verified) <=> known
    BY DEF ToSet
  <2>3. CASE known
    <3>1. u = t
      BY <1>5, <2>2, <2>3 DEF Apply
    <3> QED
      BY <3>1, <1>5, <2>3 DEF SameTimes, Effect, SameCounts, SameScope
  <2>4. CASE ~known
    <3> DEFINE r == Recent(Append(t.verified, e.action))
               w == [t EXCEPT !.verified = r, !.inputs = @ + 1, !.started = TRUE]
    <3>1. r \in Seq(Nat)
      BY <1>0, <2>1, RecentNewest
    <3> HIDE DEF r
    <3> DEFINE w1 == [t EXCEPT !.verified = r]
               n == t.inputs + 1
               w2 == [w1 EXCEPT !.inputs = n]
    <3>a. w1 \in Timings
      BY <3>1 DEF Timings
    <3>b. w = [w2 EXCEPT !.started = TRUE]
      BY DEF Timings
    <3>d. n \in Nat
      BY <1>0
    <3> HIDE DEF w1, n
    <3>c. w2 \in Timings
      BY <3>a, <3>d DEF Timings
    <3> HIDE DEF w2, w
    <3>2. w \in Timings
      BY <3>b, <3>c DEF Timings
    <3> USE DEF w
    <3>3. /\ SameTimes(w, t) /\ w.move = t.move /\ w.floor = t.floor /\ w.moves = t.moves
          /\ w.verified = r /\ w.inputs = t.inputs + 1 /\ w.moved = t.moved
      BY <1>0 DEF Timings, SameTimes, ScopesExact
    <3>4. u = IF e.complete THEN CloseMove(w) ELSE w
      BY <1>5, <2>2, <2>4 DEF Apply, r
    <3> HIDE DEF w
    <3>5. CASE ~e.complete
      <4>1. SameScope(w.floor, t.floor)
        BY <3>3, <1>0 DEF SameScope
      <4>2. Effect(w, t, e)
        BY <3>3, <3>5, <4>1, <1>5, <2>4, <1>0 DEF Effect, r
      <4> QED
        BY <3>2, <3>3, <3>4, <3>5, <4>2
    <3>6. CASE e.complete
      <4>1. w.move # NoScope /\ w.move.id \in ScopeIds
        BY <1>5, <2>2, <2>4, <3>3, <3>6, <1>0 DEF Refuses, Scopes
      <4> DEFINE q == Recent(Append(w.moves, w.move.id))
      <4>2. q \in Seq(ScopeIds)
        BY <4>1, <3>3, <1>0, RecentNewest
      <4> HIDE DEF q
      <4>3. u = [w EXCEPT !.moves = q, !.moved = @ + 1, !.move = NoScope]
        BY <3>4, <3>6 DEF CloseMove, q
      <4> DEFINE u1 == [w EXCEPT !.moves = q]
                 k == w.moved + 1
                 u2 == [u1 EXCEPT !.moved = k]
      <4>a. u1 \in Timings
        BY <4>2, <3>2 DEF Timings
      <4>b. u = [u2 EXCEPT !.move = NoScope]
        BY <4>3, <3>2 DEF Timings
      <4>d. k \in Nat
        BY <1>0, <3>3
      <4> HIDE DEF u1, k
      <4>c. u2 \in Timings
        BY <4>a, <4>d DEF Timings
      <4> HIDE DEF u2
      <4>4. u \in Timings
        BY <4>b, <4>c DEF Timings
      <4>5. /\ u.move = NoScope /\ u.floor = w.floor /\ u.verified = w.verified
            /\ u.inputs = w.inputs /\ u.moved = w.moved + 1
            /\ u.updated = w.updated /\ u.mono = w.mono /\ u.clock = w.clock
            /\ u.active = w.active /\ u.excluded = w.excluded /\ u.complete = w.complete
            /\ u.startup = w.startup
        BY <4>3, <3>2 DEF Timings
      <4>6. SameTimes(u, t)
        BY <4>5, <3>3 DEF SameTimes, ScopesExact
      <4>7. SameScope(u.floor, t.floor)
        BY <4>5, <3>3, <1>0 DEF SameScope
      <4>8. Effect(u, t, e)
        BY <4>5, <4>7, <3>3, <3>6, <1>5, <2>4 DEF Effect, r
      <4> QED
        BY <4>4, <4>6, <4>8
    <3> QED
      BY <3>5, <3>6
  <2> QED
    BY <2>3, <2>4
<1>6. CASE e.op = "complete_floor"
  <2>1. t.floor # NoScope /\ t.floor.id \in ScopeIds
    BY <1>6, <1>0 DEF Refuses, Scopes
  <2> DEFINE q == Recent(Append(t.floors, t.floor.id))
  <2>2. q \in Seq(ScopeIds)
    BY <2>1, <1>0, RecentNewest
  <2>3. u = [t EXCEPT !.floors = q, !.floor = NoScope]
    BY <1>6 DEF Apply
  <2> HIDE DEF q
  <2>4. u \in Timings
    BY <2>2, <2>3 DEF Timings
  <2>5. SameTimes(u, t)
    BY <2>3 DEF Timings, SameTimes, ScopesExact
  <2>6. Effect(u, t, e)
    BY <2>3, <1>6 DEF Timings, Effect, SameCounts
  <2> QED
    BY <2>4, <2>5, <2>6
<1>7. CASE e.op \in {"pause", "resume"}
  <2>1. \E b \in BOOLEAN : u = [t EXCEPT !.paused = b]
    BY <1>7 DEF Apply
  <2>2. PICK b \in BOOLEAN : u = [t EXCEPT !.paused = b]
    BY <2>1
  <2>3. u \in Timings
    BY <2>2 DEF Timings
  <2>4. SameTimes(u, t)
    BY <2>2 DEF Timings, SameTimes, ScopesExact
  <2>5. Effect(u, t, e)
    BY <2>2, <1>7 DEF Timings, Effect, SameCounts, SameScope
  <2> QED
    BY <2>3, <2>4, <2>5
<1>8. CASE e.op = "stale_capture"
  <2>1. e.capture \in Captures
    BY <1>8 DEF Events
  <2>2. CASE StaleScope(t) = "move"
    <3>1. t.move \in Scopes
      BY <2>2, <1>0 DEF StaleScope
    <3> DEFINE m == [t.move EXCEPT !.stale = @ \cup {e.capture}]
    <3>2. m \in Scopes /\ m # NoScope /\ m.id = t.move.id /\ m.born = t.move.born
          /\ m.active = t.move.active /\ m.excluded = t.move.excluded
      BY <2>1, <3>1, NotedScope
    <3>3. u = [t EXCEPT !.move = m]
      BY <1>8, <2>2 DEF Apply, Timings
    <3> HIDE DEF m
    <3>4. u \in Timings
      BY <3>2, <3>3 DEF Timings
    <3>5. SameTimes(u, t)
      BY <3>1, <3>2, <3>3, <1>0 DEF Timings, SameTimes, ScopesExact, ScopeExact
    <3>6. Effect(u, t, e)
      BY <3>1, <3>3, <1>8, <1>0 DEF Timings, Effect, SameCounts, SameScope
    <3> QED
      BY <3>4, <3>5, <3>6
  <2>3. CASE StaleScope(t) = "startup"
    <3> DEFINE m == [t.startup EXCEPT !.stale = @ \cup {e.capture}]
    <3>2. m \in Scopes /\ m.born = t.startup.born
      BY <2>1, <1>0, NotedScope
    <3>3. u = [t EXCEPT !.startup = m]
      BY <1>8, <2>3 DEF Apply, Timings
    <3> HIDE DEF m
    <3>4. u \in Timings
      BY <3>2, <3>3 DEF Timings
    <3>5. SameTimes(u, t)
      BY <3>2, <3>3 DEF Timings, SameTimes, ScopesExact
    <3>6. Effect(u, t, e)
      BY <3>3, <1>8 DEF Timings, Effect, SameCounts, SameScope
    <3> QED
      BY <3>4, <3>5, <3>6
  <2>4. CASE StaleScope(t) = "floor"
    <3>1. t.floor \in Scopes
      BY <1>8, <2>4, <1>0 DEF Refuses
    <3> DEFINE m == [t.floor EXCEPT !.stale = @ \cup {e.capture}]
    <3>2. m \in Scopes /\ m # NoScope /\ m.id = t.floor.id /\ m.born = t.floor.born
          /\ m.active = t.floor.active /\ m.excluded = t.floor.excluded
      BY <2>1, <3>1, NotedScope
    <3>3. u = [t EXCEPT !.floor = m]
      BY <1>8, <2>4 DEF Apply, Timings
    <3> HIDE DEF m
    <3>4. u \in Timings
      BY <3>2, <3>3 DEF Timings
    <3>5. SameTimes(u, t)
      BY <3>1, <3>2, <3>3, <1>0 DEF Timings, SameTimes, ScopesExact, ScopeExact
    <3>6. Effect(u, t, e)
      BY <3>1, <3>2, <3>3, <1>8, <1>0 DEF Timings, Effect, SameCounts, SameScope
    <3> QED
      BY <3>4, <3>5, <3>6
  <2> QED
    BY <2>2, <2>3, <2>4 DEF StaleScope
<1>9. CASE e.op \in {"failure", "poll", "deliver", "settle", "close"}
  <2>1. u = t
    BY <1>9 DEF Apply
  <2> QED
    BY <2>1, <1>s, <1>9
<1>10. e.op \in {"begin_move", "set_watchdog", "begin_floor", "rebase_floor", "verified_input", "complete_floor",
                 "pause", "resume", "stale_capture", "failure", "poll", "deliver", "settle", "close"}
  BY DEF Events
<1> QED
  BY <1>1, <1>2, <1>3, <1>4, <1>5, <1>6, <1>7, <1>8, <1>9, <1>10

\* Whether an event is refused does not depend on times.
LEMMA AdvanceRefuses ==
  ASSUME NEW t \in Timings, NEW now \in Instants, NEW e \in Events
  PROVE  /\ Refuses(Advance(t, now), e) <=> Refuses(t, e)
         /\ SameScope(Advance(t, now).move, t.move) /\ SameScope(Advance(t, now).floor, t.floor)
<1> DEFINE u == Advance(t, now)
<1>1. t.move \in Scopes \cup {NoScope} /\ t.floor \in Scopes \cup {NoScope}
  BY DEF Timings
<1>2. SameScope(u.move, t.move) /\ SameScope(u.floor, t.floor)
  BY <1>1, AdvanceForm, ElapsedIsTime, LongerScope DEF SameScope
<1>3. /\ u.moves = t.moves /\ u.floors = t.floors /\ u.verified = t.verified
      /\ u.paused = t.paused /\ u.started = t.started
  BY AdvanceForm
<1> HIDE DEF u
<1>4. StaleScope(u) = StaleScope(t)
  BY <1>2, <1>3 DEF StaleScope, SameScope
<1>5. Refuses(u, e) <=> Refuses(t, e)
  BY <1>2, <1>3, <1>4 DEF Refuses, SameScope
<1> QED
  BY <1>2, <1>5 DEF u

\* One event: refused, or recorded at the time now.
LEMMA After1Keeps ==
  ASSUME NEW t \in Timings, NEW e \in Events, NEW now \in Instants, now.mono = real, real \in Int
  PROVE  LET u == After1(t, e, now)
         IN /\ u \in Timings
            /\ \/ Refuses(t, e) /\ u = t
               \/ /\ ~Refuses(t, e) /\ Effect(u, t, e)
                  /\ u.mono = now.mono /\ u.updated = now.wall /\ u.clock = now.clock
                  /\ SameTimes(u, Advance(t, now))
<1> DEFINE u == After1(t, e, now)
           a == Advance(t, now)
<1>1. CASE Refuses(t, e)
  BY <1>1 DEF After1
<1>2. CASE ~Refuses(t, e)
  <2>1. u = Apply(a, e)
    BY <1>2 DEF After1, Record
  <2>2. /\ a \in Timings /\ a.mono = now.mono /\ a.updated = now.wall /\ a.clock = now.clock
        /\ a.verified = t.verified /\ a.inputs = t.inputs /\ a.moved = t.moved
    BY AdvanceForm
  <2>3. ~Refuses(a, e) /\ SameScope(a.move, t.move) /\ SameScope(a.floor, t.floor)
    BY <1>2, AdvanceRefuses
  <2> HIDE DEF a, u
  <2>4. u \in Timings /\ SameTimes(u, a) /\ Effect(u, a, e)
    BY <2>1, <2>2, <2>3, ApplyKeeps
  <2>5. Effect(u, t, e)
    BY <2>2, <2>3, <2>4 DEF Effect, SameScope, SameCounts
  <2>6. u.mono = now.mono /\ u.updated = now.wall /\ u.clock = now.clock
    BY <2>2, <2>4 DEF SameTimes
  <2> QED
    BY <1>2, <2>4, <2>5, <2>6 DEF u, a
<1> QED
  BY <1>1, <1>2

\* What leaves the times of a report alone leaves the clock exact.
LEMMA SameTimesExact ==
  ASSUME NEW t \in Timings, NEW u \in Timings, NEW z \in Int, SameTimes(u, t), Exact(t, t.mono, z)
  PROVE  Exact(u, t.mono, z)
<1>1. /\ u.mono = t.mono /\ u.active = t.active /\ u.excluded = t.excluded
      /\ u.complete = t.complete /\ u.startup.born = t.startup.born
  BY DEF SameTimes
<1>2. t.mono \in Int
  BY DEF Timings
<1>3. t.excluded = z
  BY <1>2 DEF Exact
<1>4. u.excluded = z - (IF u.paused THEN t.mono - u.mono ELSE 0)
  BY <1>1, <1>2, <1>3
<1>5. ScopesExact(t)
  BY DEF Exact, ScopesExact
<1>6. ScopesExact(u)
  BY <1>5 DEF SameTimes
<1> QED
  BY <1>1, <1>2, <1>4, <1>6 DEF Exact, ScopesExact

\* A report that is measured rightly keeps the clock exact, and what is reported
\* with it is measured rightly, too.
LEMMA After1Exact ==
  ASSUME NEW t \in Timings, NEW e \in Events, NEW now \in Instants, NEW z \in Int, now.mono = real, real \in Int,
         Exact(t, real, z), Measured(t, now)
  PROVE  Exact(After1(t, e, now), real, z) /\ Measured(After1(t, e, now), now)
<1> DEFINE u == After1(t, e, now)
           a == Advance(t, now)
<1>1. u \in Timings /\ a \in Timings /\ a.mono = now.mono
  BY After1Keeps, AdvanceForm
<1>2. CASE u = t
  BY <1>2
<1>3. CASE u.mono = now.mono /\ u.updated = now.wall /\ u.clock = now.clock /\ SameTimes(u, a)
  <2>1. Exact(a, a.mono, z)
    BY <1>1, AdvanceExact
  <2> HIDE DEF a, u
  <2>2. Exact(u, real, z)
    BY <1>1, <1>3, <2>1, SameTimesExact
  <2>3. Measured(u, now)
    BY <1>1, <1>3 DEF Measured, Elapsed, Continuous, Instants
  <2> QED
    BY <2>2, <2>3 DEF u
<1> QED
  BY <1>2, <1>3, After1Keeps

\* poll notes which alerts were told and changes nothing else.
LEMMA PolledKeeps ==
  ASSUME NEW t \in Timings
  PROVE  LET u == Polled(t)
         IN /\ u \in Timings /\ SameTimes(u, t) /\ SameCounts(u, t) /\ u.paused = t.paused
            /\ SameScope(u.move, t.move) /\ SameScope(u.floor, t.floor)
<1> DEFINE u == Polled(t)
<1>1. ASSUME NEW s \in Scopes
      PROVE  LET r == Told(s)
             IN /\ r \in Scopes /\ r # NoScope /\ r.id = s.id /\ r.born = s.born
                /\ r.active = s.active /\ r.excluded = s.excluded
  <2>1. s # NoScope
    BY ClockAssumption
  <2> DEFINE d == s.alerted \cup Due(s)
  <2>2. d \subseteq Alerts
    BY <2>1 DEF Due, Alerts, Scopes
  <2>3. Told(s) = [s EXCEPT !.alerted = d]
    BY <2>1 DEF Told
  <2> HIDE DEF d
  <2>4. Told(s) \in Scopes
    BY <2>2, <2>3 DEF Scopes
  <2> QED
    BY <2>3, <2>4, ClockAssumption DEF Scopes
<1>2. Told(NoScope) = NoScope
  BY DEF Told
<1>3. t.startup \in Scopes /\ t.move \in Scopes \cup {NoScope} /\ t.floor \in Scopes \cup {NoScope}
  BY DEF Timings
<1>4. u = [[[t EXCEPT !.startup = Told(t.startup)] EXCEPT !.move = Told(t.move)] EXCEPT !.floor = Told(t.floor)]
  BY DEF Polled, Timings
<1>5. Told(t.startup) \in Scopes /\ Told(t.move) \in Scopes \cup {NoScope} /\ Told(t.floor) \in Scopes \cup {NoScope}
  BY <1>1, <1>2, <1>3
<1> HIDE DEF u
<1>6. u \in Timings
  BY <1>4, <1>5 DEF Timings
<1>7. /\ u.updated = t.updated /\ u.mono = t.mono /\ u.clock = t.clock
      /\ u.active = t.active /\ u.excluded = t.excluded /\ u.complete = t.complete /\ u.paused = t.paused
      /\ u.startup = Told(t.startup) /\ u.move = Told(t.move) /\ u.floor = Told(t.floor)
      /\ u.verified = t.verified /\ u.inputs = t.inputs /\ u.moved = t.moved
  BY <1>4 DEF Timings
<1>8. SameScope(u.move, t.move) /\ SameScope(u.floor, t.floor)
  BY <1>1, <1>2, <1>3, <1>7 DEF SameScope
<1>9. ScopesExact(t) => ScopesExact(u)
  BY <1>1, <1>2, <1>3, <1>7 DEF ScopesExact, ScopeExact
<1> QED
  BY <1>1, <1>3, <1>6, <1>7, <1>8, <1>9 DEF SameTimes, SameCounts, u

\* A transaction keeps the file a file, leaves it as it was or brings it up to
\* date, and keeps it exact when it measures rightly.
LEMMA AfterKeeps ==
  ASSUME NEW w, w.read \in Timings, w.events \in Seq(Events), Len(w.events) \in {1, 2},
         w.now \in Instants, w.now.mono = real, real \in Int
  PROVE  /\ After(w) \in Timings
         /\ \/ After(w) = w.read /\ \A i \in DOMAIN w.events : w.events[i].op # "poll"
            \/ After(w).mono = real /\ After(w).updated = w.now.wall
         /\ \A z \in Int : Exact(w.read, real, z) /\ Measured(w.read, w.now) => Exact(After(w), real, z)
<1> DEFINE t == After1(w.read, w.events[1], w.now)
           u == After1(t, w.events[2], w.now)
<1>1. w.events[1] \in Events /\ DOMAIN w.events = 1..Len(w.events)
  OBVIOUS
<1>2. /\ t \in Timings
      /\ \/ t = w.read /\ w.events[1].op # "poll"
         \/ t.mono = real /\ t.updated = w.now.wall
  <2>1. w.events[1].op = "poll" => ~Refuses(w.read, w.events[1])
    BY DEF Refuses
  <2> QED
    BY <1>1, <2>1, After1Keeps
<1>3. \A z \in Int : Exact(w.read, real, z) /\ Measured(w.read, w.now) =>
         Exact(t, real, z) /\ Measured(t, w.now)
  BY <1>1, After1Exact
<1>4. CASE Len(w.events) = 1
  <2>1. After(w) = t
    BY <1>4 DEF After
  <2> HIDE DEF t
  <2> QED
    BY <1>1, <1>2, <1>3, <1>4, <2>1
<1>5. CASE Len(w.events) = 2
  <2>1. After(w) = u
    BY <1>5 DEF After
  <2>2. w.events[2] \in Events
    BY <1>5
  <2> HIDE DEF t
  <2>3. w.events[2].op = "poll" => ~Refuses(t, w.events[2])
    BY DEF Refuses
  <2>4. /\ u \in Timings
        /\ \/ u = t /\ w.events[2].op # "poll"
           \/ u.mono = real /\ u.updated = w.now.wall
    BY <1>2, <2>2, <2>3, After1Keeps
  <2>5. \A z \in Int : Exact(t, real, z) /\ Measured(t, w.now) => Exact(u, real, z)
    BY <1>2, <2>2, After1Exact
  <2> HIDE DEF u
  <2> QED
    BY <1>1, <1>2, <1>3, <1>5, <2>1, <2>4, <2>5
<1> QED
  BY <1>4, <1>5

\* A set of places in a list has a first one.
LEMMA FirstOf ==
  ASSUME NEW n \in Nat, NEW S \in SUBSET (1..n), S # {}
  PROVE  Min(S) \in S /\ \A y \in S : Min(S) <= y
<1> DEFINE upto == {1..x : x \in S}
<1>1. upto \subseteq FiniteSubsetsOf(1..n)
  <2> SUFFICES ASSUME NEW x \in S
               PROVE  1..x \in FiniteSubsetsOf(1..n)
    OBVIOUS
  <2>1. x \in 1..n /\ 1..x \subseteq 1..n
    OBVIOUS
  <2>2. IsFiniteSet(1..x)
    BY <2>1, FS_Interval
  <2> QED
    BY <2>1, <2>2 DEF FiniteSubsetsOf
<1>2. PICK s \in upto : \A t \in upto : <<t, s>> \notin StrictSubsetOrdering(1..n)
  <2>1. upto # {}
    OBVIOUS
  <2>2. IsWellFoundedOn(StrictSubsetOrdering(1..n), FiniteSubsetsOf(1..n))
    BY FS_StrictSubsetOrderingWellFounded
  <2> QED
    BY <1>1, <2>1, <2>2, WFMin
<1>3. PICK x \in S : s = 1..x
  BY <1>2
<1>4. ASSUME NEW y \in S, ~(x <= y)
      PROVE  FALSE
  <2>1. x \in 1..n /\ y \in 1..n /\ y < x
    BY <1>4
  <2>2. 1..y \subseteq 1..x /\ x \in 1..x /\ x \notin 1..y
    BY <2>1
  <2>3. 1..x \subseteq 1..n
    BY <2>1
  <2>4. <<1..y, 1..x>> \in StrictSubsetOrdering(1..n)
    BY <2>2, <2>3 DEF StrictSubsetOrdering
  <2> QED
    BY <1>2, <1>3, <1>4, <2>4
<1>5. \E m \in S : \A y \in S : m <= y
  BY <1>4
<1> QED
  BY <1>5 DEF Min

-------------------------------------------------------------------------------
(* The clock is exact *)

\* Opening the file and dying keep what is said of it.
LEMMA ClockInitially == InitClock => FileInv
<1> SUFFICES ASSUME InitClock PROVE FileInv
  OBVIOUS
<1> USE DEF InitClock
<1>1. ClockTypeOK
  BY DEF ClockTypeOK, NoWork, Processes, Players, Histories
<1>2. OneTransaction
  BY DEF OneTransaction, Busy, NoWork
<1> QED
  BY <1>1, <1>2 DEF FileInv, ClockBegun, ClockExact, Opened

\* The items of the adapter's lists are events.
LEMMA PlainEvent ==
  ASSUME NEW op \in {"resume", "pause", "failure", "poll", "deliver", "settle", "close"}
  PROVE  Do(op) \in Events
  BY DEF Do, Events

\* So is the beginning of a move,
LEMMA MoveEvent ==
  ASSUME NEW id \in ScopeIds, NEW class \in Classes \cup {NoScope}
  PROVE  BeginMove(id, class) \in Events
  BY DEF BeginMove, Events

\* the beginning of a floor,
LEMMA FloorEvent ==
  ASSUME NEW n \in Nat, NEW whole \in BOOLEAN
  PROVE  FloorId(n) \in ScopeIds /\ BeginFloor(n, whole) \in Events
<1>1. FloorId(n) \in ScopeIds
  BY DEF FloorId, ScopeIds
<1> QED
  BY <1>1 DEF BeginFloor, Events

\* and a list of such events.
LEMMA SixEvents ==
  ASSUME NEW a \in Events, NEW b \in Events, NEW c \in Events, NEW d \in Events, NEW e \in Events, NEW f \in Events
  PROVE  <<a, b, c, d, e, f>> \in Seq(Events)
  OBVIOUS

\* What finalize has to report is a list of events.
LEMMA FinalTyped ==
  ASSUME ClockTypeOK, NEW k \in Nat, k \in DOMAIN Steps
  PROVE  FinalItems(k) \in Seq(Events)
<1>1. Steps[k].complete \in BOOLEAN
  <2> DEFINE R == [complete : BOOLEAN, up : BOOLEAN, room : STRING, what : STRING]
  <2>1. Steps \in Seq(R)
    BY ClockAssumption
  <2> HIDE DEF R
  <2>2. Steps[k] \in R
    BY <2>1
  <2> QED
    BY <2>2 DEF R
<1>2. Settled(k) \in Events
  BY <1>1 DEF Settled, Events
<1>3. session.floor \in Nat /\ session.floor + 1 \in Nat
  BY DEF ClockTypeOK
<1>4. FloorItems(k) \in Seq(Events)
  <2> DEFINE c == [op |-> "complete_floor", id |-> FloorId(session.floor), to |-> FloorId(session.floor + 1)]
             b == BeginFloor(session.floor + 1, TRUE)
  <2>1. c \in Events
    BY <1>3, FloorEvent DEF Events
  <2>2. b \in Events
    BY <1>3, FloorEvent
  <2>3. FloorItems(k) = IF ~Steps[k].up THEN <<>> ELSE <<c, b>>
    BY DEF FloorItems
  <2> HIDE DEF c, b
  <2> QED
    BY <2>1, <2>2, <2>3
<1>5. NextMove(k) \in Seq(Events)
  <2>1. <<"after", k>> \in ScopeIds
    BY DEF ScopeIds
  <2>2. BeginMove(<<"after", k>>, NoScope) \in Events
    BY <2>1, MoveEvent
  <2> QED
    BY <2>2 DEF NextMove
<1>6. <<Do("resume"), Settled(k)>> \in Seq(Events) /\ <<Do("settle")>> \in Seq(Events)
  BY <1>2, PlainEvent
<1> QED
  BY <1>4, <1>5, <1>6 DEF FinalItems

\* A profile is one of the classes.
LEMMA WatchdogTyped ==
  ASSUME NEW k \in DOMAIN Steps PROVE WatchdogClass(Steps[k]) \in Classes
  BY DEF WatchdogClass, Classes

\* What changes the lists of the adapter and nothing about the file.
LEMMA FileRests ==
  ASSUME FileInv, UNCHANGED <<real, skew, timing, work>>, ClockTypeOK', player'.up => player.up,
         player'.opened = player.opened, history'.rest = history.rest, history'.misled = history.misled,
         history'.jumped = history.jumped
  PROVE  FileInv'
<1> USE DEF FileInv
<1>1. OneTransaction'
  BY DEF OneTransaction, Busy
<1>2. ClockBegun'
  BY DEF ClockBegun, Opened
<1>3. ClockExact'
  BY DEF ClockExact
<1> QED
  BY <1>1, <1>2, <1>3

\* An operation of the adapter begins.
LEMMA OperationKeeps ==
  ASSUME FileInv, PendingIsNext,
         ArmPlayer \/ PrepareStep \/ FinalizeStep \/ OperationFails \/ PollClock \/ OperatorReports \/ StopPlayer
  PROVE  FileInv'
<1> USE DEF FileInv
<1>0. /\ ClockTypeOK /\ player.opened \in Nat /\ session.floor \in Nat /\ session.settled \in Nat
      /\ history \in Histories
  BY DEF ClockTypeOK, Players
<1>t. ASSUME NEW items \in Seq(Events), Begins(items), UNCHANGED <<real, skew, timing, work, session>>,
             history' \in Histories,
             history'.rest = history.rest, history'.misled = history.misled, history'.jumped = history.jumped
      PROVE  FileInv'
  <2>1. player' = [player EXCEPT !.todo = items]
    BY <1>t DEF Begins
  <2>2. player' \in Players
        /\ player'.up = player.up /\ player'.opened = player.opened
    BY <1>0, <1>t, <2>1 DEF ClockTypeOK, Players
  <2>3. ClockTypeOK'
    BY <1>0, <1>t, <2>2 DEF ClockTypeOK
  <2> QED
    BY <1>t, <2>2, <2>3, FileRests
<1>1. CASE ArmPlayer
  <2> DEFINE items == <<Do("resume"), BeginMove(<<"arm", player.opened>>, NoScope)>>
  <2>1. <<"arm", player.opened>> \in ScopeIds
    BY <1>0 DEF ScopeIds
  <2>2. items \in Seq(Events)
    BY <2>1, PlainEvent, MoveEvent
  <2>3. player' = [player EXCEPT !.armed = TRUE, !.todo = items]
    BY <1>1 DEF ArmPlayer
  <2> HIDE DEF items
  <2>4. player' \in Players
        /\ player'.up = player.up /\ player'.opened = player.opened
    BY <1>0, <2>2, <2>3 DEF ClockTypeOK, Players
  <2>5. UNCHANGED <<real, skew, timing, work, session, history>>
    BY <1>1 DEF ArmPlayer
  <2>6. ClockTypeOK'
    BY <1>0, <2>4, <2>5 DEF ClockTypeOK
  <2> QED
    BY <2>4, <2>5, <2>6, FileRests
<1>2. CASE PrepareStep
  <2> DEFINE k == session.settled + 1
             class == WatchdogClass(Steps[k])
             rebase == [op |-> "rebase_floor", id |-> FloorId(session.floor)]
             watchdog == [op |-> "set_watchdog", class |-> class]
             move == BeginMove(<<"decision", k, player.opened>>, class)
  <2>1. k \in DOMAIN Steps /\ k \in Nat
    BY <1>0, <1>2, ClockAssumption DEF PrepareStep
  <2>2. class \in Classes
    BY <2>1, WatchdogTyped
  <2>3. <<"decision", k, player.opened>> \in ScopeIds
    BY <1>0, <2>1 DEF ScopeIds
  <2>4. rebase \in Events
    BY <1>0, FloorEvent DEF Events
  <2>5. watchdog \in Events
    BY <2>2 DEF Events
  <2>6. move \in Events
    BY <2>2, <2>3, MoveEvent
  <2>7. BeginFloor(session.floor, FALSE) \in Events
    BY <1>0, FloorEvent
  <2> DEFINE items == <<Do("resume"), rebase, BeginFloor(session.floor, FALSE), watchdog, move, Do("deliver")>>
  <2>8. Begins(items) /\ UNCHANGED <<real, skew, timing, work, session, history>>
    BY <1>2 DEF PrepareStep
  <2>9. Do("resume") \in Events /\ Do("deliver") \in Events
    BY PlainEvent
  <2> HIDE DEF rebase, watchdog, move
  <2>10. items \in Seq(Events)
    BY <2>4, <2>5, <2>6, <2>7, <2>9, SixEvents
  <2> QED
    BY <1>0, <1>t, <2>8, <2>10
<1>3. CASE FinalizeStep
  <2>1. session.pending \in Nat /\ session.pending \in DOMAIN Steps
    BY <1>0, <1>3 DEF FinalizeStep, ClockTypeOK, PendingIsNext, Pending
  <2>2. FinalItems(session.pending) \in Seq(Events)
    BY <2>1, FinalTyped
  <2> QED
    BY <1>0, <1>3, <1>t, <2>2 DEF FinalizeStep
<1>4. CASE OperationFails
  <2>1. PICK c \in Captures \ history.captures :
          /\ Begins(<<Do("resume"), Do("failure"), [op |-> "stale_capture", capture |-> c]>>)
          /\ history' = [history EXCEPT !.captures = @ \cup {c}]
    BY <1>4 DEF OperationFails
  <2> DEFINE stale == [op |-> "stale_capture", capture |-> c]
  <2>2. stale \in Events
    BY DEF Events
  <2> HIDE DEF stale
  <2>3. <<Do("resume"), Do("failure"), stale>> \in Seq(Events)
    BY <2>2, PlainEvent
  <2>4. Begins(<<Do("resume"), Do("failure"), stale>>)
    BY <2>1 DEF stale
  <2>5. UNCHANGED <<real, skew, timing, work, session>>
    BY <1>4 DEF OperationFails
  <2>6. /\ history' \in Histories
        /\ history'.rest = history.rest /\ history'.misled = history.misled /\ history'.jumped = history.jumped
    BY <1>0, <2>1 DEF Histories
  <2> QED
    BY <1>t, <2>3, <2>4, <2>5, <2>6
<1>5. CASE PollClock
  <2>1. <<Do("poll")>> \in Seq(Events)
    BY PlainEvent
  <2> QED
    BY <1>0, <1>5, <1>t, <2>1 DEF PollClock
<1>6. CASE OperatorReports
  <2>1. PICK e \in {Do("pause"), BeginMove(OperatorsMove, NoScope)} :
          Begins(<<e>>) /\ history' = [history EXCEPT !.meddled = e.op]
    BY <1>6 DEF OperatorReports
  <2>2. OperatorsMove \in ScopeIds
    BY DEF OperatorsMove, ScopeIds
  <2>3. e \in Events /\ e.op \in {"pause", "begin_move"}
    BY <2>1, <2>2, PlainEvent, MoveEvent DEF Do, BeginMove
  <2>4. <<e>> \in Seq(Events)
    BY <2>3
  <2>5. UNCHANGED <<real, skew, timing, work, session>>
    BY <1>6 DEF OperatorReports
  <2>6. /\ history' \in Histories
        /\ history'.rest = history.rest /\ history'.misled = history.misled /\ history'.jumped = history.jumped
    BY <1>0, <2>1, <2>3 DEF Histories
  <2> QED
    BY <1>t, <2>1, <2>4, <2>5, <2>6
<1>7. CASE StopPlayer
  <2>1. <<Do("pause"), Do("close")>> \in Seq(Events)
    BY PlainEvent
  <2> QED
    BY <1>0, <1>7, <1>t, <2>1 DEF StopPlayer
<1> QED
  BY <1>1, <1>2, <1>3, <1>4, <1>5, <1>6, <1>7

\* __init__: a file that is there is taken as it is.
LEMMA OpenKeeps == ASSUME ClockInv, OpenPlayer PROVE FileInv'
<1> USE DEF ClockInv, FileInv
<1>h. history \in Histories
  BY DEF ClockTypeOK
<1>0. ClockTypeOK /\ ~player.up /\ player.opened \in Nat /\ real \in Int /\ UNCHANGED <<real, skew, work, session>>
  BY DEF ClockTypeOK, OpenPlayer, Players
<1> DEFINE items == IF timing # NoScope /\ timing.paused THEN <<Do("resume")>> ELSE <<>>
<1>1. items \in Seq(Events)
  BY PlainEvent
<1> HIDE DEF items
<1>2. \E b \in BOOLEAN : player' = [up |-> TRUE, opened |-> player.opened + 1, armed |-> FALSE, rebase |-> b, todo |-> items]
  BY DEF OpenPlayer, items
<1>3. /\ player' \in Players
      /\ player'.opened = player.opened + 1 /\ player'.opened > 0
  BY <1>0, <1>1, <1>2 DEF Players
<1> DEFINE still == history.jumped /\ timing # NoScope
           rested == IF timing = NoScope THEN 0 ELSE history.rest
<1>4. history' = [history EXCEPT !.jumped = still, !.rest = rested]
  BY DEF OpenPlayer
<1>i. still \in BOOLEAN /\ rested \in Int
  BY <1>h DEF Histories
<1> HIDE DEF still, rested
<1>5. /\ history' \in Histories
      /\ history'.misled = history.misled /\ history'.jumped = still /\ history'.rest = rested
  BY <1>4, <1>h, <1>i DEF Histories
<1> USE DEF still, rested
<1>6. \A p \in Processes : ~Busy(p) /\ ~Busy(p)'
  BY <1>0 DEF OpenPlayer, Unlocked, Busy
<1>7. CASE timing # NoScope
  <2>1. timing' = timing
    BY <1>7 DEF OpenPlayer
  <2>2. ClockTypeOK'
    BY <1>0, <1>3, <1>5, <2>1 DEF ClockTypeOK
  <2> QED
    BY <1>0, <1>3, <1>5, <1>6, <1>7, <2>1, <2>2 DEF OneTransaction, ClockBegun, ClockExact, Opened
<1>8. CASE timing = NoScope
  <2> DEFINE s == Scope(<<"startup">>, "startup", FALSE)
  <2>1. s \in Scopes /\ s.born = real
    BY <1>0, NewScope DEF ScopeIds
  <2> HIDE DEF s
  <2>2. timing' = [updated |-> real + skew, mono |-> real, clock |-> player.opened + 1,
           active |-> 0, excluded |-> 0, paused |-> FALSE, complete |-> TRUE,
           startup |-> s, started |-> FALSE, move |-> NoScope, floor |-> NoScope,
           moves |-> <<>>, floors |-> <<>>, verified |-> <<>>, inputs |-> 0, moved |-> 0]
    BY <1>8 DEF OpenPlayer, NewTiming, s
  <2>3. timing' \in Timings
    BY <1>0, <2>1, <2>2 DEF Timings, ClockTypeOK
  <2>4. timing' # NoScope
    BY <2>3, ClockAssumption
  <2>5. ClockTypeOK'
    BY <1>0, <1>3, <1>5, <2>3 DEF ClockTypeOK
  <2>6. ClockExact'
    BY <1>0, <1>5, <1>8, <2>1, <2>2 DEF ClockExact, Exact
  <2> QED
    BY <1>3, <1>6, <2>4, <2>5, <2>6 DEF OneTransaction, ClockBegun, Opened
<1> QED
  BY <1>7, <1>8

\* A process that dies leaves the file as it is.
LEMMA DeathKeeps == ASSUME ClockInv, CrashPlayer \/ HelperDies PROVE FileInv'
<1> USE DEF ClockInv, FileInv
<1>1. \E p \in Processes : work' = [work EXCEPT ![p] = NoWork]
  BY DEF CrashPlayer, HelperDies, Processes
<1>2. PICK p \in Processes : work' = [work EXCEPT ![p] = NoWork]
  BY <1>1
<1>3. UNCHANGED <<real, skew, timing, session, history>>
  BY DEF CrashPlayer, HelperDies
<1>4. /\ player' \in Players
      /\ player'.opened = player.opened /\ (player'.up => player.up)
  <2>1. player \in Players /\ (player' = player \/ player' = [player EXCEPT !.up = FALSE, !.armed = FALSE, !.todo = <<>>])
    BY DEF ClockTypeOK, CrashPlayer, HelperDies
  <2>2. CASE player' = player
    BY <2>1, <2>2
  <2>3. CASE player' = [player EXCEPT !.up = FALSE, !.armed = FALSE, !.todo = <<>>]
    <3> DEFINE none == <<>>
               q == [player EXCEPT !.up = FALSE, !.armed = FALSE, !.todo = none]
    <3>0. none \in Seq(Events)
      OBVIOUS
    <3>2. player' = q
      BY <2>3
    <3> HIDE DEF none
    <3>1. q \in Players /\ q.opened = player.opened /\ ~q.up
      BY <2>1, <3>0 DEF Players
    <3> HIDE DEF q
    <3> QED
      BY <3>1, <3>2
  <2> QED
    BY <2>1, <2>2, <2>3
<1>5. NoWork \in [read : Timings \cup {NoScope}, events : Seq(Events), now : Instants \cup {NoScope}]
  BY DEF NoWork
<1>6. ClockTypeOK'
  BY <1>2, <1>3, <1>4, <1>5 DEF ClockTypeOK
<1>7. \A q \in Processes : Busy(q)' => Busy(q) /\ work'[q] = work[q]
  BY <1>2 DEF Busy, NoWork, ClockTypeOK
<1>8. OneTransaction'
  BY <1>3, <1>7 DEF OneTransaction
<1> QED
  BY <1>3, <1>4, <1>6, <1>8 DEF ClockBegun, ClockExact, Opened

\* A second that passes is accounted for by the next report.
LEMMA TimeKeeps == ASSUME ClockInv, SecondPasses \/ SetWallClock PROVE FileInv'
<1> USE DEF ClockInv, FileInv
<1>1. \A p \in Processes : ~Busy(p) /\ ~Busy(p)'
  BY DEF SecondPasses, SetWallClock, Quiet, Unlocked, Busy
<1>2. OneTransaction'
  BY <1>1 DEF OneTransaction
<1>3. UNCHANGED <<timing, work, player, session>>
  BY DEF SecondPasses, SetWallClock
<1>4. ClockBegun'
  BY <1>3 DEF ClockBegun, Opened
<1>h. history \in Histories /\ real \in Nat
  BY DEF ClockTypeOK
<1>5. CASE SecondPasses
  <2>1. /\ real' = real + 1 /\ skew' = skew /\ timing \in Timings
        /\ history' = [history EXCEPT !.rest = IF timing.paused THEN @ + 1 ELSE @]
    BY <1>5 DEF SecondPasses, ClockTypeOK
  <2>2. /\ history' \in Histories
        /\ history'.misled = history.misled /\ history'.jumped = history.jumped
        /\ history'.rest = (IF timing.paused THEN history.rest + 1 ELSE history.rest)
    BY <2>1, <1>h DEF Histories
  <2>3. ClockTypeOK'
    BY <1>3, <1>h, <2>1, <2>2 DEF ClockTypeOK
  <2>4. ASSUME Exact(timing, real, history.rest) PROVE Exact(timing, real + 1, history'.rest)
    <3>1. real \in Int /\ timing.mono \in Int /\ timing.excluded \in Int /\ history.rest \in Int
      BY <2>1, <1>h DEF Timings, Histories
    <3> QED
      BY <2>4, <2>2, <3>1 DEF Exact
  <2>5. ClockExact'
    BY <1>3, <2>1, <2>2, <2>4 DEF ClockExact
  <2> QED
    BY <1>2, <1>4, <2>3, <2>5
<1>6. CASE SetWallClock
  <2>1. real' = real /\ skew' \in Int /\ history' = [history EXCEPT !.jumped = TRUE]
    BY <1>6, ClockAssumption DEF SetWallClock
  <2>2. /\ history' \in Histories
        /\ history'.misled = history.misled /\ history'.jumped /\ history'.rest = history.rest
    BY <2>1, <1>h DEF Histories
  <2>3. ClockTypeOK'
    BY <1>3, <1>h, <2>1, <2>2 DEF ClockTypeOK
  <2>4. ClockExact'
    BY <1>3, <2>1, <2>2 DEF ClockExact
  <2> QED
    BY <1>2, <1>4, <2>3, <2>4
<1> QED
  BY <1>5, <1>6

\* A report is made of the item itself or not at all.
LEMMA ReportOf == ASSUME NEW t, NEW item PROVE Report(t, item) \in {<<item>>, <<>>}
  BY DEF Report

\* Opening a transaction, by either process.
LEMMA EnterKeeps ==
  ASSUME ClockInv, NEW p \in Processes, NEW events \in Seq(Events), Len(events) \in {1, 2}, Enter(p, events),
         timing # NoScope, UNCHANGED <<real, skew, timing, session>>, player' \in Players, history' \in Histories,
         player'.opened = player.opened, player'.up => player.up,
         history'.rest = history.rest, history'.misled = history.misled, history'.jumped = history.jumped
  PROVE  FileInv'
<1> USE DEF ClockInv, FileInv
<1>0. timing \in Timings /\ real \in Nat /\ skew \in Int /\ player \in Players /\ history \in Histories
  BY DEF ClockTypeOK
<1>1. Now(p) \in Instants /\ Now(p).mono = real /\ Now(p).wall = real + skew
  <2>1. ClockOf(p) \in Nat
    BY <1>0 DEF ClockOf, Players, Histories
  <2> QED
    BY <1>0, <2>1 DEF Now, Instants
<1> DEFINE w == [read |-> timing, events |-> events, now |-> Now(p)]
<1>3. work' = [work EXCEPT ![p] = w] /\ \A q \in Processes : ~Busy(q)
  BY DEF Enter, Unlocked
<1>4. /\ w \in [read : Timings \cup {NoScope}, events : Seq(Events), now : Instants \cup {NoScope}]
      /\ w.read = timing /\ w.events = events /\ w.now = Now(p)
  BY <1>0, <1>1
<1> HIDE DEF w
<1>5. ClockTypeOK'
  BY <1>0, <1>3, <1>4 DEF ClockTypeOK
<1>6. work'[p] = w /\ \A q \in Processes : q # p => ~Busy(q)'
  BY <1>3 DEF Busy, ClockTypeOK
<1>7. OneTransaction'
  BY <1>1, <1>4, <1>6 DEF OneTransaction, Busy
<1> QED
  BY <1>5, <1>7 DEF ClockBegun, ClockExact, Opened

\* _timing_event: the items before the next that does something are passed over.
LEMMA NextReportIs ==
  ASSUME ClockTypeOK, NextReport
  PROVE  \E i \in DOMAIN player.todo :
           LET item == player.todo[i]
           IN /\ \A j \in 1..(i - 1) : Idles(player.todo[j])
              /\ player' \in Players /\ player'.opened = player.opened /\ (player'.up => player.up)
              /\ player'.todo = SubSeq(player.todo, i + 1, Len(player.todo))
              /\ UNCHANGED <<real, skew, timing, history>>
              /\ \/ /\ item.op = "deliver" /\ UNCHANGED work
                    /\ session' = [session EXCEPT !.pending = session.settled + 1]
                 \/ /\ item.op = "settle" /\ UNCHANGED work
                    /\ session' = [settled |-> session.pending, pending |-> NoScope,
                              floor |-> IF Steps[session.pending].up THEN session.floor + 1 ELSE session.floor]
                 \/ (item.op = "close" \/ Idles(item)) /\ UNCHANGED <<session, work>>
                 \/ /\ ~Idles(item) /\ item.op \notin {"deliver", "settle", "close"}
                    /\ Enter("player", <<item>>) /\ UNCHANGED session
<1> DEFINE todo == player.todo
           n == Len(todo)
           effective == {i \in DOMAIN todo : ~Idles(todo[i])}
           i == IF effective = {} THEN n ELSE Min(effective)
           item == todo[i]
<1>0. player \in Players /\ todo \in Seq(Events) /\ n \in Nat /\ DOMAIN todo = 1..n /\ n > 0 /\ player.up
  BY DEF ClockTypeOK, Players, NextReport
<1>1. i \in 1..n /\ \A j \in 1..(i - 1) : Idles(todo[j])
  <2>1. CASE effective = {}
    BY <1>0, <2>1
  <2>2. CASE effective # {}
    <3>1. effective \in SUBSET (1..n)
      BY <1>0
    <3> HIDE DEF n
    <3>2. Min(effective) \in effective /\ \A y \in effective : Min(effective) <= y
      BY <1>0, <2>2, <3>1, FirstOf
    <3>3. i = Min(effective)
      BY <2>2
    <3>4. \A j \in 1..n : j \notin effective => Idles(todo[j])
      BY <1>0
    <3> HIDE DEF i, effective
    <3>5. i \in 1..n /\ \A y \in effective : i <= y
      BY <3>1, <3>2, <3>3
    <3>6. ASSUME NEW j \in 1..(i - 1) PROVE Idles(todo[j])
      <4>1. j \in 1..n /\ j < i /\ j \in Int /\ i \in Int
        BY <1>0, <3>5
      <4>2. j \notin effective
        BY <3>5, <4>1
      <4> QED
        BY <3>4, <4>1, <4>2
    <3> QED
      BY <3>5, <3>6
  <2> QED
    BY <2>1, <2>2
<1> DEFINE after == SubSeq(todo, i + 1, n)
           same == player.rebase /\ \A j \in 1..i : todo[j].op # "rebase_floor"
           rest == [player EXCEPT !.todo = after, !.rebase = same]
           closed == [rest EXCEPT !.up = FALSE, !.armed = FALSE]
<1>2. NextReport => 
        /\ CASE item.op = "deliver" ->
               /\ session' = [session EXCEPT !.pending = session.settled + 1]
               /\ player' = rest /\ UNCHANGED work
          [] item.op = "settle" ->
               /\ session' = [settled |-> session.pending, pending |-> NoScope,
                              floor |-> IF Steps[session.pending].up THEN session.floor + 1 ELSE session.floor]
               /\ player' = rest /\ UNCHANGED work
          [] item.op = "close" ->
               /\ player' = closed /\ UNCHANGED <<session, work>>
          [] OTHER ->
               /\ IF Idles(item) THEN UNCHANGED work ELSE Enter("player", Report(timing, item))
               /\ player' = rest /\ UNCHANGED session
        /\ UNCHANGED <<real, skew, timing, history>>
  BY DEF NextReport
<1> HIDE DEF i, effective
<1>3. after \in Seq(Events)
  BY <1>0, <1>1
<1>4. same \in BOOLEAN
  BY <1>0 DEF Players
<1> HIDE DEF after, same, n
<1>5. rest \in Players /\ rest.opened = player.opened /\ rest.todo = after
  BY <1>0, <1>3, <1>4 DEF Players
<1> HIDE DEF rest
<1>6. closed \in Players /\ closed.opened = player.opened /\ closed.todo = after /\ ~closed.up
  BY <1>5 DEF Players
<1> HIDE DEF closed
<1>7. /\ player' \in Players /\ player'.opened = player.opened
      /\ player'.todo = after /\ UNCHANGED <<real, skew, timing, history>>
  BY <1>2, <1>5, <1>6
<1>8. ~Idles(item) /\ item.op \notin {"deliver", "settle", "close"} => Report(timing, item) = <<item>>
  BY ReportOf DEF Idles
<1> HIDE DEF item
<1>9. \/ /\ item.op = "deliver" /\ UNCHANGED work
         /\ session' = [session EXCEPT !.pending = session.settled + 1]
      \/ /\ item.op = "settle" /\ UNCHANGED work
         /\ session' = [settled |-> session.pending, pending |-> NoScope,
                              floor |-> IF Steps[session.pending].up THEN session.floor + 1 ELSE session.floor]
      \/ (item.op = "close" \/ Idles(item)) /\ UNCHANGED <<session, work>>
      \/ /\ ~Idles(item) /\ item.op \notin {"deliver", "settle", "close"}
         /\ Enter("player", <<item>>) /\ UNCHANGED session
  BY <1>2, <1>8
<1> QED
  BY <1>0, <1>1, <1>7, <1>9 DEF after, item, n

\* The next report opens a transaction on the file as it is, or changes state.json.
LEMMA NextReportKeeps == ASSUME ClockInv, NextReport PROVE FileInv'
<1> USE DEF ClockInv, FileInv
<1>0. ClockTypeOK /\ session \in [settled : Nat, pending : Nat \cup {NoScope}, floor : Nat]
      /\ player \in Players /\ history \in Histories /\ player.up
  BY DEF ClockTypeOK, NextReport
<1>1. PICK i \in DOMAIN player.todo :
         LET item == player.todo[i]
         IN /\ player' \in Players /\ player'.opened = player.opened /\ (player'.up => player.up)
            /\ UNCHANGED <<real, skew, timing, history>>
            /\ \/ /\ item.op = "deliver" /\ UNCHANGED work
                  /\ session' = [session EXCEPT !.pending = session.settled + 1]
               \/ /\ item.op = "settle" /\ UNCHANGED work
                  /\ session' = [settled |-> session.pending, pending |-> NoScope,
                              floor |-> IF Steps[session.pending].up THEN session.floor + 1 ELSE session.floor]
               \/ UNCHANGED <<session, work>>
               \/ Enter("player", <<item>>) /\ UNCHANGED session
  BY <1>0, NextReportIs
<1> DEFINE item == player.todo[i]
<1>2. item \in Events /\ AboutPending(item)
  BY <1>0 DEF Players, Agenda
<1> HIDE DEF item
<1>3. ASSUME UNCHANGED work, session' \in [settled : Nat, pending : Nat \cup {NoScope}, floor : Nat] PROVE FileInv'
  <2>1. ClockTypeOK'
    BY <1>0, <1>1, <1>3 DEF ClockTypeOK
  <2> QED
    BY <1>1, <1>3, <2>1, FileRests
<1>4. CASE item.op = "deliver" /\ UNCHANGED work /\ session' = [session EXCEPT !.pending = session.settled + 1]
  <2>1. session' \in [settled : Nat, pending : Nat \cup {NoScope}, floor : Nat]
    BY <1>0, <1>4
  <2> QED
    BY <1>3, <1>4, <2>1
<1>5. CASE item.op = "settle" /\ UNCHANGED work
           /\ session' = [settled |-> session.pending, pending |-> NoScope,
                              floor |-> IF Steps[session.pending].up THEN session.floor + 1 ELSE session.floor]
  <2>1. session.pending \in Nat
    BY <1>0, <1>2, <1>5 DEF AboutPending, Pending
  <2>2. session' \in [settled : Nat, pending : Nat \cup {NoScope}, floor : Nat]
    BY <1>0, <1>5, <2>1
  <2> QED
    BY <1>3, <1>5, <2>2
<1>6. CASE UNCHANGED <<session, work>>
  BY <1>0, <1>3, <1>6
<1>7. CASE Enter("player", <<item>>) /\ UNCHANGED session
  <2>1. timing # NoScope
    BY <1>0 DEF ClockBegun
  <2>2. <<item>> \in Seq(Events) /\ Len(<<item>>) \in {1, 2} /\ "player" \in Processes
    BY <1>2 DEF Processes
  <2> QED
    BY <1>0, <1>1, <1>7, <2>1, <2>2, EnterKeeps
<1> QED
  BY <1>1, <1>4, <1>5, <1>6, <1>7 DEF item

\* record_helper_failure: one or two events, neither of which is about inputs.
LEMMA HelperEnters ==
  ASSUME ClockTypeOK, HelperFails
  PROVE  \E events \in Seq(Events) :
           /\ Len(events) \in {1, 2} /\ \A i \in DOMAIN events : events[i].op \in {"failure", "stale_capture"}
           /\ Enter("helper", events)
<1>1. PICK c \in (Captures \ history.captures) \cup {NoScope} :
        LET stale == [op |-> "stale_capture", capture |-> c]
        IN Enter("helper", IF c = NoScope \/ Refuses(timing, stale) THEN <<Do("failure")>>
                           ELSE <<Do("failure"), stale>>)
  BY DEF HelperFails
<1> DEFINE f == Do("failure")
           s == [op |-> "stale_capture", capture |-> c]
<1>2. f \in Events /\ f.op = "failure"
  BY PlainEvent DEF Do
<1>3. s.op = "stale_capture" /\ (c # NoScope => s \in Events)
  BY DEF Events
<1>4. Enter("helper", IF c = NoScope \/ Refuses(timing, s) THEN <<f>> ELSE <<f, s>>)
  BY <1>1
<1> HIDE DEF f, s
<1>5. CASE c = NoScope \/ Refuses(timing, s)
  <2>1. <<f>> \in Seq(Events)
    BY <1>2
  <2>2. Enter("helper", <<f>>)
    BY <1>4, <1>5
  <2>3. Len(<<f>>) = 1 /\ \A i \in DOMAIN <<f>> : <<f>>[i].op \in {"failure", "stale_capture"}
    BY <1>2
  <2> QED
    BY <2>1, <2>2, <2>3
<1>6. CASE ~(c = NoScope \/ Refuses(timing, s))
  <2>0. s \in Events
    BY <1>3, <1>6
  <2>1. <<f, s>> \in Seq(Events)
    BY <1>2, <2>0
  <2>2. Enter("helper", <<f, s>>)
    BY <1>4, <1>6
  <2>3. Len(<<f, s>>) = 2 /\ \A i \in DOMAIN <<f, s>> : <<f, s>>[i].op \in {"failure", "stale_capture"}
    BY <1>2, <1>3
  <2> QED
    BY <2>1, <2>2, <2>3
<1> QED
  BY <1>5, <1>6

\* A helper's transaction begins on the file as it is.
LEMMA HelperKeeps == ASSUME ClockInv, HelperFails PROVE FileInv'
<1>0. ClockTypeOK /\ player \in Players /\ history \in Histories
  BY DEF ClockInv, FileInv, ClockTypeOK
<1>1. PICK events \in Seq(Events) : Len(events) \in {1, 2} /\ Enter("helper", events)
  BY <1>0, HelperEnters
<1>2. timing # NoScope /\ UNCHANGED <<real, skew, timing, player, session>>
      /\ history' = [history EXCEPT !.helped = @ + 1]
  BY DEF HelperFails
<1>3. /\ history' \in Histories /\ history'.rest = history.rest /\ history'.misled = history.misled
      /\ history'.jumped = history.jumped
  BY <1>0, <1>2 DEF Histories
<1> QED
  BY <1>0, <1>1, <1>2, <1>3, EnterKeeps DEF Processes

\* Closing a transaction: what is written, and what is noted of it.
Written(p) ==
  IF \E i \in DOMAIN work[p].events : work[p].events[i].op = "poll" THEN Polled(After(work[p])) ELSE After(work[p])
Inputs(p) ==
  {work[p].events[i].action : i \in {i \in DOMAIN work[p].events : work[p].events[i].op = "verified_input"}}

\* What a transaction leaves behind.
LEMMA LeaveIs ==
  ASSUME FileInv, NEW p \in Processes, Leave(p)
  PROVE  /\ Busy(p) /\ work[p].read = timing /\ timing \in Timings
         /\ work[p].events \in Seq(Events) /\ Len(work[p].events) \in {1, 2} /\ work[p].now \in Instants
         /\ work[p].now.mono = real /\ work[p].now.wall = real + skew /\ real \in Int /\ skew \in Int
         /\ timing' = Written(p) /\ timing' \in Timings /\ timing' # NoScope
         /\ work' = [work EXCEPT ![p] = NoWork] /\ \A q \in Processes : ~Busy(q)'
         /\ history' \in Histories /\ history'.rest = history.rest
         /\ history'.misled = (history.misled \/ (history.jumped /\ timing' # timing /\ ~Continuous(timing, work[p].now)))
         /\ history'.jumped = (history.jumped /\ timing' = timing)
         /\ history'.reported =
              history.reported \cup {a \in Inputs(p) : \E i \in DOMAIN After(work[p]).verified : After(work[p]).verified[i] = a}
         /\ history'.meddled = history.meddled
         /\ UNCHANGED <<real, skew, player, session>>
<1> DEFINE w == work[p]
<1>0. /\ work \in [Processes -> [read : Timings \cup {NoScope}, events : Seq(Events), now : Instants \cup {NoScope}]]
      /\ timing \in Timings \cup {NoScope} /\ history \in Histories /\ real \in Int /\ skew \in Int
  BY DEF FileInv, ClockTypeOK
<1>1. /\ Busy(p) /\ w.read = timing /\ timing \in Timings /\ w.events \in Seq(Events) /\ Len(w.events) \in {1, 2}
      /\ w.now \in Instants /\ w.now.mono = real /\ w.now.wall = real + skew
  BY <1>0 DEF Leave, FileInv, OneTransaction
<1>2. After(w) \in Timings
  BY <1>0, <1>1, AfterKeeps
<1>3. Written(p) \in Timings
  BY <1>2, PolledKeeps DEF Written
<1>4. timing' = Written(p) /\ work' = [work EXCEPT ![p] = NoWork] /\ UNCHANGED <<real, skew, player, session>>
  BY DEF Leave, Written
<1>5. \A q \in Processes : ~Busy(q)'
  <2>1. \A q \in Processes : q # p => ~Busy(q)
    BY <1>1 DEF FileInv, OneTransaction
  <2> QED
    BY <1>0, <1>4, <2>1 DEF Busy, NoWork
<1> DEFINE misled == history.misled \/ (history.jumped /\ timing' # timing /\ ~Continuous(timing, w.now))
           jumped == history.jumped /\ timing' = timing
           reported == history.reported
             \cup {a \in Inputs(p) : \E i \in DOMAIN After(w).verified : After(w).verified[i] = a}
<1>6. Inputs(p) \subseteq Nat
  <2> SUFFICES ASSUME NEW i \in DOMAIN w.events, w.events[i].op = "verified_input"
               PROVE  w.events[i].action \in Nat
    BY DEF Inputs
  <2>1. w.events[i] \in Events
    BY <1>1
  <2> QED
    BY <2>1 DEF Events
<1>7. history' = [history EXCEPT !.misled = misled, !.jumped = jumped, !.reported = reported]
  <2>1. \A a : a \in ToSet(After(w).verified) <=> \E i \in DOMAIN After(w).verified : After(w).verified[i] = a
    BY DEF ToSet
  <2>2. history' = [history EXCEPT
          !.misled = @ \/ (history.jumped /\ Written(p) # timing /\ ~Continuous(timing, w.now)),
          !.jumped = @ /\ Written(p) = timing,
          !.reported = @ \cup {a \in Inputs(p) : a \in ToSet(After(w).verified)}]
    BY <1>1 DEF Leave, Written, Inputs
  <2>3. {a \in Inputs(p) : a \in ToSet(After(w).verified)}
          = {a \in Inputs(p) : \E i \in DOMAIN After(w).verified : After(w).verified[i] = a}
    BY <2>1
  <2> QED
    BY <1>4, <2>2, <2>3
<1>8. misled \in BOOLEAN /\ jumped \in BOOLEAN /\ reported \subseteq Nat
  BY <1>0, <1>6 DEF Histories
<1> HIDE DEF misled, jumped, reported
<1>9. /\ history' \in Histories /\ history'.rest = history.rest /\ history'.misled = misled
      /\ history'.jumped = jumped /\ history'.reported = reported /\ history'.meddled = history.meddled
  BY <1>0, <1>7, <1>8 DEF Histories
<1>10. timing' # NoScope
  BY <1>3, <1>4, ClockAssumption
<1> QED
  BY <1>0, <1>1, <1>3, <1>4, <1>5, <1>9, <1>10 DEF misled, jumped, reported

\* A transaction that ends keeps the file exact, if it measures rightly.
LEMMA LeaveKeeps == ASSUME ClockInv, NEW p \in Processes, Leave(p) PROVE FileInv'
<1> DEFINE w == work[p]
           t == After(w)
<1>0. FileInv /\ ClockTypeOK /\ ClockExact
  BY DEF ClockInv, FileInv
<1>1. /\ Busy(p) /\ w.read = timing /\ timing \in Timings
      /\ w.events \in Seq(Events) /\ Len(w.events) \in {1, 2} /\ w.now \in Instants
      /\ w.now.mono = real /\ w.now.wall = real + skew /\ real \in Int /\ skew \in Int
      /\ timing' = Written(p) /\ timing' \in Timings /\ timing' # NoScope
      /\ work' = [work EXCEPT ![p] = NoWork] /\ \A q \in Processes : ~Busy(q)'
      /\ history' \in Histories /\ history'.rest = history.rest
      /\ history'.misled = (history.misled \/ (history.jumped /\ timing' # timing /\ ~Continuous(timing, w.now)))
      /\ history'.jumped = (history.jumped /\ timing' = timing)
      /\ UNCHANGED <<real, skew, player, session>>
  BY <1>0, LeaveIs
<1>2. ClockTypeOK'
  <2>1. NoWork \in [read : Timings \cup {NoScope}, events : Seq(Events), now : Instants \cup {NoScope}]
    BY DEF NoWork
  <2> QED
    BY <1>0, <1>1, <2>1 DEF ClockTypeOK
<1>3. OneTransaction'
  BY <1>1 DEF OneTransaction
<1>4. ClockBegun'
  BY <1>0, <1>1, ClockAssumption DEF FileInv, ClockBegun, Opened
<1>5. /\ t \in Timings
      /\ \/ t = timing /\ \A i \in DOMAIN w.events : w.events[i].op # "poll"
         \/ t.mono = real /\ t.updated = real + skew
      /\ \A z \in Int : Exact(timing, real, z) /\ Measured(timing, w.now) => Exact(t, real, z)
  BY <1>1, AfterKeeps
<1> HIDE DEF w, t
<1>6. ASSUME ~history'.misled PROVE ClockExact'
  <2>1. CASE timing' = timing
    BY <1>1, <1>6, <2>1, <1>0 DEF ClockExact
  <2>2. CASE timing' # timing
    <3>1. t.mono = real /\ t.updated = real + skew
      BY <1>1, <1>5, <2>2 DEF Written, w, t
    <3>2. Exact(timing, real, history.rest) /\ ~history.misled /\ timing # NoScope
      BY <1>0, <1>1, <1>6, ClockAssumption DEF ClockExact
    <3>3. Measured(timing, w.now)
      <4>1. CASE Continuous(timing, w.now)
        BY <4>1, <1>1 DEF Measured, Elapsed, Continuous, Timings
      <4>2. CASE ~Continuous(timing, w.now)
        <5>1. timing.updated = timing.mono + skew
          BY <4>2, <1>0, <1>1, <1>6, <2>2, <3>2 DEF ClockExact
        <5>2. timing.mono <= real /\ timing.mono \in Int /\ timing.updated \in Int
          BY <1>1, <3>2 DEF Exact, Timings
        <5>3. w.now.wall >= timing.updated /\ w.now.wall - timing.updated = w.now.mono - timing.mono
          BY <1>1, <5>1, <5>2
        <5>4. Elapsed(timing, w.now) = w.now.wall - timing.updated
          BY <1>1, <4>2, <5>2, <5>3 DEF Elapsed
        <5> QED
          BY <5>3, <5>4 DEF Measured
      <4> QED
        BY <4>1, <4>2
    <3>4. history.rest \in Int
      BY <1>0 DEF ClockTypeOK, Histories
    <3>5. Exact(t, real, history.rest)
      BY <1>5, <3>2, <3>3, <3>4
    <3>6. /\ timing' \in Timings /\ (timing' = t \/ timing' = Polled(t))
      BY <1>1 DEF Written, w, t
    <3>7. Exact(timing', real, history.rest) /\ timing'.mono = real /\ timing'.updated = real + skew
      <4>1. CASE timing' = t
        BY <4>1, <3>1, <3>5
      <4>2. CASE timing' = Polled(t)
        <5>1. SameTimes(Polled(t), t) /\ Polled(t) \in Timings
          BY <1>5, PolledKeeps
        <5>2. Exact(Polled(t), t.mono, history.rest)
          BY <1>5, <3>1, <3>4, <3>5, <5>1, SameTimesExact
        <5>3. Polled(t).mono = t.mono /\ Polled(t).updated = t.updated
          BY <5>1 DEF SameTimes
        <5> QED
          BY <4>2, <3>1, <5>2, <5>3
      <4> QED
        BY <3>6, <4>1, <4>2
    <3> QED
      BY <1>1, <3>7 DEF ClockExact
  <2> QED
    BY <2>1, <2>2
<1>7. ClockExact'
  BY <1>6 DEF ClockExact
<1> QED
  BY <1>2, <1>3, <1>4, <1>7 DEF FileInv

-------------------------------------------------------------------------------
(* Reports count once, and the clock's floor follows *)

Others == PendingIsNext /\ ReportUnderWay /\ Counted /\ MoveClosed /\ FloorKnown

\* What leaves the reports to come as they are, or drops them.
LEMMA Undisturbed ==
  ASSUME ClockInv, UNCHANGED <<timing, session>>, history'.reported = history.reported,
         history'.meddled = history.meddled,
         \/ player'.todo = player.todo /\ work'["player"] = work["player"]
         \/ ~Busy("player")' /\ \A i \in DOMAIN player'.todo : player'.todo[i].op = "resume",
         Busy("helper")' => \A i \in 1..Len(work'["helper"].events) :
                               work'["helper"].events[i].op \in {"failure", "stale_capture"}
  PROVE  Agenda' /\ Others'
<1> USE DEF ClockInv, Others, Pending, Meddled, Upward
<1>1. PendingIsNext'
  BY DEF PendingIsNext
<1>2. Counted'
  BY DEF Counted
<1>3. CASE player'.todo = player.todo /\ work'["player"] = work["player"]
  <2>1. Agenda'
    BY <1>3 DEF Agenda, AboutPending
  <2>2. ReportUnderWay'
    BY <1>3 DEF ReportUnderWay, Busy, AboutPending
  <2>3. MoveClosed' /\ FloorKnown'
    BY <1>3 DEF MoveClosed, FloorKnown, InTodo, Reporting, Busy
  <2> QED
    BY <1>1, <1>2, <2>1, <2>2, <2>3
<1>4. CASE ~Busy("player")' /\ \A i \in DOMAIN player'.todo : player'.todo[i].op = "resume"
  <2>1. Agenda'
    BY <1>4 DEF Agenda, AboutPending
  <2>2. ReportUnderWay'
    BY <1>4 DEF ReportUnderWay
  <2>3. MoveClosed' /\ FloorKnown'
    BY <1>4 DEF MoveClosed, FloorKnown, InTodo, Reporting
  <2> QED
    BY <1>1, <1>2, <2>1, <2>2, <2>3
<1> QED
  BY <1>3, <1>4

\* The steps that do.
LEMMA SurroundingsKeep ==
  ASSUME ClockInv, CrashPlayer \/ HelperDies \/ SecondPasses \/ SetWallClock \/ HelperFails
  PROVE  Agenda' /\ Others'
<1>0. /\ ClockTypeOK /\ history \in Histories /\ player \in Players
      /\ work \in [Processes -> [read : Timings \cup {NoScope}, events : Seq(Events), now : Instants \cup {NoScope}]]
  BY DEF ClockInv, FileInv, ClockTypeOK
<1>h. Busy("helper") => \A i \in 1..Len(work["helper"].events) :
                               work["helper"].events[i].op \in {"failure", "stale_capture"}
  BY DEF ClockInv, ReportUnderWay
<1>1. CASE CrashPlayer
  <2>1. /\ UNCHANGED <<timing, session, history>> /\ work' = [work EXCEPT !["player"] = NoWork]
        /\ player' = [player EXCEPT !.up = FALSE, !.armed = FALSE, !.todo = <<>>]
    BY <1>1 DEF CrashPlayer
  <2>2. player'.todo = <<>>
    BY <1>0, <2>1 DEF Players
  <2>3. ~Busy("player")' /\ work'["helper"] = work["helper"]
    BY <1>0, <2>1 DEF Busy, NoWork, Processes
  <2> QED
    BY <1>h, <2>1, <2>2, <2>3, Undisturbed DEF Busy
<1>2. CASE HelperDies
  <2>1. UNCHANGED <<timing, session, history, player>> /\ work' = [work EXCEPT !["helper"] = NoWork]
    BY <1>2 DEF HelperDies
  <2>2. ~Busy("helper")' /\ work'["player"] = work["player"]
    BY <1>0, <2>1 DEF Busy, NoWork, Processes
  <2> QED
    BY <2>1, <2>2, Undisturbed
<1>3. CASE SecondPasses
  <2>1. UNCHANGED <<timing, session, player, work>> /\ history' = [history EXCEPT !.rest = IF timing.paused THEN @ + 1 ELSE @]
    BY <1>3 DEF SecondPasses
  <2>2. history'.reported = history.reported /\ history'.meddled = history.meddled
    BY <1>0, <2>1 DEF Histories
  <2> QED
    BY <1>h, <2>1, <2>2, Undisturbed DEF Busy
<1>4. CASE SetWallClock
  <2>1. UNCHANGED <<timing, session, player, work>> /\ history' = [history EXCEPT !.jumped = TRUE]
    BY <1>4 DEF SetWallClock
  <2>2. history'.reported = history.reported /\ history'.meddled = history.meddled
    BY <1>0, <2>1 DEF Histories
  <2> QED
    BY <1>h, <2>1, <2>2, Undisturbed DEF Busy
<1>5. CASE HelperFails
  <2>1. UNCHANGED <<timing, session, player>> /\ history' = [history EXCEPT !.helped = @ + 1]
    BY <1>5 DEF HelperFails
  <2>2. history'.reported = history.reported /\ history'.meddled = history.meddled
    BY <1>0, <2>1 DEF Histories
  <2>3. PICK events \in Seq(Events) :
           /\ Len(events) \in {1, 2} /\ \A i \in DOMAIN events : events[i].op \in {"failure", "stale_capture"}
           /\ Enter("helper", events)
    BY <1>0, <1>5, HelperEnters
  <2>4. work'["helper"].events = events /\ work'["player"] = work["player"]
    BY <1>0, <2>3 DEF Enter, Processes
  <2> QED
    BY <2>1, <2>2, <2>3, <2>4, Undisturbed
<1> QED
  BY <1>1, <1>2, <1>3, <1>4, <1>5

\* A file that is there keeps its counts, and a new one begins with none.
LEMMA OpenCounts == ASSUME ClockInv, OpenPlayer PROVE Agenda' /\ Others'
<1>0. /\ ClockTypeOK /\ history \in Histories /\ player \in Players
      /\ UNCHANGED <<session, work>>
      /\ \A p \in Processes : ~Busy(p) /\ ~Busy(p)'
  BY DEF ClockInv, FileInv, ClockTypeOK, OpenPlayer, Unlocked, Busy
<1>1. \A i \in DOMAIN player'.todo : player'.todo[i].op = "resume"
  BY DEF OpenPlayer, Do
<1> DEFINE still == history.jumped /\ timing # NoScope
           rested == IF timing = NoScope THEN 0 ELSE history.rest
<1>2. history' = [history EXCEPT !.jumped = still, !.rest = rested]
  BY DEF OpenPlayer
<1> HIDE DEF still, rested
<1>3. history'.reported = history.reported /\ history'.meddled = history.meddled
  BY <1>0, <1>2 DEF Histories
<1>4. CASE timing # NoScope
  <2>1. timing' = timing
    BY <1>4 DEF OpenPlayer
  <2> QED
    BY <1>0, <1>1, <1>3, <2>1, Undisturbed DEF Processes
<1>5. CASE timing = NoScope
  <2>1. /\ timing'.move = NoScope /\ timing'.floor = NoScope /\ timing'.verified = <<>>
        /\ timing'.inputs = 0 /\ timing'.moved = 0
    BY <1>5 DEF OpenPlayer, NewTiming
  <2>2. history'.reported = {}
    BY <1>3, <1>5 DEF ClockInv, Counted
  <2>3. Counted'
    <3>1. {k \in history'.reported : Steps[k].complete} = {}
      BY <2>2
    <3> QED
      BY <2>1, <2>2, <3>1, FS_EmptySet DEF Counted
  <2>4. PendingIsNext'
    BY <1>0 DEF ClockInv, PendingIsNext, Pending
  <2>5. Agenda' /\ ReportUnderWay'
    BY <1>0, <1>1 DEF Agenda, AboutPending, ReportUnderWay, Processes
  <2>6. MoveClosed' /\ FloorKnown'
    BY <1>1, <2>1 DEF MoveClosed, FloorKnown, InTodo
  <2> QED
    BY <2>3, <2>4, <2>5, <2>6 DEF Others
<1> QED
  BY <1>4, <1>5

\* An operation begins: what it has to report is about what waits.
LEMMA Starts ==
  ASSUME ClockInv, ~Busy("player"), UNCHANGED <<timing, work, session>>,
         history'.reported = history.reported, Meddled => Meddled', Agenda',
         InTodo("complete_floor")' => InTodo("verified_input")',
         InTodo("settle")' /\ Upward => InTodo("complete_floor")'
  PROVE  Agenda' /\ Others'
<1> USE DEF ClockInv, Others, Pending, Upward
<1>1. PendingIsNext'
  BY DEF PendingIsNext
<1>2. Counted'
  BY DEF Counted
<1>3. ReportUnderWay'
  BY DEF ReportUnderWay, Busy
<1>4. MoveClosed'
  BY DEF MoveClosed, Reporting, Busy
<1>5. FloorKnown'
  BY DEF FloorKnown, Reporting, Busy
<1> QED
  BY <1>1, <1>2, <1>3, <1>4, <1>5

\* One more at the end of a list.
LEMMA OneMore ==
  ASSUME NEW S, NEW s \in Seq(S), NEW e \in S, NEW q, q = s \o <<e>>
  PROVE  /\ q \in Seq(S) /\ Len(q) = Len(s) + 1
         /\ (\A i \in 1..Len(s) : q[i] = s[i]) /\ q[Len(s) + 1] = e
  OBVIOUS

\* What finalize has to report, in its order.
LEMMA FinalShape ==
  ASSUME ClockTypeOK, NEW k \in Nat, k \in DOMAIN Steps
  PROVE  LET s == FinalItems(k)
             to == session.floor + 1
         IN /\ s[1] = Do("resume") /\ s[2] = Settled(k)
            /\ Steps[k].up =>
                 /\ Steps[k].complete /\ Len(s) = 6
                 /\ s[3] = [op |-> "complete_floor", id |-> FloorId(session.floor), to |-> FloorId(to)]
                 /\ s[4] = BeginFloor(to, TRUE)
                 /\ s[5] = Do("settle") /\ s[6] = BeginMove(<<"after", k>>, NoScope)
            /\ ~Steps[k].up /\ Steps[k].complete =>
                 Len(s) = 4 /\ s[3] = Do("settle") /\ s[4] = BeginMove(<<"after", k>>, NoScope)
            /\ ~Steps[k].up /\ ~Steps[k].complete => Len(s) = 3 /\ s[3] = Do("settle")
<1> DEFINE a == Do("resume")
           b == Settled(k)
           c == [op |-> "complete_floor", id |-> FloorId(session.floor), to |-> FloorId(session.floor + 1)]
           d == BeginFloor(session.floor + 1, TRUE)
           e == Do("settle")
           f == BeginMove(<<"after", k>>, NoScope)
           E == {a, b, c, d, e, f}
<1>1. FinalItems(k) = <<a, b>> \o (IF ~Steps[k].up THEN <<>> ELSE <<c, d>>) \o <<e>> \o (IF Steps[k].complete THEN <<f>> ELSE <<>>)
  BY DEF FinalItems, FloorItems, NextMove
<1>2. Steps[k].up => Steps[k].complete
  BY ClockAssumption
<1>3. a \in E /\ b \in E /\ c \in E /\ d \in E /\ e \in E /\ f \in E
  OBVIOUS
<1> HIDE DEF a, b, c, d, e, f, E
<1> DEFINE s == FinalItems(k)
<1>4. CASE Steps[k].up
  <2>1. s = <<a, b>> \o <<c, d>> \o <<e>> \o <<f>>
    BY <1>1, <1>2, <1>4
  <2> HIDE DEF s
  <2> DEFINE p == <<a, b>> \o <<c, d>>
             q == p \o <<e>>
  <2>2. p \in Seq(E) /\ Len(p) = 4 /\ p[1] = a /\ p[2] = b /\ p[3] = c /\ p[4] = d
    BY <1>3
  <2> HIDE DEF p
  <2>3. q \in Seq(E) /\ Len(q) = 5 /\ q[1] = a /\ q[2] = b /\ q[3] = c /\ q[4] = d /\ q[5] = e
    <3>1. q \in Seq(E) /\ Len(q) = Len(p) + 1 /\ (\A i \in 1..Len(p) : q[i] = p[i]) /\ q[Len(p) + 1] = e
      <4>1. p \in Seq(E) /\ e \in E /\ q = p \o <<e>>
        BY <1>3, <2>2
      <4> HIDE DEF q
      <4> QED
        BY <4>1, OneMore
    <3> HIDE DEF q
    <3> QED
      BY <2>2, <3>1
  <2>4. s = q \o <<f>>
    BY <2>1 DEF p
  <2> HIDE DEF q
  <2>5. Len(s) = 6 /\ s[1] = a /\ s[2] = b /\ s[3] = c /\ s[4] = d /\ s[5] = e /\ s[6] = f
    <3>1. Len(s) = Len(q) + 1 /\ (\A i \in 1..Len(q) : s[i] = q[i]) /\ s[Len(q) + 1] = f
      <4>1. q \in Seq(E) /\ f \in E /\ s = q \o <<f>>
        BY <1>3, <2>3, <2>4
      <4> QED
        BY <4>1, OneMore
    <3> QED
      BY <2>3, <3>1
  <2> QED
    BY <1>2, <1>4, <2>5 DEF a, b, c, d, e, f, s
<1>5. CASE ~Steps[k].up
  <2> DEFINE p == <<a, b>> \o <<>>
             q == p \o <<e>>
  <2>2. p \in Seq(E) /\ Len(p) = 2 /\ p[1] = a /\ p[2] = b
    BY <1>3
  <2> HIDE DEF p
  <2>3. q \in Seq(E) /\ Len(q) = 3 /\ q[1] = a /\ q[2] = b /\ q[3] = e
    <3>1. q \in Seq(E) /\ Len(q) = Len(p) + 1 /\ (\A i \in 1..Len(p) : q[i] = p[i]) /\ q[Len(p) + 1] = e
      <4>1. p \in Seq(E) /\ e \in E /\ q = p \o <<e>>
        BY <1>3, <2>2
      <4> HIDE DEF q
      <4> QED
        BY <4>1, OneMore
    <3> HIDE DEF q
    <3> QED
      BY <2>2, <3>1
  <2>4. s = q \o (IF Steps[k].complete THEN <<f>> ELSE <<>>)
    BY <1>1, <1>5 DEF p
  <2> HIDE DEF q, s
  <2>5. s[1] = a /\ s[2] = b /\ s[3] = e /\ (Steps[k].complete => Len(s) = 4 /\ s[4] = f) /\ (~Steps[k].complete => Len(s) = 3)
    <3>1. CASE Steps[k].complete
      <4>1. s = q \o <<f>>
        BY <2>4, <3>1
      <4> QED
        <5>1. Len(s) = Len(q) + 1 /\ (\A i \in 1..Len(q) : s[i] = q[i]) /\ s[Len(q) + 1] = f
          <6>1. q \in Seq(E) /\ f \in E
            BY <1>3, <2>3
          <6> QED
            BY <4>1, <6>1, OneMore
        <5> QED
          BY <2>3, <3>1, <5>1
    <3>2. CASE ~Steps[k].complete
      <4>1. s = q \o <<>>
        BY <2>4, <3>2
      <4>2. s = q
        BY <2>3, <4>1
      <4> QED
        BY <2>3, <3>2, <4>2
    <3> QED
      BY <3>1, <3>2
  <2> QED
    BY <1>5, <2>5 DEF a, b, c, d, e, f, s
<1> QED
  BY <1>4, <1>5

\* What the operations have to report.
LEMMA OperationCounts ==
  ASSUME ClockInv,
         ArmPlayer \/ PrepareStep \/ FinalizeStep \/ OperationFails \/ PollClock \/ OperatorReports \/ StopPlayer
  PROVE  Agenda' /\ Others'
<1>0. /\ ClockTypeOK /\ player \in Players /\ history \in Histories /\ ~Busy("player")
      /\ session.settled \in Nat /\ PendingIsNext
  BY DEF ClockInv, FileInv, ClockTypeOK, ArmPlayer, PrepareStep, FinalizeStep, OperationFails, PollClock,
         OperatorReports, StopPlayer, PlayerIdle
<1>1. CASE ArmPlayer
  <2> DEFINE items == <<Do("resume"), BeginMove(<<"arm", player.opened>>, NoScope)>>
  <2>1. UNCHANGED <<timing, work, session, history>> /\ session.pending = NoScope
        /\ player' = [player EXCEPT !.armed = TRUE, !.todo = items]
    BY <1>1 DEF ArmPlayer
  <2>2. DOMAIN items = 1..2 /\ items[1].op = "resume" /\ items[2].op = "begin_move"
    BY DEF Do, BeginMove
  <2> HIDE DEF items
  <2>3. player'.todo = items
    BY <1>0, <2>1 DEF Players
  <2>4. Agenda'
    BY <2>1, <2>2, <2>3 DEF Agenda, AboutPending, Pending
  <2>5. ~InTodo("complete_floor")' /\ ~InTodo("settle")'
    BY <2>2, <2>3 DEF InTodo
  <2> QED
    BY <1>0, <2>1, <2>4, <2>5, Starts DEF Meddled
<1>2. CASE PrepareStep
  <2> DEFINE k == session.settled + 1
             class == WatchdogClass(Steps[k])
             items == <<Do("resume"), [op |-> "rebase_floor", id |-> FloorId(session.floor)],
                 BeginFloor(session.floor, FALSE), [op |-> "set_watchdog", class |-> class],
                 BeginMove(<<"decision", k, player.opened>>, class), Do("deliver")>>
  <2>1. UNCHANGED <<timing, work, session, history>> /\ session.pending = NoScope
        /\ player' = [player EXCEPT !.todo = items] /\ session.settled < Len(Steps)
    BY <1>2 DEF PrepareStep, Begins
  <2>2. DOMAIN items = 1..6 /\ items[1].op = "resume" /\ items[2].op = "rebase_floor"
        /\ items[3].op = "begin_floor" /\ items[3].whole = FALSE /\ items[3].id = FloorId(session.floor)
        /\ items[4].op = "set_watchdog" /\ items[5].op = "begin_move" /\ items[6].op = "deliver"
    BY DEF Do, BeginMove, BeginFloor
  <2> HIDE DEF items
  <2>3. player'.todo = items
    BY <1>0, <2>1 DEF Players
  <2>a. \A i \in DOMAIN items : i = 1 \/ i = 2 \/ i = 3 \/ i = 4 \/ i = 5 \/ i = 6
    BY <2>2
  <2>b. \A i \in DOMAIN player'.todo : AboutPending(player.todo[i])'
    BY <2>1, <2>2, <2>3, <2>a DEF AboutPending, Pending
  <2>c. \A i, j \in DOMAIN items : i < j =>
          /\ items[i].op # "deliver" /\ items[i].op # "settle"
          /\ items[j].op # "verified_input" /\ items[j].op # "complete_floor"
    BY <2>2, <2>a
  <2>4. Agenda'
    BY <2>1, <2>3, <2>b, <2>c DEF Agenda, Pending
  <2>5. ~InTodo("complete_floor")' /\ ~InTodo("settle")'
    BY <2>2, <2>3, <2>a DEF InTodo
  <2> QED
    BY <1>0, <2>1, <2>4, <2>5, Starts DEF Meddled
<1>3. CASE FinalizeStep
  <2> DEFINE k == session.pending
             items == FinalItems(k)
  <2>1. UNCHANGED <<timing, work, session, history>> /\ player' = [player EXCEPT !.todo = items]
        /\ k # NoScope
    BY <1>3 DEF FinalizeStep, Begins
  <2>2. k \in Nat /\ k \in DOMAIN Steps
    BY <1>0, <2>1 DEF PendingIsNext, Pending, ClockTypeOK
  <2>3. items \in Seq(Events)
    BY <1>0, <2>2, FinalTyped
  <2>4. /\ items[1] = Do("resume") /\ items[2] = Settled(k)
        /\ Steps[k].up =>
             /\ Steps[k].complete /\ Len(items) = 6
             /\ items[3] = [op |-> "complete_floor", id |-> FloorId(session.floor), to |-> FloorId(session.floor + 1)]
             /\ items[4] = BeginFloor(session.floor + 1, TRUE)
             /\ items[5] = Do("settle") /\ items[6] = BeginMove(<<"after", k>>, NoScope)
        /\ ~Steps[k].up /\ Steps[k].complete =>
             Len(items) = 4 /\ items[3] = Do("settle") /\ items[4] = BeginMove(<<"after", k>>, NoScope)
        /\ ~Steps[k].up /\ ~Steps[k].complete => Len(items) = 3 /\ items[3] = Do("settle")
    BY <1>0, <2>2, FinalShape
  <2> HIDE DEF items
  <2>5. player'.todo = items
    BY <1>0, <2>1 DEF Players
  <2> DEFINE n == Len(items)
  <2>6. /\ n \in {3, 4, 6} /\ DOMAIN items = 1..n
        /\ items[1].op = "resume"
        /\ items[2].op = "verified_input" /\ items[2].action = k /\ items[2].complete = Steps[k].complete
        /\ n # 6 => ~Steps[k].up /\ items[3].op = "settle" /\ (n = 4 => items[4].op = "begin_move")
        /\ n = 6 =>
             /\ Steps[k].up
             /\ items[3].op = "complete_floor" /\ items[3].id = FloorId(session.floor)
             /\ items[3].to = FloorId(session.floor + 1)
             /\ items[4].op = "begin_floor" /\ items[4].whole = TRUE /\ items[4].id = FloorId(session.floor + 1)
             /\ items[5].op = "settle" /\ items[6].op = "begin_move"
    BY <2>3, <2>4 DEF Do, Settled, BeginMove, BeginFloor
  <2>a. \A i \in DOMAIN items : i = 1 \/ i = 2 \/ i = 3 \/ (i = 4 /\ n # 3) \/ (i = 5 /\ n = 6) \/ (i = 6 /\ n = 6)
    BY <2>6
  <2>7. Pending' = k /\ k # NoScope /\ (Upward' <=> Steps[k].up) /\ (Upward <=> Steps[k].up) /\ session' = session
        /\ Meddled' = Meddled
    BY <2>1 DEF Pending, Upward, Meddled
  <2>b. \A i \in DOMAIN player'.todo : AboutPending(player.todo[i])'
    BY <2>5, <2>6, <2>7, <2>a DEF AboutPending
  <2>c. \A i, j \in DOMAIN items : i < j =>
       /\ items[i].op # "deliver"
       /\ items[i].op = "settle" => items[j].op = "begin_move"
       /\ items[j].op = "verified_input" => items[i].op = "resume"
       /\ items[j].op = "complete_floor" => items[i].op \in {"resume", "verified_input"}
    <3>1. CASE n = 6
      BY <2>6, <2>a, <3>1
    <3>2. CASE n # 6
      BY <2>6, <2>a, <3>2
    <3> QED
      BY <3>1, <3>2
  <2>d. \A j \in DOMAIN items : items[j].op = "begin_move" => \E i \in DOMAIN items : i < j /\ items[i].op = "settle"
    <3>1. CASE n = 6
      BY <2>6, <2>a, <3>1
    <3>2. CASE n # 6
      BY <2>6, <2>a, <3>2
    <3> QED
      BY <3>1, <3>2
  <2>8. Agenda'
    BY <2>5, <2>b, <2>c, <2>d DEF Agenda
  <2>9. InTodo("verified_input")' /\ (Upward => InTodo("complete_floor")')
    BY <2>5, <2>6, <2>7 DEF InTodo
  <2> QED
    BY <1>0, <2>1, <2>7, <2>8, <2>9, Starts
<1>4. CASE OperationFails
  <2>1. PICK c \in Captures \ history.captures :
          /\ Begins(<<Do("resume"), Do("failure"), [op |-> "stale_capture", capture |-> c]>>)
          /\ history' = [history EXCEPT !.captures = @ \cup {c}]
    BY <1>4 DEF OperationFails
  <2> DEFINE items == <<Do("resume"), Do("failure"), [op |-> "stale_capture", capture |-> c]>>
  <2>2. DOMAIN items = 1..3 /\ items[1].op = "resume" /\ items[2].op = "failure" /\ items[3].op = "stale_capture"
    BY DEF Do
  <2>3. player' = [player EXCEPT !.todo = items] /\ UNCHANGED <<timing, work, session>>
    BY <1>4, <2>1 DEF Begins, OperationFails
  <2> HIDE DEF items
  <2>4. player'.todo = items
    BY <1>0, <2>3 DEF Players
  <2>5. history'.reported = history.reported /\ history'.meddled = history.meddled
    BY <1>0, <2>1 DEF Histories
  <2>a. \A i \in DOMAIN items : items[i].op \in {"resume", "failure", "stale_capture"}
    BY <2>2
  <2>6. Agenda' /\ ~InTodo("complete_floor")' /\ ~InTodo("settle")'
    BY <2>4, <2>a DEF Agenda, AboutPending, InTodo
  <2> QED
    BY <1>0, <2>3, <2>5, <2>6, Starts DEF Meddled
<1>5. CASE PollClock \/ StopPlayer
  <2>1. \E items : player' = [player EXCEPT !.todo = items] /\ \A i \in DOMAIN items : items[i].op \in {"poll", "pause", "close"}
    <3>1. CASE PollClock
      <4> DEFINE items == <<Do("poll")>>
      <4>1. player' = [player EXCEPT !.todo = items]
        BY <3>1 DEF PollClock, Begins
      <4>2. \A i \in DOMAIN items : items[i].op = "poll"
        BY DEF Do
      <4> QED
        BY <4>1, <4>2
    <3>2. CASE StopPlayer
      <4> DEFINE items == <<Do("pause"), Do("close")>>
      <4>1. player' = [player EXCEPT !.todo = items]
        BY <3>2 DEF StopPlayer, Begins
      <4>2. \A i \in DOMAIN items : items[i].op \in {"pause", "close"}
        BY DEF Do
      <4> QED
        BY <4>1, <4>2
    <3> QED
      BY <1>5, <3>1, <3>2
  <2>2. PICK items : player' = [player EXCEPT !.todo = items] /\ \A i \in DOMAIN items : items[i].op \in {"poll", "pause", "close"}
    BY <2>1
  <2>3. UNCHANGED <<timing, work, session, history>>
    BY <1>5 DEF PollClock, StopPlayer
  <2>4. player'.todo = items
    BY <1>0, <2>2 DEF Players
  <2>5. Agenda' /\ ~InTodo("complete_floor")' /\ ~InTodo("settle")'
    BY <2>2, <2>4 DEF Agenda, AboutPending, InTodo
  <2> QED
    BY <1>0, <2>3, <2>5, Starts DEF Meddled
<1>6. CASE OperatorReports
  <2>1. PICK e \in {Do("pause"), BeginMove(OperatorsMove, NoScope)} :
          Begins(<<e>>) /\ history' = [history EXCEPT !.meddled = e.op]
    BY <1>6 DEF OperatorReports
  <2>2. e.op \in {"pause", "begin_move"}
    BY <2>1 DEF Do, BeginMove
  <2> DEFINE items == <<e>>
  <2>3. \A i \in DOMAIN items : items[i].op = e.op
    OBVIOUS
  <2>4. player' = [player EXCEPT !.todo = items]
    BY <2>1 DEF Begins
  <2>5. UNCHANGED <<timing, work, session>> /\ history.meddled = NoScope
    BY <1>6 DEF OperatorReports
  <2> HIDE DEF items
  <2>6. player'.todo = items
    BY <1>0, <2>4 DEF Players
  <2>7. history'.reported = history.reported /\ history'.meddled = e.op
    BY <1>0, <2>1 DEF Histories
  <2>8. ASSUME Meddled PROVE Meddled'
    BY <2>5, <2>8, ClockAssumption DEF Meddled
  <2>9. Agenda' /\ ~InTodo("complete_floor")' /\ ~InTodo("settle")'
    BY <2>2, <2>3, <2>6, <2>7 DEF Agenda, AboutPending, InTodo, Meddled
  <2> QED
    BY <1>0, <2>5, <2>7, <2>8, <2>9, Starts
<1> QED
  BY <1>1, <1>2, <1>3, <1>4, <1>5, <1>6

\* What is left of a list.
LEMMA RestOf ==
  ASSUME NEW S, NEW s \in Seq(S), NEW i \in DOMAIN s, NEW r, r = SubSeq(s, i + 1, Len(s))
  PROVE  /\ DOMAIN s = 1..Len(s) /\ Len(s) \in Nat /\ i \in Nat /\ DOMAIN r = 1..(Len(s) - i)
         /\ \A a \in DOMAIN r : a + i \in DOMAIN s /\ r[a] = s[a + i]
         /\ \A b \in DOMAIN s : b > i => b - i \in DOMAIN r /\ r[b - i] = s[b]
<1>1. /\ DOMAIN s = 1..Len(s) /\ Len(s) \in Nat /\ i \in 1..Len(s)
      /\ DOMAIN r = 1..(Len(s) - i) /\ \A a \in 1..(Len(s) - i) : r[a] = s[a + i]
  OBVIOUS
<1>2. \A b \in DOMAIN s : b > i => b - i \in DOMAIN r /\ r[b - i] = s[b]
  <2> SUFFICES ASSUME NEW b \in 1..Len(s), b > i
               PROVE  b - i \in DOMAIN r /\ r[b - i] = s[b]
    BY <1>1
  <2>1. b - i \in 1..(Len(s) - i) /\ (b - i) + i = b
    BY <1>1
  <2> QED
    BY <1>1, <2>1
<1> QED
  BY <1>1, <1>2

\* The items that are passed over: no input, no change of state.json, and no end
\* of the floor that the clock would still have to hear of.
LEMMA PassedOver ==
  ASSUME NEW item, Idles(item)
  PROVE  /\ item.op \notin {"verified_input", "settle", "deliver", "close"}
         /\ item.op = "complete_floor" => timing.floor = NoScope \/ timing.floor.id = item.to
  BY DEF Idles, Report

\* The next report is about what waits; deliver and settle come in their turn.
LEMMA NextReportCounts == ASSUME ClockInv, NextReport PROVE Agenda' /\ Others'
<1> DEFINE todo == player.todo
<1>0. /\ ClockTypeOK /\ session \in [settled : Nat, pending : Nat \cup {NoScope}, floor : Nat]
      /\ player \in Players /\ history \in Histories /\ ~Busy("player") /\ todo \in Seq(Events)
  BY DEF ClockInv, FileInv, ClockTypeOK, NextReport, Players
<1>1. PICK i \in DOMAIN todo :
         LET item == todo[i]
         IN /\ \A j \in 1..(i - 1) : Idles(todo[j])
            /\ player'.todo = SubSeq(todo, i + 1, Len(todo))
            /\ UNCHANGED <<real, skew, timing, history>>
            /\ \/ /\ item.op = "deliver" /\ UNCHANGED work
                  /\ session' = [session EXCEPT !.pending = session.settled + 1]
               \/ /\ item.op = "settle" /\ UNCHANGED work
                  /\ session' = [settled |-> session.pending, pending |-> NoScope,
                            floor |-> IF Steps[session.pending].up THEN session.floor + 1 ELSE session.floor]
               \/ (item.op = "close" \/ Idles(item)) /\ UNCHANGED <<session, work>>
               \/ /\ ~Idles(item) /\ item.op \notin {"deliver", "settle", "close"}
                  /\ Enter("player", <<item>>) /\ UNCHANGED session
  BY <1>0, NextReportIs
<1> DEFINE item == todo[i]
           left == player'.todo
<1>2. /\ DOMAIN todo = 1..Len(todo) /\ Len(todo) \in Nat /\ i \in Nat /\ DOMAIN left = 1..(Len(todo) - i)
      /\ \A a \in DOMAIN left : a + i \in DOMAIN todo /\ left[a] = todo[a + i]
      /\ \A b \in DOMAIN todo : b > i => b - i \in DOMAIN left /\ left[b - i] = todo[b]
  <2>1. todo \in Seq(Events) /\ i \in DOMAIN todo /\ left = SubSeq(todo, i + 1, Len(todo))
    BY <1>0, <1>1
  <2> HIDE DEF todo, left
  <2> QED
    BY <2>1, RestOf
<1>3. \A b \in DOMAIN todo : b < i => Idles(todo[b])
  BY <1>1, <1>2
<1>4. /\ \A b \in DOMAIN todo : AboutPending(todo[b])
      /\ \A b, c \in DOMAIN todo : b < c =>
           /\ todo[b].op # "deliver"
           /\ todo[b].op = "settle" => todo[c].op = "begin_move"
           /\ todo[c].op = "verified_input" => todo[b].op = "resume"
           /\ todo[c].op = "complete_floor" => todo[b].op \in {"resume", "verified_input"}
      /\ \A c \in DOMAIN todo : todo[c].op = "begin_move" =>
           \/ Pending = NoScope \/ Meddled
           \/ \E b \in DOMAIN todo : b < c /\ todo[b].op = "settle"
  BY DEF ClockInv, Agenda
<1>5. \A op : InTodo(op) => InTodo(op)' \/ item.op = op \/ \E b \in DOMAIN todo : b < i /\ todo[b].op = op /\ Idles(todo[b])
  <2> SUFFICES ASSUME NEW op, NEW b \in DOMAIN todo, todo[b].op = op
               PROVE  InTodo(op)' \/ item.op = op \/ \E c \in DOMAIN todo : c < i /\ todo[c].op = op /\ Idles(todo[c])
    BY DEF InTodo
  <2>1. CASE b > i
    BY <1>2, <2>1 DEF InTodo
  <2>2. CASE b = i
    BY <2>2
  <2>3. CASE b < i
    BY <1>3, <2>3
  <2> QED
    BY <1>2, <2>1, <2>2, <2>3
<1>6. \A op : InTodo(op)' => InTodo(op)
  BY <1>2 DEF InTodo
<1>7. ~Busy("helper")' \/ work'["helper"] = work["helper"]
  BY <1>0, <1>1 DEF Enter, Unlocked, Busy, Processes, ClockTypeOK
<1>8. Busy("helper")' => \A a \in 1..Len(work'["helper"].events) :
                               work'["helper"].events[a].op \in {"failure", "stale_capture"}
  BY <1>7 DEF ClockInv, ReportUnderWay, Busy
<1>9. /\ PendingIsNext /\ Counted /\ MoveClosed /\ FloorKnown /\ UNCHANGED <<timing, history>>
      /\ ~Reporting("complete_floor") /\ ~Reporting("verified_input")
  BY <1>0, <1>1 DEF ClockInv, Reporting
<1> HIDE DEF item, left, todo
<1>10. ASSUME UNCHANGED session, item.op # "settle"
       PROVE  Agenda' /\ PendingIsNext' /\ Counted'
  <2>1. Pending' = Pending /\ Meddled' = Meddled
    BY <1>9, <1>10 DEF Pending, Meddled
  <2>2. \A a \in DOMAIN left : AboutPending(player.todo[a])'
    BY <1>2, <1>4, <1>10 DEF AboutPending, Pending, Upward, left
  <2>3. \A a, c \in DOMAIN left : a < c =>
           /\ left[a].op # "deliver"
           /\ left[a].op = "settle" => left[c].op = "begin_move"
           /\ left[c].op = "verified_input" => left[a].op = "resume"
           /\ left[c].op = "complete_floor" => left[a].op \in {"resume", "verified_input"}
    <3> SUFFICES ASSUME NEW a \in DOMAIN left, NEW c \in DOMAIN left, a < c
                 PROVE  /\ left[a].op # "deliver"
                        /\ left[a].op = "settle" => left[c].op = "begin_move"
                        /\ left[c].op = "verified_input" => left[a].op = "resume"
                        /\ left[c].op = "complete_floor" => left[a].op \in {"resume", "verified_input"}
      OBVIOUS
    <3>1. a + i \in DOMAIN todo /\ c + i \in DOMAIN todo /\ a + i < c + i /\ left[a] = todo[a + i] /\ left[c] = todo[c + i]
      BY <1>2
    <3> QED
      BY <1>4, <3>1
  <2>4. ASSUME NEW c \in DOMAIN left, left[c].op = "begin_move"
        PROVE  \/ Pending' = NoScope \/ Meddled'
               \/ \E a \in DOMAIN left : a < c /\ left[a].op = "settle"
    <3>1. c + i \in DOMAIN todo /\ todo[c + i].op = "begin_move"
      BY <1>2, <2>4
    <3>2. CASE Pending = NoScope \/ Meddled
      BY <2>1, <3>2
    <3>3. CASE \E b \in DOMAIN todo : b < c + i /\ todo[b].op = "settle"
      <4>1. PICK b \in DOMAIN todo : b < c + i /\ todo[b].op = "settle"
        BY <3>3
      <4>2. b > i
        <5>1. ~(b < i)
          BY <1>3, <4>1, PassedOver
        <5>2. b # i
          BY <1>10, <4>1 DEF item
        <5> QED
          BY <1>2, <5>1, <5>2
      <4>3. b - i \in DOMAIN left /\ left[b - i].op = "settle" /\ b - i < c
        BY <1>2, <4>1, <4>2
      <4> QED
        BY <4>3
    <3> QED
      BY <1>4, <3>1, <3>2, <3>3
  <2>5. Agenda'
    BY <2>2, <2>3, <2>4 DEF Agenda, left
  <2>6. PendingIsNext'
    BY <1>9, <1>10 DEF PendingIsNext, Pending
  <2>7. Counted'
    BY <1>9, <1>10 DEF Counted, Pending
  <2> QED
    BY <2>5, <2>6, <2>7
<1>11. CASE (item.op = "close" \/ Idles(item)) /\ UNCHANGED <<session, work>>
  <2>1. item.op # "settle" /\ item.op # "verified_input"
    BY <1>11, PassedOver
  <2>2. ReportUnderWay'
    BY <1>0, <1>8, <1>11 DEF ReportUnderWay, Busy
  <2>3. InTodo("verified_input") => InTodo("verified_input")'
    BY <1>5, <2>1, PassedOver
  <2>4. MoveClosed'
    BY <1>0, <1>6, <1>9, <1>11, <2>3 DEF MoveClosed, Pending, Reporting, Meddled, Busy
  <2>5. InTodo("complete_floor") => InTodo("complete_floor")' \/ \E b \in DOMAIN todo : todo[b].op = "complete_floor" /\ Idles(todo[b])
    BY <1>5, <1>11 DEF item
  <2>6. InTodo("complete_floor") /\ Upward => InTodo("complete_floor")'
          \/ timing.floor = NoScope \/ timing.floor.id = FloorId(session.floor + 1)
    BY <1>4, <2>5, PassedOver DEF AboutPending
  <2>7. FloorKnown'
    BY <1>0, <1>6, <1>9, <1>11, <2>6 DEF FloorKnown, Pending, Upward, Reporting, Meddled, Busy
  <2> QED
    BY <1>10, <1>11, <2>1, <2>2, <2>4, <2>7 DEF Others
<1>12. CASE ~Idles(item) /\ item.op \notin {"deliver", "settle", "close"} /\ Enter("player", <<item>>) /\ UNCHANGED session
  <2>1. work'["player"].events = <<item>> /\ Busy("player")' /\ \A op : Reporting(op)' <=> item.op = op
    BY <1>0, <1>12 DEF Enter, Busy, Processes, ClockTypeOK, Reporting
  <2>2. work'["player"].events[1] = item /\ Len(work'["player"].events) = 1
    BY <2>1
  <2>11. AboutPending(work["player"].events[1])'
    BY <1>4, <1>12, <2>2 DEF AboutPending, Pending, Upward, item
  <2>3. item.op = "begin_move" => Pending = NoScope \/ Meddled
    BY <1>3, <1>4, PassedOver DEF item
  <2>4. ReportUnderWay'
    BY <1>8, <1>9, <1>12, <2>2, <2>3, <2>11 DEF ReportUnderWay, Pending, Meddled
  <2>5. InTodo("verified_input") => InTodo("verified_input")' \/ item.op = "verified_input"
    BY <1>5, PassedOver
  <2>6. item.op = "complete_floor" => InTodo("complete_floor") /\ ~InTodo("verified_input")
    <3> SUFFICES ASSUME item.op = "complete_floor", NEW b \in DOMAIN todo, todo[b].op = "verified_input"
                 PROVE  FALSE
      BY DEF InTodo, item, todo
    <3>1. CASE b > i
      BY <1>4, <3>1 DEF item
    <3>2. CASE b < i
      BY <1>3, <3>2, PassedOver
    <3> QED
      BY <1>2, <3>1, <3>2 DEF item
  <2>7. MoveClosed'
    BY <1>6, <1>9, <1>12, <2>1, <2>5, <2>6 DEF MoveClosed, Pending, Meddled
  <2>8. InTodo("complete_floor") => InTodo("complete_floor")' \/ item.op = "complete_floor"
          \/ \E b \in DOMAIN todo : todo[b].op = "complete_floor" /\ Idles(todo[b])
    BY <1>5
  <2>9. InTodo("complete_floor") /\ Upward => InTodo("complete_floor")' \/ item.op = "complete_floor"
          \/ timing.floor = NoScope \/ timing.floor.id = FloorId(session.floor + 1)
    BY <1>4, <2>8, PassedOver DEF AboutPending
  <2>10. FloorKnown'
    BY <1>6, <1>9, <1>12, <2>1, <2>9 DEF FloorKnown, Pending, Upward, Meddled
  <2> QED
    BY <1>10, <1>12, <2>4, <2>7, <2>10 DEF Others
<1>13. CASE item.op = "deliver" /\ UNCHANGED work /\ session' = [session EXCEPT !.pending = session.settled + 1]
  <2>1. DOMAIN left = {}
    <3>1. \A b \in DOMAIN todo : ~(i < b)
      BY <1>4, <1>13 DEF item
    <3> QED
      BY <1>2, <3>1
  <2>2. Pending = NoScope /\ session.settled < Len(Steps)
    BY <1>4, <1>13 DEF AboutPending, item
  <2>3. session'.settled = session.settled /\ session'.floor = session.floor /\ Pending' = session.settled + 1
    BY <1>0, <1>13 DEF Pending
  <2>4. Agenda' /\ \A op : ~InTodo(op)'
    BY <2>1 DEF Agenda, InTodo, left
  <2>5. PendingIsNext'
    BY <1>0, <2>2, <2>3, ClockAssumption DEF PendingIsNext
  <2>6. history.reported \subseteq Nat /\ \A k \in history.reported : k <= session.settled
    BY <1>0, <1>9, <2>2, ClockAssumption DEF Counted, Histories
  <2>7. Pending' \notin history.reported
    BY <1>0, <2>3, <2>6
  <2>8. Counted'
    BY <1>9, <2>3, <2>6, <2>7 DEF Counted
  <2>9. ReportUnderWay' /\ ~Busy("player")'
    BY <1>0, <1>8, <1>13 DEF ReportUnderWay, Busy
  <2>10. MoveClosed' /\ FloorKnown'
    BY <1>9, <2>2, <2>3, <2>4, <2>7, <2>9 DEF MoveClosed, FloorKnown, Reporting, Upward, Meddled
  <2> QED
    BY <2>4, <2>5, <2>8, <2>9, <2>10 DEF Others
<1>14. CASE item.op = "settle" /\ UNCHANGED work
           /\ session' = [settled |-> session.pending, pending |-> NoScope,
                            floor |-> IF Steps[session.pending].up THEN session.floor + 1 ELSE session.floor]
  <2>1. \A a \in DOMAIN left : left[a].op = "begin_move"
    <3> SUFFICES ASSUME NEW a \in DOMAIN left PROVE left[a].op = "begin_move"
      OBVIOUS
    <3>1. a + i \in DOMAIN todo /\ i < a + i /\ left[a] = todo[a + i]
      BY <1>2
    <3> QED
      BY <1>4, <1>14, <3>1 DEF item
  <2>2. Pending # NoScope /\ Pending = session.settled + 1 /\ Pending \in Nat
    BY <1>0, <1>4, <1>9, <1>14 DEF AboutPending, item, PendingIsNext, Pending
  <2>3. session'.settled = session.settled + 1 /\ Pending' = NoScope
        /\ session'.floor = (IF Upward THEN session.floor + 1 ELSE session.floor)
    BY <1>14, <2>2 DEF Pending, Upward
  <2>4. Agenda' /\ \A op : op # "begin_move" => ~InTodo(op)'
    <3>1. \A a \in DOMAIN player'.todo : player'.todo[a].op = "begin_move"
      BY <2>1 DEF left
    <3> QED
      BY <2>3, <3>1 DEF Agenda, InTodo, AboutPending
  <2>5. PendingIsNext'
    BY <2>3 DEF PendingIsNext
  <2>6. history.reported \subseteq Nat /\ Pending' \notin history.reported
    BY <1>0, <2>3, ClockAssumption DEF Histories
  <2>7. \A k \in history.reported : k <= session.settled + 1
    BY <1>0, <1>9, <2>2, <2>6 DEF Counted
  <2>8. Counted'
    BY <1>9, <2>3, <2>6, <2>7 DEF Counted
  <2>9. ReportUnderWay' /\ ~Busy("player")'
    BY <1>0, <1>8, <1>14 DEF ReportUnderWay, Busy
  <2>10. MoveClosed'
    BY <1>9, <2>4, <2>6, <2>9 DEF MoveClosed, Reporting
  <2>11. InTodo("complete_floor") => \E b \in DOMAIN todo : todo[b].op = "complete_floor" /\ Idles(todo[b])
    BY <1>5, <1>14, <2>4
  <2>12. InTodo("complete_floor") /\ Upward => timing.floor = NoScope \/ timing.floor.id = FloorId(session.floor + 1)
    BY <1>4, <2>11, PassedOver DEF AboutPending
  <2>13. InTodo("settle")
    BY <1>14 DEF InTodo, item, todo
  <2>14. FloorKnown'
    <3> SUFFICES ASSUME timing # NoScope, ~Meddled
                 PROVE  timing.floor = NoScope \/ timing.floor.id = FloorId(session'.floor)
      BY <1>9, <2>4 DEF FloorKnown, Meddled, FloorId
    <3>1. CASE Upward
      BY <1>9, <2>3, <2>12, <2>13, <3>1 DEF FloorKnown
    <3>2. CASE ~Upward
      BY <1>9, <2>3, <3>2 DEF FloorKnown
    <3> QED
      BY <3>1, <3>2
  <2> QED
    BY <2>4, <2>5, <2>8, <2>9, <2>10, <2>14 DEF Others
<1>15. \/ (item.op = "close" \/ Idles(item)) /\ UNCHANGED <<session, work>>
       \/ ~Idles(item) /\ item.op \notin {"deliver", "settle", "close"} /\ Enter("player", <<item>>) /\ UNCHANGED session
       \/ item.op = "deliver" /\ UNCHANGED work /\ session' = [session EXCEPT !.pending = session.settled + 1]
       \/ item.op = "settle" /\ UNCHANGED work
           /\ session' = [settled |-> session.pending, pending |-> NoScope,
                            floor |-> IF Steps[session.pending].up THEN session.floor + 1 ELSE session.floor]
  BY <1>1 DEF item
<1> QED
  BY <1>11, <1>12, <1>13, <1>14, <1>15

\* A transaction that counts nothing, opens no move the adapter does not know of
\* and leaves the floor's clock as it was.
LEMMA CountsStand ==
  ASSUME ClockInv, timing # NoScope, timing' # NoScope, \A p \in Processes : ~Busy(p)', UNCHANGED <<player, session>>,
         history'.reported = history.reported, history'.meddled = history.meddled,
         SameCounts(timing', timing), SameScope(timing'.floor, timing.floor),
         \/ Pending = NoScope \/ Meddled
         \/ timing.move = NoScope => timing'.move = NoScope,
         ~Reporting("verified_input"),
         Reporting("complete_floor") /\ Upward /\ ~Meddled =>
            timing.floor = NoScope \/ timing.floor.id = FloorId(session.floor + 1)
  PROVE  Agenda' /\ Others'
<1> USE DEF Pending, Meddled, Upward
<1>1. PendingIsNext /\ Counted /\ MoveClosed /\ FloorKnown /\ Agenda
  BY DEF ClockInv
<1>2. Agenda' /\ PendingIsNext'
  BY <1>1 DEF Agenda, AboutPending, PendingIsNext
<1>3. ReportUnderWay' /\ \A op : ~Reporting(op)'
  BY DEF ReportUnderWay, Processes, Reporting
<1>4. Counted'
  BY <1>1 DEF Counted, SameCounts
<1>5. InTodo("complete_floor") => Upward
  BY <1>1 DEF Agenda, AboutPending, InTodo
<1>6. Pending \in history.reported => Pending # NoScope
  BY ClockAssumption DEF ClockInv, FileInv, ClockTypeOK, Histories
<1>7. MoveClosed'
  <2>1. UNCHANGED InTodo("complete_floor") /\ UNCHANGED InTodo("verified_input")
    BY DEF InTodo
  <2> QED
    BY <1>1, <1>3, <1>5, <1>6, <2>1 DEF MoveClosed
<1>8. FloorKnown'
  <2>1. UNCHANGED InTodo("complete_floor") /\ UNCHANGED InTodo("settle")
    BY DEF InTodo
  <2> QED
    BY <1>1, <1>3, <2>1 DEF FloorKnown, SameScope, FloorId
<1> QED
  BY <1>2, <1>3, <1>4, <1>7, <1>8 DEF Others

\* What one event does to the file, whether it is polled after it or not.
LEMMA OneEvent ==
  ASSUME FileInv, NEW p \in Processes, Leave(p), Len(work[p].events) = 1
  PROVE  LET e == work[p].events[1]
             t == After(work[p])
         IN /\ e \in Events /\ SameCounts(timing', t)
            /\ \/ /\ Refuses(timing, e) /\ SameCounts(timing', timing)
                  /\ SameScope(timing'.floor, timing.floor) /\ SameScope(timing'.move, timing.move)
               \/ ~Refuses(timing, e) /\ Effect(timing', timing, e)
<1> DEFINE w == work[p]
           e == w.events[1]
           t == After(w)
<1>1. /\ w.read = timing /\ timing \in Timings /\ w.events \in Seq(Events)
      /\ w.now \in Instants /\ w.now.mono = real /\ real \in Int /\ timing' = Written(p)
  BY LeaveIs
<1>2. e \in Events /\ t = After1(timing, e, w.now)
  BY <1>1 DEF After
<1>3. /\ t \in Timings
      /\ \/ Refuses(timing, e) /\ t = timing
         \/ ~Refuses(timing, e) /\ Effect(t, timing, e)
  BY <1>1, <1>2, After1Keeps
<1>4. timing' = t \/ timing' = Polled(t)
  BY <1>1 DEF Written
<1> HIDE DEF t, e
<1>5. SameCounts(timing', t) /\ SameScope(timing'.floor, t.floor) /\ SameScope(timing'.move, t.move)
  <2>1. CASE timing' = t
    BY <2>1 DEF SameCounts, SameScope
  <2>2. CASE timing' = Polled(t)
    BY <1>3, <2>2, PolledKeeps
  <2> QED
    BY <1>4, <2>1, <2>2
<1>6. CASE Refuses(timing, e) /\ t = timing
  BY <1>2, <1>5, <1>6 DEF t, e
<1>7. CASE ~Refuses(timing, e) /\ Effect(t, timing, e)
  <2>1. e.op # "begin_move" /\ timing.move = NoScope => timing'.move = NoScope
    BY <1>5, <1>7 DEF Effect, SameScope
  <2>2. e.op \notin {"begin_floor", "complete_floor"} => SameScope(timing'.floor, timing.floor)
    BY <1>5, <1>7 DEF Effect, SameScope
  <2>3. e.op = "begin_floor" => timing'.floor.id = e.id
    BY <1>5, <1>7 DEF Effect, SameScope
  <2>4. e.op = "complete_floor" => timing'.floor = NoScope
    BY <1>5, <1>7 DEF Effect, SameScope
  <2>5. e.op # "verified_input" => SameCounts(timing', timing)
    BY <1>5, <1>7 DEF Effect, SameCounts
  <2>6. e.op = "verified_input" =>
          IF \E i \in DOMAIN timing.verified : timing.verified[i] = e.action THEN SameCounts(timing', timing)
          ELSE /\ timing'.verified = Recent(Append(timing.verified, e.action)) /\ timing'.inputs = timing.inputs + 1
               /\ timing'.moved = timing.moved + (IF e.complete THEN 1 ELSE 0)
               /\ e.complete => timing'.move = NoScope
    <3>1. CASE \E i \in DOMAIN timing.verified : timing.verified[i] = e.action
      BY <1>5, <1>7, <3>1 DEF Effect, SameCounts
    <3>2. CASE ~\E i \in DOMAIN timing.verified : timing.verified[i] = e.action
      BY <1>5, <1>7, <3>2 DEF Effect, SameCounts, SameScope
    <3> QED
      BY <3>1, <3>2
  <2>7. Effect(timing', timing, e)
    BY <2>1, <2>2, <2>3, <2>4, <2>5, <2>6 DEF Effect
  <2> QED
    BY <1>2, <1>5, <1>7, <2>7 DEF t, e
<1> QED
  BY <1>3, <1>6, <1>7

\* A helper's failures count nothing.
LEMMA HelperCounts == ASSUME ClockInv, Leave("helper") PROVE Agenda' /\ Others'
<1> DEFINE w == work["helper"]
           t == After1(timing, w.events[1], w.now)
           u == After1(t, w.events[2], w.now)
<1>0. /\ FileInv /\ "helper" \in Processes
      /\ \A i \in 1..Len(w.events) : w.events[i].op \in {"failure", "stale_capture"}
  BY DEF ClockInv, ReportUnderWay, Leave, Processes
<1>1. /\ Busy("helper") /\ w.read = timing /\ timing \in Timings /\ timing # NoScope
      /\ w.events \in Seq(Events) /\ Len(w.events) \in {1, 2} /\ w.now \in Instants
      /\ w.now.mono = real /\ real \in Int
      /\ timing' = Written("helper") /\ timing' # NoScope /\ \A q \in Processes : ~Busy(q)'
      /\ history'.reported = history.reported
           \cup {a \in Inputs("helper") : \E i \in DOMAIN After(w).verified : After(w).verified[i] = a}
      /\ history'.meddled = history.meddled /\ UNCHANGED <<player, session>>
  BY <1>0, LeaveIs, ClockAssumption
<1>2. DOMAIN w.events = 1..Len(w.events) /\ \A i \in DOMAIN w.events : w.events[i].op \in {"failure", "stale_capture"}
  BY <1>0, <1>1
<1>3. timing' = After(w)
  BY <1>1, <1>2 DEF Written
<1>4. history'.reported = history.reported
  <2>1. Inputs("helper") = {}
    BY <1>2 DEF Inputs
  <2> QED
    BY <1>1, <2>1
<1>5. ASSUME NEW x \in Timings, NEW e \in Events, e.op \in {"failure", "stale_capture"}
      PROVE  LET y == After1(x, e, w.now)
             IN /\ y \in Timings /\ SameCounts(y, x) /\ SameScope(y.floor, x.floor)
                /\ x.move = NoScope => y.move = NoScope
  <2> DEFINE y == After1(x, e, w.now)
  <2>1. y \in Timings /\ (y = x \/ Effect(y, x, e))
    BY <1>1, After1Keeps
  <2> HIDE DEF y
  <2>2. SameCounts(y, x) /\ SameScope(y.floor, x.floor) /\ (x.move = NoScope => y.move = NoScope)
    <3>1. CASE y = x
      BY <3>1 DEF SameCounts, SameScope
    <3>2. CASE Effect(y, x, e)
      BY <1>5, <3>2 DEF Effect
    <3> QED
      BY <2>1, <3>1, <3>2
  <2> QED
    BY <2>1, <2>2 DEF y
<1>6. w.events[1] \in Events /\ w.events[1].op \in {"failure", "stale_capture"}
  BY <1>1, <1>2
<1>7. t \in Timings /\ SameCounts(t, timing) /\ SameScope(t.floor, timing.floor) /\ (timing.move = NoScope => t.move = NoScope)
  BY <1>1, <1>5, <1>6
<1>8. SameCounts(timing', timing) /\ SameScope(timing'.floor, timing.floor)
      /\ (timing.move = NoScope => timing'.move = NoScope)
  <2>1. CASE Len(w.events) = 1
    <3>1. timing' = t
      BY <1>1, <1>3, <2>1 DEF After
    <3> QED
      BY <1>7, <3>1
  <2>2. CASE Len(w.events) = 2
    <3>1. timing' = u
      BY <1>1, <1>3, <2>2 DEF After
    <3>2. w.events[2] \in Events /\ w.events[2].op \in {"failure", "stale_capture"}
      BY <1>1, <1>2, <2>2
    <3> HIDE DEF t
    <3>3. SameCounts(u, t) /\ SameScope(u.floor, t.floor) /\ (t.move = NoScope => u.move = NoScope)
      BY <1>5, <1>7, <3>2
    <3> HIDE DEF u
    <3> QED
      BY <1>7, <3>1, <3>3 DEF SameCounts, SameScope
  <2> QED
    BY <1>1, <2>1, <2>2
<1>9. \A op : ~Reporting(op)
  BY <1>0, <1>1 DEF FileInv, OneTransaction, Reporting, Processes
<1> HIDE DEF w, t, u
<1> QED
  BY <1>1, <1>4, <1>8, <1>9, CountsStand

\* A report of the adapter.
LEMMA PlayerCounts == ASSUME ClockInv, Leave("player") PROVE Agenda' /\ Others'
<1> DEFINE w == work["player"]
           e == w.events[1]
           t == After(w)
<1>0. /\ FileInv /\ "player" \in Processes /\ PendingIsNext /\ Counted /\ MoveClosed /\ FloorKnown /\ Agenda
      /\ Busy("player") /\ Len(w.events) = 1 /\ AboutPending(e) /\ (e.op = "begin_move" => Pending = NoScope \/ Meddled)
      /\ history.reported \subseteq Nat /\ session.floor \in Nat
  BY DEF ClockInv, ReportUnderWay, Leave, Processes, FileInv, ClockTypeOK, Histories
<1>1. /\ timing \in Timings /\ timing # NoScope /\ w.events \in Seq(Events)
      /\ timing' # NoScope /\ (\A q \in Processes : ~Busy(q)')
      /\ history'.reported = history.reported
           \cup {a \in Inputs("player") : \E i \in DOMAIN t.verified : t.verified[i] = a}
      /\ history'.meddled = history.meddled /\ UNCHANGED <<player, session>>
  BY <1>0, LeaveIs, ClockAssumption
<1>2. /\ e \in Events /\ SameCounts(timing', t)
      /\ \/ /\ Refuses(timing, e) /\ SameCounts(timing', timing)
            /\ SameScope(timing'.floor, timing.floor) /\ SameScope(timing'.move, timing.move)
         \/ ~Refuses(timing, e) /\ Effect(timing', timing, e)
  BY <1>0, OneEvent
<1>3. Inputs("player") = (IF e.op = "verified_input" THEN {e.action} ELSE {})
  <2>1. DOMAIN w.events = {1}
    BY <1>0, <1>1
  <2> QED
    BY <2>1 DEF Inputs
<1>4. \A op : Reporting(op) <=> e.op = op
  BY <1>0 DEF Reporting
<1> HIDE DEF w, e, t
<1>5. CASE e.op \notin {"verified_input", "complete_floor", "begin_floor"}
  <2>1. history'.reported = history.reported
    BY <1>1, <1>3, <1>5
  <2>2. SameCounts(timing', timing) /\ SameScope(timing'.floor, timing.floor)
        /\ (e.op # "begin_move" /\ timing.move = NoScope => timing'.move = NoScope)
    BY <1>2, <1>5 DEF Effect, SameScope
  <2> QED
    BY <1>0, <1>1, <1>4, <1>5, <2>1, <2>2, CountsStand
<1>6. CASE Refuses(timing, e)
  <2>1. SameCounts(timing', timing) /\ SameScope(timing'.floor, timing.floor) /\ SameScope(timing'.move, timing.move)
    BY <1>2, <1>6
  <2>2. CASE e.op \in {"complete_floor", "begin_floor"}
    <3>1. history'.reported = history.reported
      BY <1>1, <1>3, <2>2
    <3>2. e.op = "complete_floor" /\ Upward /\ ~Meddled =>
            timing.floor = NoScope \/ timing.floor.id = FloorId(session.floor + 1)
      BY <1>0, <1>1, <1>4, <1>6 DEF AboutPending, MoveClosed, FloorKnown, Refuses
    <3> QED
      BY <1>1, <1>4, <2>1, <2>2, <3>1, <3>2, CountsStand DEF SameScope
  <2>3. CASE e.op = "verified_input"
    <3>1. history'.reported = history.reported
      <4>1. ~\E i \in DOMAIN timing.verified : timing.verified[i] = e.action
        BY <1>6, <2>3 DEF Refuses, ToSet
      <4>2. t.verified = timing.verified
        BY <1>2, <2>1 DEF SameCounts
      <4> QED
        BY <1>1, <1>3, <2>3, <4>1, <4>2
    <3>2. Counted'
      BY <1>0, <1>1, <2>1, <3>1 DEF Counted, SameCounts, Pending
    <3>3. Agenda' /\ PendingIsNext' /\ ReportUnderWay' /\ \A op : ~Reporting(op)'
      BY <1>0, <1>1 DEF Agenda, AboutPending, PendingIsNext, ReportUnderWay, Reporting, Pending, Upward, Meddled, Processes
    <3>4. FloorKnown'
      BY <1>0, <1>1, <1>4, <2>1, <2>3, <3>3 DEF FloorKnown, SameScope, InTodo, Pending, Upward, Meddled, FloorId
    <3>5. e.complete /\ timing.move = NoScope
      BY <1>6, <2>3 DEF Refuses
    <3>6. MoveClosed'
      BY <2>1, <3>3, <3>5 DEF MoveClosed, SameScope
    <3> QED
      BY <3>2, <3>3, <3>4, <3>6 DEF Others
  <2> QED
    BY <1>5, <2>2, <2>3
<1>7. CASE ~Refuses(timing, e) /\ e.op = "begin_floor"
  <2>1. history'.reported = history.reported
    BY <1>1, <1>3, <1>7
  <2>2. /\ SameCounts(timing', timing) /\ timing'.floor.id = e.id
        /\ timing.move = NoScope => timing'.move = NoScope
    BY <1>2, <1>7 DEF Effect
  <2>3. Counted'
    BY <1>0, <1>1, <2>1, <2>2 DEF Counted, SameCounts, Pending
  <2>4. Agenda' /\ PendingIsNext' /\ ReportUnderWay' /\ \A op : ~Reporting(op)'
    BY <1>0, <1>1 DEF Agenda, AboutPending, PendingIsNext, ReportUnderWay, Reporting, Pending, Upward, Meddled, Processes
  <2>5. MoveClosed'
    BY <1>0, <1>1, <1>4, <1>7, <2>1, <2>2, <2>4 DEF MoveClosed, InTodo, Pending, Meddled
  <2>6. \/ Upward /\ timing'.floor.id = FloorId(session.floor + 1)
        \/ ~Upward /\ timing'.floor.id = FloorId(session.floor)
    BY <1>0, <1>7, <2>2 DEF AboutPending, Upward
  <2>7. FloorKnown'
    BY <1>1, <2>4, <2>6 DEF FloorKnown, Pending, Upward, FloorId
  <2> QED
    BY <2>3, <2>4, <2>5, <2>7 DEF Others
<1>8. CASE ~Refuses(timing, e) /\ e.op = "complete_floor"
  <2>1. history'.reported = history.reported
    BY <1>1, <1>3, <1>8
  <2>2. /\ SameCounts(timing', timing) /\ timing'.floor = NoScope
        /\ timing.move = NoScope => timing'.move = NoScope
    BY <1>2, <1>8 DEF Effect
  <2>3. Counted'
    BY <1>0, <1>1, <2>1, <2>2 DEF Counted, SameCounts, Pending
  <2>4. Agenda' /\ PendingIsNext' /\ ReportUnderWay' /\ \A op : ~Reporting(op)'
    BY <1>0, <1>1 DEF Agenda, AboutPending, PendingIsNext, ReportUnderWay, Reporting, Pending, Upward, Meddled, Processes
  <2>5. MoveClosed'
    BY <1>0, <1>1, <1>4, <1>8, <2>1, <2>2, <2>4 DEF MoveClosed, InTodo, Pending, Meddled
  <2>6. FloorKnown'
    BY <2>2 DEF FloorKnown
  <2> QED
    BY <2>3, <2>4, <2>5, <2>6 DEF Others
<1>9. CASE ~Refuses(timing, e) /\ e.op = "verified_input"
  <2> DEFINE k == Pending
             known == \E i \in DOMAIN timing.verified : timing.verified[i] = k
             done == {n \in history.reported : Steps[n].complete}
             reported == history.reported \cup {k}
             done2 == {n \in reported : Steps[n].complete}
  <2>1. k # NoScope /\ k \in DOMAIN Steps /\ e.action = k /\ e.complete = Steps[k].complete
    BY <1>0, <1>9 DEF AboutPending, PendingIsNext
  <2>2. /\ IsFiniteSet(history.reported) /\ timing.verified \in Seq(history.reported)
        /\ timing.inputs = Cardinality(history.reported) /\ timing.moved = Cardinality(done)
        /\ (k \in history.reported => known)
        /\ \A n \in history.reported : n <= session.settled \/ n = k
    BY <1>0, <1>1 DEF Counted
  <2>3. SameScope(timing'.floor, timing.floor) /\ (timing.move = NoScope => timing'.move = NoScope)
    BY <1>2, <1>9 DEF Effect
  <2>4. Agenda' /\ PendingIsNext' /\ ReportUnderWay' /\ \A op : ~Reporting(op)'
    BY <1>0, <1>1 DEF Agenda, AboutPending, PendingIsNext, ReportUnderWay, Reporting, Pending, Upward, Meddled, Processes
  <2>5. FloorKnown'
    BY <1>0, <1>1, <1>4, <1>9, <2>3, <2>4 DEF FloorKnown, SameScope, InTodo, Pending, Upward, Meddled, FloorId
  <2>6. InTodo("complete_floor") => Steps[k].complete
    <3>1. InTodo("complete_floor") => Upward
      BY <1>0 DEF Agenda, AboutPending, InTodo
    <3> QED
      BY <2>1, <3>1, ClockAssumption DEF Upward
  <2>7. CASE known
    <3>1. SameCounts(timing', timing)
      BY <1>2, <1>9, <2>1, <2>7 DEF Effect
    <3>2. k \in history.reported
      BY <2>2, <2>7
    <3>3. history'.reported = history.reported
      BY <1>1, <1>3, <1>9, <2>1, <3>2
    <3>4. Counted'
      BY <1>0, <1>1, <3>1, <3>3 DEF Counted, SameCounts, Pending
    <3>5. Steps[k].complete /\ ~Meddled => timing'.move = NoScope
      BY <1>0, <1>1, <2>3, <3>2 DEF MoveClosed
    <3>6. MoveClosed'
      BY <1>1, <2>4, <2>6, <3>5 DEF MoveClosed, InTodo, Pending, Meddled
    <3> QED
      BY <2>4, <2>5, <3>4, <3>6 DEF Others
  <2>8. CASE ~known
    <3>1. /\ timing'.verified = Recent(Append(timing.verified, k)) /\ timing'.inputs = timing.inputs + 1
          /\ timing'.moved = timing.moved + (IF Steps[k].complete THEN 1 ELSE 0)
          /\ Steps[k].complete => timing'.move = NoScope
      BY <1>2, <1>9, <2>1, <2>8 DEF Effect
    <3>2. k \notin history.reported
      BY <2>2, <2>8
    <3>3. timing.verified \in Seq(reported) /\ k \in reported
      BY <2>2
    <3> DEFINE r == timing'.verified
    <3> HIDE DEF reported
    <3>4. r \in Seq(reported) /\ Len(r) > 0 /\ r[Len(r)] = k
      <4>1. r = Recent(Append(timing.verified, k))
        BY <3>1
      <4> DEFINE v == timing.verified
      <4>2. v \in Seq(reported) /\ k \in reported /\ r = Recent(Append(v, k))
        BY <3>3, <4>1
      <4> HIDE DEF r, k, v
      <4> QED
        BY <4>2, RecentNewest
    <3>5. \E i \in DOMAIN r : r[i] = k
      BY <3>4
    <3>6. history'.reported = reported
      <4>1. t.verified = r
        BY <1>2 DEF SameCounts
      <4> QED
        BY <1>1, <1>3, <1>9, <2>1, <3>5, <4>1 DEF reported
    <3>7. IsFiniteSet(reported) /\ Cardinality(reported) = Cardinality(history.reported) + 1
      BY <2>2, <3>2, FS_AddElement DEF reported
    <3>8. IsFiniteSet(done)
      BY <2>2, FS_Subset
    <3>9. done2 = (IF Steps[k].complete THEN done \cup {k} ELSE done)
      BY DEF reported
    <3>10. timing'.moved = Cardinality(done2)
      <4>0. Cardinality(done) \in Nat
        BY <3>8, FS_CardinalityType
      <4>1. CASE Steps[k].complete
        <5>1. k \notin done
          BY <3>2
        <5> HIDE DEF done, done2
        <5>2. Cardinality(done \cup {k}) = Cardinality(done) + 1
          BY <3>8, <5>1, FS_AddElement
        <5> QED
          BY <2>2, <3>1, <3>9, <4>1, <5>2
      <4>2. CASE ~Steps[k].complete
        <5> HIDE DEF done, done2
        <5> QED
          BY <2>2, <3>1, <3>9, <4>0, <4>2
      <4> QED
        BY <4>1, <4>2
    <3>11. \A n \in reported : n <= session.settled \/ n = k
      BY <2>2 DEF reported
    <3>12. Counted'
      <4>1. Pending' = k /\ session' = session
        BY <1>1 DEF Pending
      <4>2. timing'.inputs = Cardinality(reported)
        BY <2>2, <3>1, <3>7
      <4>3. done2 = {n \in history'.reported : Steps[n].complete}
        BY <3>6
      <4> HIDE DEF k, r, done2
      <4> QED
        BY <1>1, <3>4, <3>5, <3>6, <3>7, <3>10, <3>11, <4>1, <4>2, <4>3 DEF Counted, r
    <3>13. MoveClosed'
      BY <1>1, <2>4, <2>6, <3>1 DEF MoveClosed, InTodo, Pending, Meddled
    <3> QED
      BY <2>4, <2>5, <3>12, <3>13 DEF Others
  <2> QED
    BY <2>7, <2>8
<1> QED
  BY <1>5, <1>6, <1>7, <1>8, <1>9

-------------------------------------------------------------------------------
(* The theorems *)

\* Nothing is reported when nothing has begun.
LEMMA ClockStarts == InitClock => ClockInv
<1> SUFFICES ASSUME InitClock PROVE ClockInv
  OBVIOUS
<1>1. FileInv
  BY ClockInitially
<1>2. /\ timing = NoScope /\ work = [p \in Processes |-> NoWork] /\ player.todo = <<>>
      /\ session.pending = NoScope /\ session.settled = 0 /\ history.reported = {}
  BY DEF InitClock
<1>3. \A p : ~(p \in Processes /\ Busy(p))
  BY <1>2 DEF Busy, NoWork
<1>4. PendingIsNext /\ Agenda /\ ReportUnderWay
  BY <1>2, <1>3 DEF PendingIsNext, Agenda, ReportUnderWay, Pending, Processes
<1>5. Counted
  BY <1>2, FS_EmptySet DEF Counted
<1>6. MoveClosed /\ FloorKnown
  BY <1>2 DEF MoveClosed, FloorKnown
<1> QED
  BY <1>1, <1>4, <1>5, <1>6 DEF ClockInv

\* Every step keeps the invariant.
LEMMA ClockInductive == ClockInv /\ [NextClock]_clockVars => ClockInv'
<1> SUFFICES ASSUME ClockInv, [NextClock]_clockVars PROVE ClockInv'
  OBVIOUS
<1>1. ASSUME FileInv', Agenda' /\ Others' PROVE ClockInv'
  BY <1>1 DEF ClockInv, Others
<1>2. CASE OpenPlayer
  BY <1>1, <1>2, OpenKeeps, OpenCounts
<1>3. CASE CrashPlayer \/ HelperDies
  BY <1>1, <1>3, DeathKeeps, SurroundingsKeep
<1>4. CASE ArmPlayer \/ PrepareStep \/ FinalizeStep \/ OperationFails \/ PollClock \/ OperatorReports \/ StopPlayer
  <2>1. FileInv'
    BY <1>4, OperationKeeps DEF ClockInv
  <2> QED
    BY <1>1, <1>4, <2>1, OperationCounts
<1>5. CASE NextReport
  BY <1>1, <1>5, NextReportKeeps, NextReportCounts
<1>6. CASE HelperFails
  BY <1>1, <1>6, HelperKeeps, SurroundingsKeep
<1>7. CASE SecondPasses \/ SetWallClock
  BY <1>1, <1>7, TimeKeeps, SurroundingsKeep
<1>8. ASSUME NEW p \in Processes, Leave(p) PROVE ClockInv'
  <2>1. FileInv'
    BY <1>8, LeaveKeeps
  <2>2. Agenda' /\ Others'
    BY <1>8, HelperCounts, PlayerCounts DEF Processes
  <2> QED
    BY <1>1, <2>1, <2>2
<1>9. CASE UNCHANGED clockVars
  <2> USE <1>9 DEF clockVars
  <2>1. FileInv'
    BY DEF ClockInv, FileInv, ClockTypeOK, OneTransaction, ClockBegun, ClockExact, Opened, Busy
  <2>2. Busy("helper")' => \A i \in 1..Len(work'["helper"].events) :
                               work'["helper"].events[i].op \in {"failure", "stale_capture"}
    BY DEF ClockInv, ReportUnderWay, Busy
  <2> QED
    BY <1>1, <2>1, <2>2, Undisturbed
<1> QED
  BY <1>2, <1>3, <1>4, <1>5, <1>6, <1>7, <1>8, <1>9 DEF NextClock

\* In every behaviour the file is one, whoever writes it; a transaction works on
\* the file as it is; the reports to come are about the input that waits, in the
\* order finalize makes them; and each input is counted by what was reported.
THEOREM ClockInvariant == SpecClock => []ClockInv
<1>1. InitClock => ClockInv
  BY ClockStarts
<1>2. ClockInv /\ [NextClock]_clockVars => ClockInv'
  BY ClockInductive
<1> QED
  BY <1>1, <1>2, PTL DEF SpecClock

\* The clock accounts for every moment since it began, and for the paused ones
\* apart, through crashes, restarts and the reports of other processes, unless a
\* report was measured by a wall clock that had been set (_advance).
THEOREM ClocksStayExact == SpecClock => []ClocksAreExact
<1>1. ClockInv => ClocksAreExact
  <2> SUFFICES ASSUME ClockInv, timing # NoScope, ~history.misled PROVE ClocksAreExact
    BY DEF ClocksAreExact
  <2>1. Exact(timing, real, history.rest)
    BY DEF ClockInv, FileInv, ClockExact
  <2>2. \A s \in {timing.move, timing.floor} \ {NoScope} : s.active + s.excluded = timing.mono - s.born
    BY <2>1 DEF Exact, ScopeExact
  <2> QED
    BY <2>1, <2>2 DEF Exact, ClocksAreExact
<1> QED
  BY <1>1, ClockInvariant, PTL

\* However often a result is finalized again after a crash, and whatever a helper
\* reports at the same time, a settled input counts once, a move is closed once,
\* and the clock of the floor follows the player (finalize, record_event).
THEOREM CountedOnce == SpecClock => []ReportsCountOnce
<1>1. ClockInv => ReportsCountOnce
  <2> SUFFICES ASSUME ClockInv PROVE ReportsCountOnce
    OBVIOUS
  <2>1. FloorClockFollows
    BY DEF ClockInv, FloorKnown, Meddled, Upward, Pending, FloorClockFollows
  <2> QED
    BY <2>1 DEF ClockInv, Counted, ReportsCountOnce
<1> QED
  BY <1>1, ClockInvariant, PTL

===============================================================================
