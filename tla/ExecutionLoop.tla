---------------------------- MODULE ExecutionLoop -----------------------------
(***************************************************************************)
(* The reader-driven runtime: ExecutionLoop and ActionJournal of           *)
(* veda/execution.py in live mode.  One process at a time reads a frame,   *)
(* decides, logs the attempt, hands one input to the controller, verifies  *)
(* it on a later frame and logs that; it may fail or be killed at any      *)
(* step, and a later process starts from the journal on disk.  The         *)
(* controller is what ControllerCall promises.  The time of a frame is the *)
(* number of inputs the game had executed when it was captured.            *)
(***************************************************************************)
EXTENDS Naturals, FiniteSets

CONSTANTS
  Actions,        \* request ids the loop can draw
  NoAction,           \* no action pending
  Consequential,  \* the actions that play a card or end the turn
  MaxInputs,      \* max_inputs of a run
  MaxFaults,      \* bound: failures of the disk
  ParentsMissing  \* whether the directories of the journal are yet to be made

ASSUME LoopAssumption ==
  /\ IsFiniteSet(Actions) /\ NoAction \notin Actions /\ Consequential \subseteq Actions
  /\ MaxInputs \in Nat \ {0} /\ MaxFaults \in Nat /\ ParentsMissing \in BOOLEAN

VARIABLES
  pc,        \* where run() or _execute is; "down" without a process
  pending,   \* pending_id
  rows,      \* journal.rows: the last status of each action in memory
  file,      \* the same on disk
  stable,    \* what of that has been flushed by an fsync
  torn,      \* the file has a line that is not JSON
  entry,     \* the directories of the file: "missing", "volatile", "durable"
  covers,    \* whether _directory_sync_paths holds those that were missing
  synced,    \* _directory_synced
  kept,      \* the sides of an action with a retained image
  frame,     \* the time of last_frame
  tries,     \* verification reads so far
  count,     \* self.inputs
  wire, status, \* of ControllerCall
  inputs,    \* inputs executed by the game
  pos,       \* which of these an action was; 0 before
  faults

loopVars == <<pc, pending, frame, tries, count>>
logVars == <<rows, file, stable, torn, entry, covers, synced>>
callVars == <<wire, status>>
gameVars == <<inputs, pos>>
vars == <<loopVars, logVars, kept, callVars, gameVars, faults>>

Controller == INSTANCE ControllerCall WITH Calls <- Actions, Taps <- Actions

Terminal == {"verified", "not_sent", "reconciled"}
Written == Terminal \cup {"attempted", "unknown_outcome"}

Unresolved(log) == {a \in Actions : log[a] \notin Terminal \cup {"none"}}

Init ==
  /\ pc = "down" /\ pending = NoAction
  /\ rows = [a \in Actions |-> "none"] /\ file = rows /\ stable = rows
  /\ torn = FALSE
  /\ entry = IF ParentsMissing THEN "missing" ELSE "durable"
  /\ covers = "unset" /\ synced = FALSE
  /\ kept = [a \in Actions |-> {}]
  /\ frame = 0 /\ tries = 0 /\ count = 0
  /\ Controller!Init
  /\ inputs = 0 /\ pos = [a \in Actions |-> 0]
  /\ faults = 0

Goto(p) == pc' = p

-------------------------------------------------------------------------------
(* ActionJournal *)

\* A new process reads the journal, or refuses one it cannot parse.
Load ==
  /\ pc = "down" /\ ~torn
  /\ rows' = file
  /\ covers' = "unset" /\ synced' = FALSE
  /\ Goto("open") /\ pending' = NoAction /\ count' = 0
  /\ UNCHANGED <<frame, tries, file, stable, torn, entry, kept, callVars, gameVars, faults>>

\* append first makes the directories, noting which were missing.
MakeParents ==
  /\ covers' = IF covers = "unset" THEN IF entry = "missing" THEN "yes" ELSE "no" ELSE covers
  /\ entry' = IF entry = "missing" THEN "volatile" ELSE entry

\* A line after a torn one is part of no row.
Line(a, s) == IF torn THEN file ELSE [file EXCEPT ![a] = s]

\* The row is written and flushed, and with the first one the directories.
Append(a, s) ==
  /\ rows' = [rows EXCEPT ![a] = s]
  /\ file' = Line(a, s) /\ stable' = file'
  /\ covers' = IF covers = "unset" THEN IF entry = "missing" THEN "yes" ELSE "no" ELSE covers
  /\ entry' = IF entry = "missing" THEN "durable"
              ELSE IF ~synced /\ covers = "yes" THEN "durable" ELSE entry
  /\ synced' = TRUE
  /\ UNCHANGED torn

\* It raises: with nothing or a part of the line written, with the line
\* written and not flushed, or with a directory not flushed.  A process
\* killed half way leaves the same behind.
AppendRaises(a, s) ==
  /\ faults < MaxFaults /\ faults' = faults + 1
  /\ MakeParents
  /\ \/ UNCHANGED <<file, stable, torn>>
     \/ torn' = TRUE /\ UNCHANGED <<file, stable>>
     \/ file' = Line(a, s) /\ UNCHANGED <<stable, torn>>
     \/ ~synced /\ file' = Line(a, s) /\ stable' = file' /\ UNCHANGED torn
  /\ UNCHANGED <<rows, synced>>

\* Append s for the pending action and go on at p, or fail over to q.
AppendAndGo(s, p, q) ==
  \/ Append(pending, s) /\ Goto(p) /\ UNCHANGED faults
  \/ AppendRaises(pending, s) /\ Goto(q)

-------------------------------------------------------------------------------
(* run() *)

\* The first frame is read, also to be retained beside an unresolved action,
\* for which the loop then stops.
FirstRead ==
  /\ pc = "open"
  /\ frame' = inputs
  /\ Goto(IF Unresolved(rows) = {} THEN "ready" ELSE "stopping")
  /\ UNCHANGED <<pending, tries, count, logVars, kept, callVars, gameVars, faults>>

\* A stop request, a budget, a frame that is stale, unreadable or inconsistent,
\* or a decision that is not allowed, before an input is at stake.
Stops ==
  /\ pc \in {"open", "ready"}
  /\ Goto("stopping")
  /\ UNCHANGED <<pending, frame, tries, count, logVars, kept, callVars, gameVars, faults>>

\* The loop decides on one input and draws a request id for it.
Decide(a) ==
  /\ pc = "ready" /\ count < MaxInputs
  /\ rows[a] = "none" /\ file[a] = "none" /\ wire[a] = "none" /\ status[a] = "none"
  /\ pending' = a
  /\ Goto("before")
  /\ UNCHANGED <<frame, tries, count, logVars, kept, callVars, gameVars, faults>>

Keep(side) == kept' = [kept EXCEPT ![pending] = @ \cup {side}]

\* The image before a consequential input is retained, or the input is not made.
RetainBefore ==
  /\ pc = "before"
  /\ \/ pending \notin Consequential /\ Goto("log") /\ UNCHANGED <<kept, faults>>
     \/ pending \in Consequential /\ Keep("before") /\ Goto("log") /\ UNCHANGED faults
     \/ /\ faults < MaxFaults /\ faults' = faults + 1
        /\ Goto("stopping") /\ UNCHANGED kept
  /\ UNCHANGED <<pending, frame, tries, count, logVars, callVars, gameVars>>

\* Faulty variant: an attempt that cannot be logged is made all the same.
LogAttemptOrGo ==
  /\ pc = "log"
  /\ AppendAndGo("attempted", "boundary", "boundary")
  /\ UNCHANGED <<pending, frame, tries, count, kept, callVars, gameVars>>

LogAttempt ==
  /\ pc = "log"
  /\ AppendAndGo("attempted", "boundary", "stopping")
  /\ UNCHANGED <<pending, frame, tries, count, kept, callVars, gameVars>>

\* At the send boundary stop, age and deadline are looked at again.
NotSent ==
  /\ pc = "boundary"
  /\ AppendAndGo("not_sent", "failed", "failed")
  /\ UNCHANGED <<pending, frame, tries, count, kept, callVars, gameVars>>

Call ==
  /\ pc = "boundary"
  /\ Controller!Submit(pending)
  /\ Goto("calling")
  /\ UNCHANGED <<pending, frame, tries, count, logVars, kept, gameVars, faults>>

\* The controller returns a result; an exception leaves through the handler.
Returned ==
  /\ pc = "calling"
  /\ Controller!Return(pending)
  /\ IF status'[pending] = "raised"
     THEN Goto("failed") /\ UNCHANGED count
     ELSE Goto(IF status'[pending] = "ok" THEN "verify" ELSE "rejected") /\ count' = count + 1
  /\ tries' = 0
  /\ UNCHANGED <<pending, frame, logVars, kept, gameVars, faults>>

\* Faulty variant: any result but "ok" is taken for an input not made.
RejectedNotSent ==
  /\ pc = "rejected"
  /\ AppendAndGo("not_sent", "failed", "failed")
  /\ frame' = inputs
  /\ UNCHANGED <<pending, tries, count, kept, callVars, gameVars>>

\* Only a correlated not_sent closes the action; else one more frame is read.
Rejected ==
  /\ pc = "rejected"
  /\ AppendAndGo(IF status[pending] = "not_sent" THEN "not_sent" ELSE "unknown_outcome", "failed", "failed")
  /\ frame' \in {frame, inputs}
  /\ UNCHANGED <<pending, tries, count, kept, callVars, gameVars>>

\* Faulty variant: after three frames that animate the budget starts over.
VerifyForever ==
  /\ pc = "verify"
  /\ frame' = inputs
  /\ \/ tries' = (tries + 1) % 3 /\ UNCHANGED pc
     \/ Goto("after") /\ UNCHANGED tries
  /\ UNCHANGED <<pending, count, logVars, kept, callVars, gameVars, faults>>

\* A frame acquired after the call returned shows the expected change; after
\* three that still animate the loop gives up.
Verify ==
  /\ pc = "verify" /\ tries < 3
  /\ frame' = inputs
  /\ \/ tries' = tries + 1 /\ UNCHANGED pc
     \/ Goto("after") /\ UNCHANGED tries
  /\ UNCHANGED <<pending, count, logVars, kept, callVars, gameVars, faults>>

\* No settled frame, an unreadable one, or one that shows something else.
VerifyFails ==
  /\ pc = "verify"
  /\ frame' \in {frame, inputs}
  /\ Goto("failed")
  /\ UNCHANGED <<pending, tries, count, logVars, kept, callVars, gameVars, faults>>

RetainAfter ==
  /\ pc = "after"
  /\ \/ pending \notin Consequential /\ Goto("verified") /\ UNCHANGED <<kept, faults>>
     \/ pending \in Consequential /\ Keep("after") /\ Goto("verified") /\ UNCHANGED faults
     \/ /\ pending \in Consequential /\ faults < MaxFaults /\ faults' = faults + 1
        /\ Goto("failed") /\ UNCHANGED kept
  /\ UNCHANGED <<pending, frame, tries, count, logVars, callVars, gameVars>>

\* The verified frame is the one the next input is decided on.
LogVerified ==
  /\ pc = "verified"
  /\ \/ Append(pending, "verified") /\ Goto("ready") /\ pending' = NoAction /\ UNCHANGED faults
     \/ AppendRaises(pending, "verified") /\ Goto("failed") /\ UNCHANGED pending
  /\ UNCHANGED <<frame, tries, count, kept, callVars, gameVars>>

\* The images at hand are retained, and a row about them, of no action, is
\* appended; whatever of this fails only goes to evidence_errors.
RetainEvidence ==
  /\ pc = "failed"
  /\ kept' \in [Actions -> SUBSET {"before", "after"}]
  /\ \A a \in Actions : IF a = pending THEN kept[a] \subseteq kept'[a] ELSE kept'[a] = kept[a]
  /\ \/ UNCHANGED <<torn, stable, faults>>
     \/ stable' = file /\ UNCHANGED <<torn, faults>>
     \/ faults < MaxFaults /\ faults' = faults + 1 /\ torn' = TRUE /\ UNCHANGED stable
  /\ Goto("handler")
  /\ UNCHANGED <<pending, frame, tries, count, rows, file, entry, covers, synced, callVars, gameVars>>

\* run() logs that the outcome of a pending action is not known.
Handler ==
  /\ pc = "handler"
  /\ IF pending \in Unresolved(rows)
     THEN AppendAndGo("unknown_outcome", "stopping", "stopping")
     ELSE Goto("stopping") /\ UNCHANGED <<logVars, faults>>
  /\ UNCHANGED <<pending, frame, tries, count, kept, callVars, gameVars>>

Cleanup ==
  /\ pc = "stopping"
  /\ Goto("down")
  /\ UNCHANGED <<pending, frame, tries, count, logVars, kept, callVars, gameVars, faults>>

\* The process is killed, or leaves by an exception run() does not handle.
Killed ==
  /\ pc \notin {"down", "stopping"}
  /\ Goto("down")
  /\ UNCHANGED <<pending, frame, tries, count, logVars, kept, callVars, gameVars, faults>>

-------------------------------------------------------------------------------
(* The controller, the game and the operator *)

Execute(a) ==
  /\ Controller!Execute(a)
  /\ inputs' = inputs + 1
  /\ pos' = [pos EXCEPT ![a] = inputs + 1]
  /\ UNCHANGED <<loopVars, logVars, kept, faults>>

\* Once the fate of an unresolved action is settled, the operator says so in
\* the journal; a command that was never executed went down with its bridge.
Reconcile(a) ==
  /\ pc = "down" /\ ~torn /\ a \in Unresolved(file)
  /\ wire' = IF wire[a] = "wire" THEN [wire EXCEPT ![a] = "dropped"] ELSE wire
  /\ file' = [file EXCEPT ![a] = "reconciled"] /\ stable' = file'
  /\ UNCHANGED <<loopVars, rows, torn, entry, covers, synced, kept, status, gameVars, faults>>

LoopStep ==
  \/ FirstRead \/ Stops \/ RetainBefore \/ LogAttempt \/ NotSent \/ Call \/ Returned
  \/ Rejected \/ Verify \/ VerifyFails \/ RetainAfter \/ LogVerified
  \/ RetainEvidence \/ Handler \/ Cleanup \/ \E a \in Actions : Decide(a)

NextLoop ==
  \/ Load \/ LoopStep \/ Killed
  \/ \E a \in Actions : Execute(a) \/ Reconcile(a)

Spec == Init /\ [][NextLoop]_vars

\* The process keeps running; its reads, its calls and its writes return.
LoopFairness == WF_vars(LoopStep)

-------------------------------------------------------------------------------
(* Properties *)

Phases == {"down", "open", "ready", "before", "log", "boundary", "calling", "rejected",
           "verify", "after", "verified", "failed", "handler", "stopping"}

\* The variables have the types of run()'s locals and of the journal.
LoopTypeOK ==
  /\ pc \in Phases /\ pending \in Actions \cup {NoAction}
  /\ rows \in [Actions -> Written \cup {"none"}]
  /\ file \in [Actions -> Written \cup {"none"}]
  /\ stable \in [Actions -> Written \cup {"none"}]
  /\ torn \in BOOLEAN /\ synced \in BOOLEAN
  /\ entry \in {"missing", "volatile", "durable"} /\ covers \in {"unset", "no", "yes"}
  /\ kept \in [Actions -> SUBSET {"before", "after"}]
  /\ frame \in Nat /\ tries \in 0 .. 3 /\ count \in 0 .. MaxInputs
  /\ wire \in [Actions -> {"none", "wire", "executed", "dropped"}]
  /\ status \in [Actions -> {"none", "ok", "not_sent", "error", "unknown", "raised"}]
  /\ inputs \in Nat /\ pos \in [Actions -> Nat] /\ faults \in 0 .. MaxFaults

\* Across failures, kills and restarts at most one input is on its way: a
\* process finds the unresolved one of an earlier process and sends nothing.
OneInFlight ==
  \A a, b \in Actions : wire[a] = "wire" /\ wire[b] = "wire" => a = b

\* An action the journal calls verified was executed, and a frame later than
\* its execution was read.
VerifiedIsTrue ==
  \A a \in Actions : file[a] = "verified" =>
     wire[a] = "executed" /\ pos[a] <= frame

\* An action the journal calls not sent was and will be none.
NotSentIsTrue ==
  \A a \in Actions : file[a] = "not_sent" => wire[a] \in {"none", "dropped"}

\* A verified card or end of turn has its images on both sides retained.
EvidenceBacked ==
  \A a \in Consequential : file[a] = "verified" => kept[a] = {"before", "after"}

\* What the journal says of an action that it closes is what happened to it,
\* and at most one action is not closed when the controller has it.
RowsAreTrue == LoopTypeOK /\ OneInFlight /\ NotSentIsTrue /\ VerifiedIsTrue /\ EvidenceBacked

Sends(a) == wire[a] = "none" /\ wire'[a] = "wire"

\* An input reaches the controller only when its attempt has been flushed to a
\* journal that a later process can parse, in directories that are flushed too
\* if this process made them, and when no input has made the frame old that it
\* was decided on.  What a process has closed it does not reopen, in memory or
\* on disk, whatever fails afterwards.
LoggedBeforeInput ==
  [][/\ \A a \in Actions : Sends(a) =>
          /\ stable[a] = "attempted" /\ ~torn
          /\ covers = "yes" => entry = "durable"
          /\ frame = inputs
     /\ pc # "down" => \A a \in Actions : rows[a] \in Terminal =>
          rows'[a] = rows[a] /\ file'[a] = file[a]]_vars

\* A run in which every read, call and write returns comes to its end: input
\* budget and verification reads are bounded.
RunEnds == pc # "down" ~> pc = "down"

===============================================================================
