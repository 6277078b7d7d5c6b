----------------------------- MODULE ReviewedPlay -----------------------------
(***************************************************************************)
(* The durable one-input protocol of veda/reviewed_play.py: sessions, each *)
(* the exclusive owner of one directory with a state.json, share one run   *)
(* of the SQLite ledger (veda/play_telemetry.py) and one controller.  An   *)
(* input is prepared, recorded, marked attempted on disk, handed over,     *)
(* verified or reconciled, and settled; a process may crash between any    *)
(* two durable writes and a write may fail before or after it lands.       *)
(*                                                                         *)
(* Time is counted in executed inputs: an image "captured at n" was taken  *)
(* after the n-th input reached the game and before the next one.          *)
(***************************************************************************)
EXTENDS Naturals, FiniteSets

CONSTANTS
  Sessions,     \* session directories
  Actions,      \* action identifiers, each a fresh uuid4
  None,         \* no pending action, no owner
  Policies,     \* the decision policies a session may be opened under
  Probes,       \* focus probes and map looks: an unchanged screen is a result
  MaxFaults,    \* bound: crashes, failed saves and failed ledger writes
  External      \* whether another program writes to the run's ledger

ASSUME ConstantsAssumption ==
  /\ None \notin Actions /\ None \notin Sessions
  /\ IsFiniteSet(Actions) /\ Probes \subseteq Actions
  /\ Policies \subseteq {"strict", "learning"}
  /\ MaxFaults \in Nat
  /\ External \in BOOLEAN

VARIABLES
  \* the process that owns a session
  pc,         \* where its current handler is; "idle" between requests
  policy,     \* decision policy, saved in state.json
  armed,      \* armed, with an open controller client
  poisoned,   \* a save failed: only stop and summary are served
  mem,        \* self.state: the pending action and the completed count
  disk,       \* state.json
  \* the SQLite ledger
  dec,        \* decision of an action: none, recommended, resolved, skipped
  latest,     \* latest observation time of the run's evidence
  doubt,      \* an "unknown" outcome is recorded for the decision
  moved,      \* the ledger changed after the decision was recorded
  \* the controller and the game
  wire,       \* where the command of an action is
  pos,        \* the position of an executed input
  inputs,     \* how many inputs were executed
  \* history and environment
  owner,      \* session that prepared the action
  aged,       \* a retained not-performed image is over 180 s old
  faults      \* faults so far

procVars == <<pc, armed, poisoned>>
ledgVars == <<dec, latest, doubt, moved>>
gameVars == <<wire, pos, inputs>>
vars == <<pc, policy, armed, poisoned, mem, disk, dec, latest, doubt,
          moved, wire, pos, inputs, owner, aged, faults>>

-------------------------------------------------------------------------------
(* state.json: the pending action, and how many were completed *)

Statuses == {"none", "prepared", "preparing_dispatch", "attempted", "verified_pending_log"}

\* After "prepared" a handler runs through these points; each one follows a
\* durable write, so a crash there loses only memory.
Points == {"down", "idle", "arming", "record", "barrier", "call", "reply",
           "log", "clear", "discard"}

StateFile == [id : Actions \cup {None}, st : Statuses, cap : Nat,
              att : Nat, resp : {"none", "ok", "not_sent"},
              kind : {"none", "verified", "not_performed"}, seen : Nat,
              later : BOOLEAN, completed : Nat]

NoPending(n) ==
  [id |-> None, st |-> "none", cap |-> 0, att |-> 0, resp |-> "none",
   kind |-> "none", seen |-> 0, later |-> TRUE, completed |-> n]

Prepared(a, c, n) ==
  [NoPending(n) EXCEPT !.id = a, !.st = "prepared", !.cap = c]

\* Faulty variant: the temporary file is never moved over state.json.
SavedInMemoryOnly(s, new) ==
  /\ mem' = [mem EXCEPT ![s] = new]
  /\ UNCHANGED <<disk, poisoned, faults>>

\* _save succeeded: the new state is in memory and on disk.
Saved(s, new) ==
  /\ mem' = [mem EXCEPT ![s] = new]
  /\ disk' = [disk EXCEPT ![s] = new]
  /\ UNCHANGED <<poisoned, faults>>

\* _save failed, before or after os.replace: the session is poisoned and
\* disarmed, and memory holds what the handler leaves there.
SaveFailed(s, new, kept) ==
  /\ faults < MaxFaults
  /\ faults' = faults + 1
  /\ \E landed \in BOOLEAN : disk' = IF landed THEN [disk EXCEPT ![s] = new] ELSE disk
  /\ mem' = [mem EXCEPT ![s] = kept]
  /\ poisoned' = [poisoned EXCEPT ![s] = TRUE]
  /\ armed' = [armed EXCEPT ![s] = FALSE]
  /\ pc' = [pc EXCEPT ![s] = "idle"]

\* The handler continues at point p after the save, or ends in the failure.
SaveAndGo(s, new, kept, p) ==
  \/ Saved(s, new) /\ pc' = [pc EXCEPT ![s] = p] /\ UNCHANGED armed
  \/ SaveFailed(s, new, kept)

\* The process is gone; memory is forgotten.
GoDown(s, file) ==
  /\ pc' = [pc EXCEPT ![s] = "down"]
  /\ mem' = [mem EXCEPT ![s] = file]
  /\ armed' = [armed EXCEPT ![s] = FALSE]
  /\ poisoned' = [poisoned EXCEPT ![s] = FALSE]

\* A handler ends without its result: strict mode disarms, learning mode
\* stays armed.
BackToIdle(s) ==
  /\ pc' = [pc EXCEPT ![s] = "idle"]
  /\ armed' = [armed EXCEPT ![s] = armed[s] /\ policy[s] = "learning"]
  /\ UNCHANGED <<mem, disk, poisoned>>

\* The transport failed: disarm; learning mode then closes the session.
TransportLost(s) ==
  IF policy[s] = "learning"
  THEN GoDown(s, disk'[s])
  ELSE /\ pc' = [pc EXCEPT ![s] = "idle"]
       /\ armed' = [armed EXCEPT ![s] = FALSE]
       /\ UNCHANGED <<mem, poisoned>>

Idle(s) == pc[s] = "idle" /\ ~poisoned[s]
Pending(s, st) == mem[s].st = st
Recommended == {a \in Actions : dec[a] = "recommended"}
CompletedLimit == 10000

Init ==
  /\ pc = [s \in Sessions |-> "down"]
  /\ policy \in [Sessions -> Policies]
  /\ armed = [s \in Sessions |-> FALSE]
  /\ poisoned = [s \in Sessions |-> FALSE]
  /\ mem = [s \in Sessions |-> NoPending(0)]
  /\ disk = [s \in Sessions |-> NoPending(0)]
  /\ dec = [a \in Actions |-> "none"]
  /\ latest = 0
  /\ doubt = [a \in Actions |-> FALSE]
  /\ moved = [a \in Actions |-> FALSE]
  /\ wire = [a \in Actions |-> "none"]
  /\ pos = [a \in Actions |-> 0]
  /\ inputs = 0
  /\ owner = [a \in Actions |-> None]
  /\ aged = [a \in Actions |-> FALSE]
  /\ faults = 0

-------------------------------------------------------------------------------
(* Opening, arming, stopping *)

\* __init__: take the lock, load state.json; a pending action keeps its policy.
Open(s, p) ==
  /\ pc[s] = "down"
  /\ disk[s].id = None \/ policy[s] = p
  /\ pc' = [pc EXCEPT ![s] = "idle"]
  /\ policy' = [policy EXCEPT ![s] = p]
  /\ mem' = [mem EXCEPT ![s] = disk[s]]
  /\ UNCHANGED <<armed, poisoned, disk, ledgVars, gameVars, owner, aged, faults>>

\* arm: nothing pending here, and no decision pending in the ledger.
ArmCheck(s) ==
  /\ Idle(s) /\ ~armed[s] /\ Pending(s, "none")
  /\ Recommended = {}
  /\ pc' = [pc EXCEPT ![s] = "arming"]
  /\ UNCHANGED <<policy, armed, poisoned, mem, disk, ledgVars, gameVars, owner, aged, faults>>

\* The bridge status probe answers ready and the session is armed, ...
Arm(s) ==
  /\ pc[s] = "arming"
  /\ pc' = [pc EXCEPT ![s] = "idle"]
  /\ armed' = [armed EXCEPT ![s] = TRUE]
  /\ UNCHANGED <<policy, poisoned, mem, disk, ledgVars, gameVars, owner, aged, faults>>

\* ... or it does not, or the session file cannot be saved.
ArmFails(s) ==
  /\ pc[s] = "arming"
  /\ \/ UNCHANGED <<disk, faults>> /\ TransportLost(s)
     \/ SaveFailed(s, mem[s], mem[s])
  /\ UNCHANGED <<policy, ledgVars, gameVars, owner, aged>>

\* stop: disarm and release the lock; a poisoned session serves nothing else.
Stop(s) ==
  /\ pc[s] = "idle"
  /\ GoDown(s, disk[s])
  /\ UNCHANGED <<policy, disk, ledgVars, gameVars, owner, aged, faults>>

\* The process dies between two durable writes.
Crash(s) ==
  /\ pc[s] # "down" /\ faults < MaxFaults
  /\ faults' = faults + 1
  /\ GoDown(s, disk[s])
  /\ UNCHANGED <<policy, disk, ledgVars, gameVars, owner, aged>>

\* A request is refused; strict mode disarms on every error.
Refuse(s) ==
  /\ Idle(s) /\ BackToIdle(s) /\ armed'[s] # armed[s]
  /\ UNCHANGED <<policy, ledgVars, gameVars, owner, aged, faults>>

\* A save that changes no pending action fails: of the preflight record, the
\* evidence epoch, the recovery counters, or the continuity flag in disarm.
OtherSaveFails(s) ==
  /\ Idle(s) /\ SaveFailed(s, mem[s], mem[s])
  /\ UNCHANGED <<policy, ledgVars, gameVars, owner, aged>>

-------------------------------------------------------------------------------
(* One input: prepare, send *)

\* prepare: plan one input from an image captured at c; armed or not.
Prepare(s, a, c) ==
  /\ Idle(s) /\ Pending(s, "none") /\ mem[s].completed < CompletedLimit
  /\ \A t \in Sessions : mem[t].id # a /\ disk[t].id # a
  /\ dec[a] = "none" /\ wire[a] = "none"
  /\ owner' = [owner EXCEPT ![a] = s]
  /\ LET new == Prepared(a, c, mem[s].completed) IN SaveAndGo(s, new, new, "idle")
  /\ UNCHANGED <<policy, ledgVars, gameVars, aged>>

\* Faulty variant: an input whose dispatch has begun can be cancelled too.
CancellableLate(s) == Pending(s, "prepared") \/ Pending(s, "preparing_dispatch")

\* Only an input that never crossed dispatch can be cancelled.
Cancellable(s) == Pending(s, "prepared")

\* cancel_prepared: forget the prepared input.
CancelPrepared(s) ==
  /\ Idle(s) /\ Cancellable(s)
  /\ SaveAndGo(s, NoPending(mem[s].completed), mem[s], "idle")
  /\ UNCHANGED <<policy, ledgVars, gameVars, owner, aged>>

\* Faulty variant: an attempted input may be sent again.
SendableAgain(s) == Pending(s, "prepared") \/ Pending(s, "attempted")

Sendable(s) == Pending(s, "prepared")

\* send, first part: the checks pass again and the ambiguity of the coming
\* ledger write is saved before it.
Send(s) ==
  /\ Idle(s) /\ armed[s] /\ Sendable(s)
  /\ LET new == [mem[s] EXCEPT !.st = "preparing_dispatch"] IN SaveAndGo(s, new, new, "record")
  /\ UNCHANGED <<policy, ledgVars, gameVars, owner, aged>>

\* send of event-bound evidence probes the bridge first; the probe fails.
SendProbeFails(s) ==
  /\ Idle(s) /\ armed[s] /\ Sendable(s)
  /\ UNCHANGED disk /\ TransportLost(s)
  /\ UNCHANGED <<policy, ledgVars, gameVars, owner, aged, faults>>

\* Faulty variant: the pending decision of another session is not looked for.
MayRecordBesides(a, c) == dec[a] # "none" \/ latest <= c

\* Faulty variant: the chronology of the run is not checked.
MayRecordStale(a, c) == dec[a] # "none" \/ Recommended = {}

\* record_decision: refused while a decision is pending in the run, or when
\* the image predates recorded evidence; the same operation is replayed.
MayRecord(a, c) == dec[a] # "none" \/ (Recommended = {} /\ latest <= c)

RecordDecision(s) ==
  LET a == mem[s].id IN
  /\ pc[s] = "record"
  /\ MayRecord(a, mem[s].cap)
  /\ dec' = [dec EXCEPT ![a] = IF @ = "none" THEN "recommended" ELSE @]
  /\ latest' = IF dec[a] = "none" THEN mem[s].cap ELSE latest
  /\ \/ pc' = [pc EXCEPT ![s] = "barrier"] /\ UNCHANGED <<armed, mem, disk, poisoned, faults>>
     \* The transaction committed but its caller sees an exception.
     \/ faults < MaxFaults /\ faults' = faults + 1 /\ BackToIdle(s)
  /\ UNCHANGED <<policy, doubt, moved, gameVars, owner, aged>>

\* The ledger refuses: stale image, validation, another pending decision.
RecordRefused(s) ==
  /\ pc[s] = "record"
  /\ BackToIdle(s)
  /\ UNCHANGED <<policy, ledgVars, gameVars, owner, aged, faults>>

\* Faulty variant: the controller is called under the earlier status.
BarrierSkipped(s) ==
  /\ pc[s] = "barrier"
  /\ SaveAndGo(s, [mem[s] EXCEPT !.att = inputs], mem[s], "call")
  /\ UNCHANGED <<policy, ledgVars, gameVars, owner, aged>>

\* The input barrier: "attempted" is saved before the controller is called.
Barrier(s) ==
  /\ pc[s] = "barrier"
  /\ LET new == [mem[s] EXCEPT !.st = "attempted", !.att = inputs] IN SaveAndGo(s, new, new, "call")
  /\ UNCHANGED <<policy, ledgVars, gameVars, owner, aged>>

\* The source is checked once more and the command leaves the process.
Call(s) ==
  LET a == mem[s].id IN
  /\ pc[s] = "call"
  /\ pc' = [pc EXCEPT ![s] = "reply"]
  /\ wire' = [wire EXCEPT ![a] = "wire"]
  /\ UNCHANGED <<policy, armed, poisoned, mem, disk, ledgVars, pos, inputs, owner, aged, faults>>

\* That check fails: strict mode leaves the action attempted; learning mode
\* saves the fact that controller.call was never entered.
CallRefused(s) ==
  /\ pc[s] = "call"
  /\ IF policy[s] = "strict"
     THEN BackToIdle(s) /\ UNCHANGED faults
     ELSE LET new == [mem[s] EXCEPT !.st = "preparing_dispatch"] IN SaveAndGo(s, new, new, "idle")
  /\ UNCHANGED <<policy, ledgVars, gameVars, owner, aged>>

\* The controller confirms the input and the response is saved.
ReplyConfirmed(s) ==
  /\ pc[s] = "reply"
  /\ wire[mem[s].id] = "executed"
  /\ LET new == [mem[s] EXCEPT !.resp = "ok"] IN SaveAndGo(s, new, new, "idle")
  /\ UNCHANGED <<policy, ledgVars, gameVars, owner, aged>>

\* No confirmation: an exception, an answer that proves nothing, or a
\* correlated not_sent; the response is saved if the disk allows.
ReplyFails(s) ==
  \E r \in {"none", "not_sent"}, written, failed \in BOOLEAN :
    LET new == [mem[s] EXCEPT !.resp = r] IN
    /\ pc[s] = "reply"
    /\ r = "not_sent" => wire[mem[s].id] = "dropped"
    /\ failed => faults < MaxFaults
    /\ written \/ failed
    /\ faults' = IF failed THEN faults + 1 ELSE faults
    /\ disk' = IF written THEN [disk EXCEPT ![s] = new] ELSE disk
    /\ IF policy[s] = "learning"
       THEN GoDown(s, disk'[s])
       ELSE /\ pc' = [pc EXCEPT ![s] = "idle"]
            /\ armed' = [armed EXCEPT ![s] = FALSE]
            /\ poisoned' = [poisoned EXCEPT ![s] = failed]
            /\ mem' = [mem EXCEPT ![s] = new]
    /\ UNCHANGED <<policy, ledgVars, gameVars, owner, aged>>

-------------------------------------------------------------------------------
(* The controller and the game *)

\* The bridge executes a command once or drops it, whatever became of its
\* caller; BridgeDispatcher is where that is shown.
Execute(a) ==
  /\ wire[a] = "wire"
  /\ wire' = [wire EXCEPT ![a] = "executed"]
  /\ inputs' = inputs + 1
  /\ pos' = [pos EXCEPT ![a] = inputs + 1]
  /\ UNCHANGED <<procVars, policy, mem, disk, ledgVars, owner, aged, faults>>

Drop(a) ==
  /\ wire[a] = "wire"
  /\ wire' = [wire EXCEPT ![a] = "dropped"]
  /\ UNCHANGED <<procVars, policy, mem, disk, ledgVars, pos, inputs, owner, aged, faults>>

-------------------------------------------------------------------------------
(* The result of an input: verify, reconcile, finalize, recover_unsent *)

\* The image taken at c shows the effect of the input.
Shows(a, c) == wire[a] = "executed" /\ pos[a] <= c

\* The image is taken after attempted_at; strict proof needs the effect, while
\* learning mode also accepts an unchanged screen as a no-op result.
Acceptable(s, c) ==
  /\ mem[s].att <= c
  /\ policy[s] = "learning" \/ mem[s].id \in Probes \/ Shows(mem[s].id, c)

\* Whether the image is later than the image of a recorded unknown review; two
\* images between the same inputs may have been taken in either order.
LaterChoice(a, c) == {TRUE} \cup (IF doubt[a] /\ c <= latest THEN {FALSE} ELSE {})

\* verify: the observed result is saved before it is logged.
Verify(s, c) ==
  /\ Idle(s) /\ Pending(s, "attempted") /\ Acceptable(s, c)
  /\ \E later \in LaterChoice(mem[s].id, c) :
       LET new == [mem[s] EXCEPT !.st = "verified_pending_log", !.kind = "verified",
                                 !.seen = c, !.later = later]
       IN SaveAndGo(s, new, new, "log")
  /\ UNCHANGED <<policy, ledgVars, gameVars, owner, aged>>

\* reconcile "not_performed": only on the bridge's correlated not_sent.
ReconcileNotPerformed(s, c) ==
  /\ Idle(s) /\ Pending(s, "attempted") /\ mem[s].resp = "not_sent" /\ mem[s].att <= c
  /\ \E later \in LaterChoice(mem[s].id, c) :
       LET new == [mem[s] EXCEPT !.st = "verified_pending_log", !.kind = "not_performed",
                                 !.seen = c, !.later = later]
       IN SaveAndGo(s, new, new, "log")
  /\ UNCHANGED <<policy, ledgVars, gameVars, owner, aged>>

\* The guard of every new outcome: the exact unresolved decision, no other
\* writer since it was recorded, an image later than all recorded evidence.
MayResolve(a, c) == dec[a] = "recommended" /\ ~moved[a] /\ latest <= c

\* reconcile "unknown": the decision stays pending; strict mode disarms.
ReconcileUnknown(s, c) ==
  LET a == mem[s].id IN
  /\ Idle(s) /\ Pending(s, "attempted") /\ mem[s].att <= c
  /\ MayResolve(a, c)
  /\ latest' = c
  /\ doubt' = [doubt EXCEPT ![a] = TRUE]
  /\ \/ BackToIdle(s) /\ UNCHANGED faults
     \/ SaveFailed(s, mem[s], mem[s])
  /\ UNCHANGED <<policy, dec, moved, gameVars, owner, aged>>

\* finalize: try to log the retained result again.
Finalize(s) ==
  /\ Idle(s) /\ Pending(s, "verified_pending_log")
  /\ pc' = [pc EXCEPT ![s] = "log"]
  /\ UNCHANGED <<policy, armed, poisoned, mem, disk, ledgVars, gameVars, owner, aged, faults>>

\* A verified result is logged with its review, however late; a not-performed
\* one is a live change whose image may be at most 180 seconds old.
MayLog(s) ==
  /\ MayResolve(mem[s].id, mem[s].seen)
  /\ mem[s].later
  /\ mem[s].kind = "not_performed" => ~aged[mem[s].id]

LogOutcome(s) ==
  LET a == mem[s].id IN
  /\ pc[s] = "log" /\ MayLog(s)
  /\ dec' = [dec EXCEPT ![a] = IF mem[s].kind = "verified" THEN "resolved" ELSE "skipped"]
  /\ latest' = mem[s].seen
  /\ \/ pc' = [pc EXCEPT ![s] = "clear"] /\ UNCHANGED <<armed, mem, disk, poisoned, faults>>
     \* The transaction committed but its caller sees an exception.
     \/ faults < MaxFaults /\ faults' = faults + 1 /\ BackToIdle(s)
  /\ UNCHANGED <<policy, doubt, moved, gameVars, owner, aged>>

\* Faulty variant: a committed result is not recognised when it is retried.
LogReplayedSkippedOnly(s) ==
  /\ pc[s] = "log" /\ dec[mem[s].id] = "skipped"
  /\ pc' = [pc EXCEPT ![s] = "clear"]
  /\ UNCHANGED <<policy, armed, poisoned, mem, disk, ledgVars, gameVars, owner, aged, faults>>

\* The same operation was committed before: its receipt is returned again.
LogReplayed(s) ==
  /\ pc[s] = "log" /\ dec[mem[s].id] \in {"resolved", "skipped"}
  /\ pc' = [pc EXCEPT ![s] = "clear"]
  /\ UNCHANGED <<policy, armed, poisoned, mem, disk, ledgVars, gameVars, owner, aged, faults>>

\* The ledger refuses or fails: the retained result stays pending.
LogFails(s) ==
  /\ pc[s] = "log" /\ BackToIdle(s)
  /\ \/ ~MayLog(s) /\ dec[mem[s].id] = "recommended" /\ UNCHANGED faults
     \/ faults < MaxFaults /\ faults' = faults + 1
  /\ UNCHANGED <<policy, ledgVars, gameVars, owner, aged>>

\* The pending action is cleared and counted; a failed save restores it in
\* memory.  A terminal game result closes the session.
Clear(s) ==
  /\ pc[s] = "clear"
  /\ LET new == NoPending(mem[s].completed + 1) IN
       \/ SaveAndGo(s, new, mem[s], "idle")
       \/ GoDown(s, new) /\ disk' = [disk EXCEPT ![s] = new] /\ UNCHANGED faults
  /\ UNCHANGED <<policy, ledgVars, gameVars, owner, aged>>

\* Faulty variant: an attempted input without an answer counts as unsent.
UnsentOrUnanswered(s) ==
  Pending(s, "preparing_dispatch") \/ (Pending(s, "attempted") /\ mem[s].resp = "none")

\* No command was handed over while the status is preparing_dispatch.
Unsent(s) == Pending(s, "preparing_dispatch")

\* recover_unsent: the durable status proves that the controller was never
\* called; a decision already in the ledger is skipped first.
RecoverUnsent(s, c) ==
  LET a == mem[s].id IN
  /\ Idle(s) /\ Unsent(s)
  /\ \/ Recommended = {} /\ UNCHANGED <<dec, latest>>
     \/ /\ Recommended = {a} /\ MayResolve(a, c)
        /\ dec' = [dec EXCEPT ![a] = "skipped"]
        /\ latest' = c
  /\ pc' = [pc EXCEPT ![s] = "discard"]
  /\ UNCHANGED <<policy, armed, poisoned, mem, disk, doubt, moved, gameVars, owner, aged, faults>>

\* recover_unsent, last part: the proven unsent input is forgotten.
Discard(s) ==
  /\ pc[s] = "discard"
  /\ SaveAndGo(s, NoPending(mem[s].completed), mem[s], "idle")
  /\ UNCHANGED <<policy, ledgVars, gameVars, owner, aged>>

-------------------------------------------------------------------------------
(* Time and other programs *)

\* 180 seconds pass since the image of a retained not-performed review, more
\* than one handler takes.
Age(a) ==
  /\ ~aged[a]
  /\ \E s \in Sessions : mem[s].id = a /\ mem[s].kind = "not_performed" /\ pc[s] # "log"
  /\ aged' = [aged EXCEPT ![a] = TRUE]
  /\ UNCHANGED <<procVars, policy, mem, disk, ledgVars, gameVars, owner, faults>>

\* Another program appends to the run while a decision is pending.
ExternalWrite(a) ==
  /\ External /\ dec[a] = "recommended" /\ ~moved[a]
  /\ moved' = [moved EXCEPT ![a] = TRUE]
  /\ UNCHANGED <<procVars, policy, mem, disk, dec, latest, doubt, gameVars, owner, aged, faults>>

-------------------------------------------------------------------------------

Control(s) ==
  \/ \E p \in Policies : Open(s, p)
  \/ ArmCheck(s) \/ Arm(s) \/ ArmFails(s)
  \/ Stop(s) \/ Crash(s) \/ Refuse(s) \/ OtherSaveFails(s)

Dispatch(s) ==
  \/ \E a \in Actions, c \in 0..inputs : Prepare(s, a, c)
  \/ CancelPrepared(s) \/ Send(s) \/ SendProbeFails(s)
  \/ RecordDecision(s) \/ RecordRefused(s) \/ Barrier(s)
  \/ Call(s) \/ CallRefused(s) \/ ReplyConfirmed(s) \/ ReplyFails(s)

Resolve(s) ==
  \/ \E c \in 0..inputs : \/ Verify(s, c) \/ ReconcileNotPerformed(s, c)
                          \/ ReconcileUnknown(s, c) \/ RecoverUnsent(s, c)
  \/ Finalize(s) \/ LogOutcome(s) \/ LogReplayed(s) \/ LogFails(s) \/ Clear(s) \/ Discard(s)

Environment(a) == Execute(a) \/ Drop(a) \/ Age(a) \/ ExternalWrite(a)

Next ==
  \/ \E s \in Sessions : Control(s) \/ Dispatch(s) \/ Resolve(s)
  \/ \E a \in Actions : Environment(a)

Spec == Init /\ [][Next]_vars

-------------------------------------------------------------------------------
(* Properties *)

TypeOK ==
  /\ pc \in [Sessions -> Points]
  /\ policy \in [Sessions -> Policies]
  /\ armed \in [Sessions -> BOOLEAN]
  /\ poisoned \in [Sessions -> BOOLEAN]
  /\ mem \in [Sessions -> StateFile]
  /\ disk \in [Sessions -> StateFile]
  /\ dec \in [Actions -> {"none", "recommended", "resolved", "skipped"}]
  /\ latest \in Nat
  /\ doubt \in [Actions -> BOOLEAN]
  /\ moved \in [Actions -> BOOLEAN]
  /\ wire \in [Actions -> {"none", "wire", "executed", "dropped"}]
  /\ pos \in [Actions -> Nat]
  /\ inputs \in Nat
  /\ owner \in [Actions -> Sessions \cup {None}]
  /\ aged \in [Actions -> BOOLEAN]
  /\ faults \in Nat

\* Whenever the controller is about to be called, the input is the one the
\* ledger waits for and state.json already says "attempted", whatever failed,
\* crashed or was armed before.
DurableBarrier ==
  \A s \in Sessions : pc[s] = "call" =>
    /\ disk[s].id = mem[s].id /\ disk[s].st = "attempted"
    /\ dec[disk[s].id] = "recommended"

\* "never repeat": no session, before or after a restart, is about to hand over
\* an input that was handed over before.
InputNeverRepeated ==
  \A s \in Sessions : pc[s] = "call" => wire[mem[s].id] = "none"

\* An input that may still reach the game is the only unsettled one; every
\* other input is settled, and none of those is still on its way.  The input
\* about to be handed over was planned on an image that shows every input the
\* game has received.
OneInputInDoubt ==
  /\ Cardinality({a \in Actions : wire[a] = "wire" \/ dec[a] = "recommended"}) <= 1
  /\ \A s \in Sessions, b \in Actions :
       pc[s] = "call" /\ b # mem[s].id =>
         /\ wire[b] # "wire"
         /\ wire[b] = "executed" => pos[b] <= mem[s].cap

\* A settled decision tells what happened: resolved means that the game
\* received the input, skipped that it did not and never will.  And state.json
\* counts every settled input exactly once, however often its logging was
\* retried; inputs proven unsent are not counted.
LedgerTruthful ==
  /\ \A a \in Actions :
       /\ dec[a] = "resolved" /\ a \notin Probes => wire[a] = "executed"
       /\ dec[a] = "skipped" => wire[a] \in {"none", "dropped"}
  /\ \A s \in Sessions :
       disk[s].completed = Cardinality({a \in Actions :
         /\ owner[a] = s /\ disk[s].id # a
         /\ dec[a] = "resolved" \/ (dec[a] = "skipped" /\ wire[a] # "none")})

\* The part of LedgerTruthful that holds under either policy.
SkippedNeverDelivered ==
  \A a \in Actions : dec[a] = "skipped" => wire[a] \in {"none", "dropped"}

Unsettled == {"preparing_dispatch", "attempted", "verified_pending_log"}

\* A pending decision is never orphaned: the state.json of the session that
\* made it names it with a status from which it can be settled.
NoOrphanDecision ==
  \A a \in Actions : dec[a] = "recommended" =>
    /\ owner[a] # None
    /\ disk[owner[a]].id = a
    /\ disk[owner[a]].st \in Unsettled

\* The requests a session serves find in memory exactly what a restart would
\* find in state.json.
ServedFromDisk ==
  \A s \in Sessions : pc[s] = "idle" /\ ~poisoned[s] => mem[s] = disk[s]

Rank(st) ==
  CASE st = "none" -> 0 [] st = "prepared" -> 1 [] st = "preparing_dispatch" -> 2
    [] st = "attempted" -> 3 [] st = "verified_pending_log" -> 4

\* state.json never forgets an input: its status only advances, it falls back
\* only while nothing was handed over, and the pending action disappears only
\* when the ledger does not wait for it.
PendingNeverForgotten ==
  [][\A s \in Sessions :
       /\ disk[s].id # None /\ disk'[s].id = disk[s].id /\ wire[disk[s].id] # "none"
            => Rank(disk'[s].st) >= Rank(disk[s].st)
       /\ disk[s].id # None /\ disk'[s].id # disk[s].id
            => disk'[s].id = None /\ dec'[disk[s].id] # "recommended"]_vars

-------------------------------------------------------------------------------
(* The inductive invariant behind the properties above *)

\* What is true of the state f of session s, in memory or on disk: its input
\* belongs to s, it was not recorded while "prepared", it was handed over only
\* under "attempted" or later, and a claim that it was not sent is right.
FileOK(s, f) ==
  /\ f.id = None <=> f.st = "none"
  /\ f.id # None => owner[f.id] = s
  /\ f.st = "prepared" => dec[f.id] = "none"
  /\ f.id # None /\ wire[f.id] # "none" => f.st \in {"attempted", "verified_pending_log"}
  /\ f.st = "verified_pending_log" => f.kind # "none"
  /\ f.resp = "not_sent" => f.id # None /\ wire[f.id] = "dropped"
  /\ f.kind = "not_performed" => f.id # None /\ wire[f.id] = "dropped"

Files == \A s \in Sessions : FileOK(s, mem[s]) /\ FileOK(s, disk[s])

\* Only a poisoned session, which runs no handler, differs from its file.
InSync ==
  \A s \in Sessions :
    /\ ~poisoned[s] => mem[s] = disk[s]
    /\ poisoned[s] => pc[s] = "idle"

\* What a handler at point p relies on, m being its pending action.
PointOK(p, m) ==
  /\ p = "record"  => m.st = "preparing_dispatch" /\ dec[m.id] = "none"
  /\ p = "barrier" => m.st = "preparing_dispatch" /\ dec[m.id] = "recommended"
  /\ p = "call"    => m.st = "attempted" /\ dec[m.id] = "recommended" /\ wire[m.id] = "none"
  /\ p = "reply"   => m.st = "attempted"
  /\ p = "log"     => m.st = "verified_pending_log"
  /\ p = "clear"   => m.st = "verified_pending_log" /\ dec[m.id] \in {"resolved", "skipped"}
  /\ p = "discard" => m.st = "preparing_dispatch" /\ dec[m.id] # "recommended"

Handlers == \A s \in Sessions : PointOK(pc[s], mem[s])

Safe == Files /\ InSync /\ Handlers /\ SkippedNeverDelivered /\ NoOrphanDecision

IInv == TypeOK /\ Safe

-------------------------------------------------------------------------------
(* ReviewedPlay implements OneInput *)

Phase(d) ==
  CASE d = "none" -> "new" [] d = "recommended" -> "recorded"
    [] d = "resolved" -> "settled" [] d = "skipped" -> "skipped"

Promise == INSTANCE OneInput WITH phase <- [a \in Actions |-> Phase(dec[a])]

\* All sessions, crashes and retries together keep the promise of OneInput.
KeepsPromise == Promise!Spec

-------------------------------------------------------------------------------
(* Liveness *)

Reopen(s) == \E p \in Policies : Open(s, p)
LeavePoisoned(s) == poisoned[s] /\ Stop(s)

\* The process runs its handlers to the end, a stopped or poisoned session is
\* opened again, and the reviewer follows the advertised next_operation
\* "finalize" even if other requests come in between.
FairSpec ==
  /\ Spec
  /\ \A s \in Sessions :
       /\ WF_vars(Reopen(s)) /\ WF_vars(LeavePoisoned(s)) /\ SF_vars(Finalize(s))
       /\ WF_vars(LogOutcome(s)) /\ WF_vars(LogReplayed(s)) /\ WF_vars(LogFails(s)) /\ WF_vars(Clear(s))

RetainedResult(s, kind) == disk[s].st = "verified_pending_log" /\ disk[s].kind = kind

\* The ledger can still take the retained result of s: nobody else wrote, and
\* the image is later than all recorded evidence.
Loggable(s) == ~moved[disk[s].id] /\ disk[s].later /\ latest <= disk[s].seen

\* A verified result that the ledger can take is logged and cleared, whatever
\* crashes, refusals and failed writes come first.
VerifiedEventuallySettled ==
  \A s \in Sessions :
    RetainedResult(s, "verified") /\ Loggable(s) ~> disk[s].st = "none"

\* docs/veda-reviewed-play.md:331: finalize retries the exact verified outcome.
VerifiedSettles ==
  \A s \in Sessions : RetainedResult(s, "verified") ~> disk[s].st = "none"

===============================================================================
