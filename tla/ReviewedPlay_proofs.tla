------------------------- MODULE ReviewedPlay_proofs --------------------------
(***************************************************************************)
(* Proofs about ReviewedPlay for any sessions, inputs, policies and number *)
(* of faults.  Typing comes first; the inductive invariant IInv is then    *)
(* preserved because most actions are one save (SaveStep) or leave the     *)
(* files alone (QuietStep), and OtherSessions carries over what an action  *)
(* of one session cannot touch in another.                                 *)
(***************************************************************************)
EXTENDS ReviewedPlay, FiniteSetTheorems, TLAPS

-------------------------------------------------------------------------------
(* Typing *)

\* The states the handlers write are well formed.
LEMMA FilesTyped ==
  ASSUME NEW n \in Nat
  PROVE  /\ NoPending(n) \in StateFile
         /\ \A a \in Actions, c \in Nat : Prepared(a, c, n) \in StateFile
  BY DEF NoPending, Prepared, StateFile, Statuses

\* The fields of a state file that the invariant speaks about.
Fields(f, id, st, resp, kind) ==
  f \in StateFile /\ f.id = id /\ f.st = st /\ f.resp = resp /\ f.kind = kind

\* Changing the status, the response or the result keeps the other fields.
LEMMA StatusUpdate ==
  ASSUME NEW f \in StateFile, NEW st \in Statuses
  PROVE  Fields([f EXCEPT !.st = st], f.id, st, f.resp, f.kind)
  BY DEF StateFile, Fields

LEMMA BarrierUpdate ==
  ASSUME NEW f \in StateFile, NEW n \in Nat
  PROVE  Fields([f EXCEPT !.st = "attempted", !.att = n], f.id, "attempted", f.resp, f.kind)
  BY DEF StateFile, Statuses, Fields

LEMMA ResponseUpdate ==
  ASSUME NEW f \in StateFile, NEW r \in {"none", "ok", "not_sent"}
  PROVE  Fields([f EXCEPT !.resp = r], f.id, f.st, r, f.kind)
  BY DEF StateFile, Fields

LEMMA ResultUpdate ==
  ASSUME NEW f \in StateFile, NEW k \in {"verified", "not_performed"}, NEW c \in Nat, NEW b \in BOOLEAN
  PROVE  Fields([f EXCEPT !.st = "verified_pending_log", !.kind = k, !.seen = c, !.later = b],
                f.id, "verified_pending_log", f.resp, k)
  BY DEF StateFile, Statuses, Fields

FilesType == mem \in [Sessions -> StateFile] /\ disk \in [Sessions -> StateFile]
ProcType == /\ pc \in [Sessions -> Points]
            /\ armed \in [Sessions -> BOOLEAN]
            /\ poisoned \in [Sessions -> BOOLEAN]
            /\ faults \in Nat

\* A save, successful or not, keeps the session state well typed.
LEMMA SaveTyped ==
  ASSUME NEW s \in Sessions, NEW new \in StateFile, NEW kept \in StateFile, NEW p \in Points,
         TypeOK, SaveAndGo(s, new, kept, p) \/ SaveFailed(s, new, kept)
  PROVE  FilesType' /\ ProcType'
<1> USE DEF TypeOK, FilesType, ProcType
<1>1. CASE Saved(s, new) /\ pc' = [pc EXCEPT ![s] = p] /\ UNCHANGED armed
  BY <1>1 DEF Saved
<1>2. CASE SaveFailed(s, new, kept)
  <2>1. FilesType'
    BY <1>2 DEF SaveFailed
  <2>2. ProcType'
    <3>1. "idle" \in Points
      BY DEF Points
    <3>2. QED  BY <1>2, <3>1 DEF SaveFailed
  <2>3. QED  BY <2>1, <2>2
<1>3. QED  BY <1>1, <1>2 DEF SaveAndGo

\* So do a process that ends and a handler that ends without its result.
LEMMA DownTyped ==
  ASSUME NEW s \in Sessions, NEW f \in StateFile, TypeOK, GoDown(s, f)
  PROVE  /\ mem' \in [Sessions -> StateFile]
         /\ pc' \in [Sessions -> Points]
         /\ armed' \in [Sessions -> BOOLEAN]
         /\ poisoned' \in [Sessions -> BOOLEAN]
<1>1. "down" \in Points
  BY DEF Points
<1>2. QED  BY <1>1 DEF TypeOK, GoDown

LEMMA BackTyped ==
  ASSUME NEW s \in Sessions, TypeOK, BackToIdle(s)
  PROVE  FilesType' /\ pc' \in [Sessions -> Points] /\ armed' \in [Sessions -> BOOLEAN]
         /\ poisoned' \in [Sessions -> BOOLEAN]
<1>1. "idle" \in Points
  BY DEF Points
<1>2. QED  BY <1>1 DEF TypeOK, BackToIdle, FilesType

LEMMA LostTyped ==
  ASSUME NEW s \in Sessions, TypeOK, UNCHANGED disk, TransportLost(s)
  PROVE  FilesType' /\ pc' \in [Sessions -> Points] /\ armed' \in [Sessions -> BOOLEAN]
         /\ poisoned' \in [Sessions -> BOOLEAN]
<1>1. CASE policy[s] = "learning"
  <2>1. GoDown(s, disk[s]) /\ disk[s] \in StateFile
    BY <1>1 DEF TypeOK, TransportLost
  <2>2. QED  BY <2>1, DownTyped DEF FilesType, TypeOK
<1>2. CASE policy[s] # "learning"
  <2>1. "idle" \in Points
    BY DEF Points
  <2>2. QED  BY <1>2, <2>1 DEF TypeOK, TransportLost, FilesType
<1>3. QED  BY <1>1, <1>2

\* Opening, arming and stopping keep the types.
LEMMA ControlTyped ==
  ASSUME NEW s \in Sessions, TypeOK, Control(s)
  PROVE  TypeOK'
<1> USE DEF ledgVars, gameVars
<1>0. mem[s] \in StateFile /\ disk[s] \in StateFile
  BY DEF TypeOK
<1>1. ASSUME NEW q \in Policies, Open(s, q) PROVE TypeOK'
  <2>1. "idle" \in Points
    BY DEF Points
  <2>2. QED  BY <1>0, <1>1, <2>1 DEF Open, TypeOK
<1>2. CASE ArmCheck(s)
  <2>1. "arming" \in Points
    BY DEF Points
  <2>2. QED  BY <1>2, <2>1 DEF ArmCheck, TypeOK
<1>3. CASE Arm(s)
  <2>1. "idle" \in Points
    BY DEF Points
  <2>2. QED  BY <1>3, <2>1 DEF Arm, TypeOK
<1>4. CASE ArmFails(s)
  <2>1. FilesType' /\ ProcType'
    BY <1>0, <1>4, LostTyped, SaveTyped DEF ArmFails, TypeOK, ProcType, Points
  <2>2. QED  BY <1>4, <2>1 DEF ArmFails, TypeOK, FilesType, ProcType
<1>5. CASE Stop(s)
  BY <1>0, <1>5, DownTyped DEF Stop, TypeOK
<1>6. CASE Crash(s)
  BY <1>0, <1>6, DownTyped DEF Crash, TypeOK
<1>7. CASE Refuse(s)
  BY <1>7, BackTyped DEF Refuse, TypeOK, FilesType
<1>8. CASE OtherSaveFails(s)
  <2>1. FilesType' /\ ProcType'
    BY <1>0, <1>8, SaveTyped DEF OtherSaveFails, Points
  <2>2. QED  BY <1>8, <2>1 DEF OtherSaveFails, TypeOK, FilesType, ProcType
<1>9. QED  BY <1>1, <1>2, <1>3, <1>4, <1>5, <1>6, <1>7, <1>8 DEF Control

\* So does one input on its way to the controller.
LEMMA DispatchTyped ==
  ASSUME NEW s \in Sessions, TypeOK, Dispatch(s)
  PROVE  TypeOK'
<1> USE DEF ledgVars, gameVars
<1>0. mem[s] \in StateFile /\ disk[s] \in StateFile /\ mem[s].completed \in Nat
      /\ mem[s].cap \in Nat /\ inputs \in Nat
  BY DEF TypeOK, StateFile
<1>p. {"idle", "record", "barrier", "call", "reply"} \subseteq Points
  BY DEF Points
<1>s. {"prepared", "preparing_dispatch", "attempted", "verified_pending_log"} \subseteq Statuses
  BY DEF Statuses
<1>1. ASSUME NEW a \in Actions, NEW c \in 0..inputs, Prepare(s, a, c) PROVE TypeOK'
  <2>1. Prepared(a, c, mem[s].completed) \in StateFile
    BY <1>0, FilesTyped
  <2>2. FilesType' /\ ProcType'
    BY <1>1, <1>p, <2>1, SaveTyped DEF Prepare
  <2>3. QED  BY <1>1, <2>2 DEF Prepare, TypeOK, FilesType, ProcType
<1>2. CASE CancelPrepared(s)
  <2>1. FilesType' /\ ProcType'
    BY <1>0, <1>2, <1>p, FilesTyped, SaveTyped DEF CancelPrepared
  <2>2. QED  BY <1>2, <2>1 DEF CancelPrepared, TypeOK, FilesType, ProcType
<1>3. CASE Send(s)
  <2>1. [mem[s] EXCEPT !.st = "preparing_dispatch"] \in StateFile
    BY <1>0, <1>s, StatusUpdate DEF Fields
  <2>2. FilesType' /\ ProcType'
    BY <1>3, <1>p, <2>1, SaveTyped DEF Send
  <2>3. QED  BY <1>3, <2>2 DEF Send, TypeOK, FilesType, ProcType
<1>4. CASE SendProbeFails(s)
  BY <1>4, LostTyped DEF SendProbeFails, TypeOK, FilesType
<1>5. CASE RecordDecision(s)
  <2>1. dec' \in [Actions -> {"none", "recommended", "resolved", "skipped"}]
    BY <1>5 DEF RecordDecision, TypeOK
  <2>2. latest' \in Nat
    BY <1>0, <1>5 DEF RecordDecision, TypeOK
  <2>3. FilesType' /\ ProcType'
    BY <1>5, <1>p, BackTyped DEF RecordDecision, TypeOK, FilesType, ProcType
  <2>4. QED  BY <1>5, <2>1, <2>2, <2>3 DEF RecordDecision, TypeOK, FilesType, ProcType
<1>6. CASE RecordRefused(s)
  BY <1>6, BackTyped DEF RecordRefused, TypeOK, FilesType
<1>7. CASE Barrier(s)
  <2>1. [mem[s] EXCEPT !.st = "attempted", !.att = inputs] \in StateFile
    BY <1>0, <1>s, BarrierUpdate DEF Fields
  <2>2. FilesType' /\ ProcType'
    BY <1>7, <1>p, <2>1, SaveTyped DEF Barrier
  <2>3. QED  BY <1>7, <2>2 DEF Barrier, TypeOK, FilesType, ProcType
<1>8. CASE Call(s)
  BY <1>8, <1>p DEF Call, TypeOK
<1>9. CASE CallRefused(s)
  <2>1. [mem[s] EXCEPT !.st = "preparing_dispatch"] \in StateFile
    BY <1>0, <1>s, StatusUpdate DEF Fields
  <2>2. FilesType' /\ ProcType'
    BY <1>9, <1>p, <2>1, SaveTyped, BackTyped DEF CallRefused, TypeOK, ProcType
  <2>3. QED  BY <1>9, <2>2 DEF CallRefused, TypeOK, FilesType, ProcType
<1>10. CASE ReplyConfirmed(s)
  <2>1. [mem[s] EXCEPT !.resp = "ok"] \in StateFile
    BY <1>0, ResponseUpdate DEF Fields
  <2>2. FilesType' /\ ProcType'
    BY <1>10, <1>p, <2>1, SaveTyped DEF ReplyConfirmed
  <2>3. QED  BY <1>10, <2>2 DEF ReplyConfirmed, TypeOK, FilesType, ProcType
<1>11. CASE ReplyFails(s)
  <2>1. PICK r \in {"none", "not_sent"}, written \in BOOLEAN, failed \in BOOLEAN :
          LET new == [mem[s] EXCEPT !.resp = r] IN
          /\ faults' = IF failed THEN faults + 1 ELSE faults
          /\ disk' = IF written THEN [disk EXCEPT ![s] = new] ELSE disk
          /\ IF policy[s] = "learning"
             THEN GoDown(s, disk'[s])
             ELSE /\ pc' = [pc EXCEPT ![s] = "idle"]
                  /\ armed' = [armed EXCEPT ![s] = FALSE]
                  /\ poisoned' = [poisoned EXCEPT ![s] = failed]
                  /\ mem' = [mem EXCEPT ![s] = new]
          /\ UNCHANGED <<policy, ledgVars, gameVars, owner, aged>>
    BY <1>11 DEF ReplyFails
  <2>2. [mem[s] EXCEPT !.resp = r] \in StateFile
    BY <1>0, ResponseUpdate DEF Fields
  <2>3. disk' \in [Sessions -> StateFile] /\ disk'[s] \in StateFile /\ faults' \in Nat
    BY <2>1, <2>2 DEF TypeOK
  <2>4. FilesType' /\ ProcType'
    BY <1>p, <2>1, <2>2, <2>3, DownTyped DEF TypeOK, FilesType, ProcType
  <2>5. QED  BY <2>1, <2>4 DEF TypeOK, FilesType, ProcType
<1>12. QED
  BY <1>1, <1>2, <1>3, <1>4, <1>5, <1>6, <1>7, <1>8, <1>9, <1>10, <1>11 DEF Dispatch

\* So do the actions that settle an input.
LEMMA ResolveTyped ==
  ASSUME NEW s \in Sessions, TypeOK, Resolve(s)
  PROVE  TypeOK'
<1> USE DEF ledgVars, gameVars
<1>0. mem[s] \in StateFile /\ mem[s].completed \in Nat /\ mem[s].completed + 1 \in Nat
      /\ mem[s].seen \in Nat
  BY DEF TypeOK, StateFile
<1>p. {"idle", "log", "clear", "discard"} \subseteq Points
  BY DEF Points
<1>c. ASSUME NEW c \in 0..inputs PROVE c \in Nat
  BY <1>c DEF TypeOK
<1>u. ASSUME NEW c \in 0..inputs, NEW k \in {"verified", "not_performed"},
             NEW b \in LaterChoice(mem[s].id, c)
      PROVE  [mem[s] EXCEPT !.st = "verified_pending_log", !.kind = k, !.seen = c, !.later = b] \in StateFile
  <2>1. b \in BOOLEAN
    BY <1>u DEF LaterChoice
  <2>2. QED  BY <1>0, <1>c, <1>u, <2>1, ResultUpdate DEF Fields
<1>1. ASSUME NEW c \in 0..inputs, Verify(s, c) PROVE TypeOK'
  <2>1. FilesType' /\ ProcType'
    BY <1>0, <1>1, <1>p, <1>u, SaveTyped DEF Verify
  <2>2. QED  BY <1>1, <2>1 DEF Verify, TypeOK, FilesType, ProcType
<1>2. ASSUME NEW c \in 0..inputs, ReconcileNotPerformed(s, c) PROVE TypeOK'
  <2>1. FilesType' /\ ProcType'
    BY <1>0, <1>2, <1>p, <1>u, SaveTyped DEF ReconcileNotPerformed
  <2>2. QED  BY <1>2, <2>1 DEF ReconcileNotPerformed, TypeOK, FilesType, ProcType
<1>3. ASSUME NEW c \in 0..inputs, ReconcileUnknown(s, c) PROVE TypeOK'
  <2>1. FilesType' /\ ProcType'
    BY <1>0, <1>3, <1>p, SaveTyped, BackTyped DEF ReconcileUnknown, TypeOK, ProcType
  <2>2. latest' \in Nat /\ doubt' \in [Actions -> BOOLEAN]
    BY <1>3, <1>c DEF ReconcileUnknown, TypeOK
  <2>3. QED  BY <1>3, <2>1, <2>2 DEF ReconcileUnknown, TypeOK, FilesType, ProcType
<1>4. ASSUME NEW c \in 0..inputs, RecoverUnsent(s, c) PROVE TypeOK'
  <2>1. dec' \in [Actions -> {"none", "recommended", "resolved", "skipped"}] /\ latest' \in Nat
    BY <1>4, <1>c DEF RecoverUnsent, TypeOK
  <2>2. pc' \in [Sessions -> Points]
    BY <1>4, <1>p DEF RecoverUnsent, TypeOK
  <2>3. QED  BY <1>4, <2>1, <2>2 DEF RecoverUnsent, TypeOK
<1>5. CASE Finalize(s)
  BY <1>5, <1>p DEF Finalize, TypeOK
<1>6. CASE LogOutcome(s)
  <2>1. dec' \in [Actions -> {"none", "recommended", "resolved", "skipped"}] /\ latest' \in Nat
    BY <1>0, <1>6 DEF LogOutcome, TypeOK
  <2>2. FilesType' /\ ProcType'
    BY <1>6, <1>p, BackTyped DEF LogOutcome, TypeOK, FilesType, ProcType
  <2>3. QED  BY <1>6, <2>1, <2>2 DEF LogOutcome, TypeOK, FilesType, ProcType
<1>7. CASE LogReplayed(s)
  BY <1>7, <1>p DEF LogReplayed, TypeOK
<1>8. CASE LogFails(s)
  <2>1. FilesType' /\ ProcType'
    BY <1>8, BackTyped DEF LogFails, TypeOK, FilesType, ProcType
  <2>2. QED  BY <1>8, <2>1 DEF LogFails, TypeOK, FilesType, ProcType
<1>9. CASE Clear(s)
  <2>1. NoPending(mem[s].completed + 1) \in StateFile
    BY <1>0, FilesTyped
  <2>2. FilesType' /\ ProcType'
    BY <1>0, <1>9, <1>p, <2>1, SaveTyped, DownTyped DEF Clear, TypeOK, FilesType, ProcType
  <2>3. QED  BY <1>9, <2>2 DEF Clear, TypeOK, FilesType, ProcType
<1>10. CASE Discard(s)
  <2>1. FilesType' /\ ProcType'
    BY <1>0, <1>10, <1>p, FilesTyped, SaveTyped DEF Discard
  <2>2. QED  BY <1>10, <2>1 DEF Discard, TypeOK, FilesType, ProcType
<1>11. QED
  BY <1>1, <1>2, <1>3, <1>4, <1>5, <1>6, <1>7, <1>8, <1>9, <1>10 DEF Resolve

\* So do the controller, the clock and other programs.
LEMMA EnvironmentTyped ==
  ASSUME NEW a \in Actions, TypeOK, Environment(a)
  PROVE  TypeOK'
<1> USE DEF procVars, ledgVars, gameVars, TypeOK
<1>1. CASE Execute(a)      BY <1>1 DEF Execute
<1>2. CASE Drop(a)         BY <1>2 DEF Drop
<1>3. CASE Age(a)          BY <1>3 DEF Age
<1>4. CASE ExternalWrite(a)  BY <1>4 DEF ExternalWrite
<1>5. QED  BY <1>1, <1>2, <1>3, <1>4 DEF Environment

LEMMA InitTyped == Init => TypeOK
<1> SUFFICES ASSUME Init PROVE TypeOK
  OBVIOUS
<1>1. NoPending(0) \in StateFile
  BY FilesTyped
<1>2. QED  BY <1>1 DEF Init, TypeOK, Points

LEMMA StepTyped == TypeOK /\ [Next]_vars => TypeOK'
<1> SUFFICES ASSUME TypeOK, [Next]_vars PROVE TypeOK'
  OBVIOUS
<1>1. CASE UNCHANGED vars
  BY <1>1 DEF vars, TypeOK
<1>2. CASE Next
  BY <1>2, ControlTyped, DispatchTyped, ResolveTyped, EnvironmentTyped DEF Next
<1>3. QED  BY <1>1, <1>2

\* Every reachable state is well typed: in particular every state.json, however
\* its writes were interrupted, is one the next process can load.
THEOREM TypeCorrect == Spec => []TypeOK
  BY InitTyped, StepTyped, PTL DEF Spec

-------------------------------------------------------------------------------
(* The inductive invariant: one step of one session *)

Held(t, a) == mem[t].id = a \/ disk[t].id = a

OthersFramed(s) ==
  /\ \A t \in Sessions \ {s} : /\ mem'[t] = mem[t] /\ disk'[t] = disk[t]
                               /\ pc'[t] = pc[t] /\ poisoned'[t] = poisoned[t]
  /\ \A t \in Sessions \ {s}, a \in Actions : Held(t, a) =>
       dec'[a] = dec[a] /\ wire'[a] = wire[a] /\ owner'[a] = owner[a]

\* The identifier of a pending action is an action.
LEMMA PendingIsAction ==
  ASSUME NEW f \in StateFile, NEW s, FileOK(s, f), f.st # "none"
  PROVE  f.id \in Actions
  BY DEF StateFile, FileOK

\* A session that does not take the step keeps everything it relies on.
LEMMA OtherSessions ==
  ASSUME NEW s \in Sessions, IInv, OthersFramed(s), NEW t \in Sessions \ {s}
  PROVE  /\ FileOK(t, mem[t])' /\ FileOK(t, disk[t])'
         /\ ~poisoned'[t] => mem'[t] = disk'[t]
         /\ poisoned'[t] => pc'[t] = "idle"
         /\ PointOK(pc[t], mem[t])'
<1>1. /\ mem[t] \in StateFile /\ disk[t] \in StateFile
      /\ FileOK(t, mem[t]) /\ FileOK(t, disk[t]) /\ PointOK(pc[t], mem[t])
      /\ ~poisoned[t] => mem[t] = disk[t]
      /\ poisoned[t] => pc[t] = "idle"
  BY DEF IInv, Safe, TypeOK, Files, InSync, Handlers
<1>2. mem'[t] = mem[t] /\ disk'[t] = disk[t] /\ pc'[t] = pc[t] /\ poisoned'[t] = poisoned[t]
  BY DEF OthersFramed
<1>3. ASSUME NEW f \in {mem[t], disk[t]}, f.id # None
      PROVE  dec'[f.id] = dec[f.id] /\ wire'[f.id] = wire[f.id] /\ owner'[f.id] = owner[f.id]
  <2>1. f.id \in Actions /\ Held(t, f.id)
    BY <1>1, <1>3 DEF StateFile, Held
  <2>2. QED  BY <2>1 DEF OthersFramed
<1>4. FileOK(t, mem[t])' /\ FileOK(t, disk[t])'
  BY <1>1, <1>2, <1>3 DEF FileOK
<1>5. PointOK(pc[t], mem[t])'
  BY <1>1, <1>2, <1>3, PendingIsAction, ConstantsAssumption DEF PointOK
<1>6. QED  BY <1>1, <1>2, <1>4, <1>5

\* So a step of one session only has to keep its own files and point, and the
\* two facts about the ledger.
LEMMA SessionStep ==
  ASSUME NEW s \in Sessions, IInv, OthersFramed(s),
         FileOK(s, mem[s])', FileOK(s, disk[s])',
         ~poisoned'[s] => mem'[s] = disk'[s], poisoned'[s] => pc'[s] = "idle",
         PointOK(pc[s], mem[s])', SkippedNeverDelivered', NoOrphanDecision'
  PROVE  Safe'
<1>1. Files'
  BY OtherSessions DEF Files
<1>2. InSync'
  BY OtherSessions DEF InSync
<1>3. Handlers'
  BY OtherSessions DEF Handlers
<1>4. QED  BY <1>1, <1>2, <1>3 DEF Safe

\* A handler moves on without touching files, ledger or controller.
LEMMA QuietStep ==
  ASSUME NEW s \in Sessions, NEW p \in Points, IInv,
         UNCHANGED <<mem, disk, poisoned, dec, wire, owner>>, pc' = [pc EXCEPT ![s] = p],
         poisoned[s] => p = "idle", PointOK(p, mem[s])
  PROVE  Safe'
<1>1. OthersFramed(s) /\ pc'[s] = p
  BY DEF OthersFramed, IInv, TypeOK
<1>2. FileOK(s, mem[s])' /\ FileOK(s, disk[s])' /\ (~poisoned'[s] => mem'[s] = disk'[s])
  BY DEF IInv, Safe, Files, InSync, FileOK
<1>3. PointOK(pc[s], mem[s])'
  BY <1>1 DEF PointOK
<1>4. SkippedNeverDelivered' /\ NoOrphanDecision'
  BY DEF IInv, Safe, SkippedNeverDelivered, NoOrphanDecision
<1>5. QED  BY <1>1, <1>2, <1>3, <1>4, SessionStep

\* The file f names every decision of s that the ledger waits for.
Names(s, f) ==
  \A a \in Actions : dec[a] = "recommended" /\ owner[a] = s => f.id = a /\ f.st \in Unsettled

\* The files on disk keep naming every pending decision.
LEMMA NamedStep ==
  ASSUME NEW s \in Sessions, IInv, UNCHANGED <<dec, owner>>,
         NEW new \in StateFile, Names(s, new),
         disk' = disk \/ disk' = [disk EXCEPT ![s] = new]
  PROVE  NoOrphanDecision'
<1>1. SUFFICES ASSUME NEW a \in Actions, dec[a] = "recommended"
               PROVE  owner[a] # None /\ disk'[owner[a]].id = a /\ disk'[owner[a]].st \in Unsettled
  BY DEF NoOrphanDecision
<1>2. owner[a] \in Sessions /\ disk[owner[a]].id = a /\ disk[owner[a]].st \in Unsettled
  BY <1>1 DEF IInv, Safe, NoOrphanDecision, TypeOK
<1>3. QED  BY <1>1, <1>2, ConstantsAssumption DEF Names, IInv, TypeOK

\* A save, successful or not, keeps the invariant when the state it writes and
\* the state it leaves in memory are both consistent with the ledger.
LEMMA SaveStep ==
  ASSUME NEW s \in Sessions, NEW new \in StateFile, NEW kept \in StateFile, NEW p \in Points,
         IInv, UNCHANGED <<dec, wire, owner>>, ~poisoned[s],
         FileOK(s, new), FileOK(s, kept), Names(s, new), PointOK(p, new),
         SaveAndGo(s, new, kept, p) \/ SaveFailed(s, new, kept)
  PROVE  Safe'
<1> USE DEF Saved, SaveFailed
<1>1. /\ mem \in [Sessions -> StateFile] /\ disk \in [Sessions -> StateFile]
      /\ pc \in [Sessions -> Points] /\ poisoned \in [Sessions -> BOOLEAN]
      /\ FileOK(s, disk[s])
  BY DEF IInv, TypeOK, Safe, Files
<1>2. \/ /\ mem' = [mem EXCEPT ![s] = new] /\ disk' = [disk EXCEPT ![s] = new]
         /\ pc' = [pc EXCEPT ![s] = p] /\ poisoned' = poisoned
      \/ /\ mem' = [mem EXCEPT ![s] = kept]
         /\ disk' = disk \/ disk' = [disk EXCEPT ![s] = new]
         /\ pc' = [pc EXCEPT ![s] = "idle"] /\ poisoned' = [poisoned EXCEPT ![s] = TRUE]
  BY DEF SaveAndGo
<1>3. OthersFramed(s)
  BY <1>1, <1>2 DEF OthersFramed
<1>4. FileOK(s, mem[s])' /\ FileOK(s, disk[s])'
  BY <1>1, <1>2 DEF FileOK
<1>5. /\ ~poisoned'[s] => mem'[s] = disk'[s]
      /\ poisoned'[s] => pc'[s] = "idle"
  BY <1>1, <1>2
<1>6. PointOK(pc[s], mem[s])'
  BY <1>1, <1>2 DEF PointOK
<1>7. SkippedNeverDelivered'
  BY DEF IInv, Safe, SkippedNeverDelivered
<1>8. NoOrphanDecision'
  BY <1>2, NamedStep
<1>9. QED  BY <1>3, <1>4, <1>5, <1>6, <1>7, <1>8, SessionStep

\* What is on disk names every pending decision of its session.
LEMMA DiskNames ==
  ASSUME NEW s \in Sessions, IInv
  PROVE  Names(s, disk[s])
  BY DEF IInv, Safe, NoOrphanDecision, Names

\* A process that ends forgets its memory, and its file has all it needs.
LEMMA DownStep ==
  ASSUME NEW s \in Sessions, IInv, UNCHANGED <<dec, wire, owner>>,
         NEW f \in StateFile, FileOK(s, f), Names(s, f),
         disk' = disk \/ disk' = [disk EXCEPT ![s] = f],
         GoDown(s, disk'[s])
  PROVE  Safe'
<1>1. /\ mem \in [Sessions -> StateFile] /\ disk \in [Sessions -> StateFile]
      /\ pc \in [Sessions -> Points] /\ poisoned \in [Sessions -> BOOLEAN]
      /\ FileOK(s, disk[s])
  BY DEF IInv, TypeOK, Safe, Files
<1>2. /\ mem'[s] = disk'[s] /\ pc'[s] = "down" /\ poisoned'[s] = FALSE
      /\ disk'[s] \in {disk[s], f}
  BY <1>1 DEF GoDown
<1>3. OthersFramed(s)
  BY <1>1 DEF OthersFramed, GoDown
<1>4. FileOK(s, mem[s])' /\ FileOK(s, disk[s])'
  BY <1>1, <1>2 DEF FileOK
<1>5. PointOK(pc[s], mem[s])'
  BY <1>2 DEF PointOK
<1>6. SkippedNeverDelivered'
  BY DEF IInv, Safe, SkippedNeverDelivered
<1>7. NoOrphanDecision'
  BY NamedStep
<1>8. QED  BY <1>2, <1>3, <1>4, <1>5, <1>6, <1>7, SessionStep

LEMMA CrashStep ==
  ASSUME NEW s \in Sessions, IInv, UNCHANGED <<disk, dec, wire, owner>>, GoDown(s, disk[s])
  PROVE  Safe'
<1>1. disk[s] \in StateFile /\ FileOK(s, disk[s])
  BY DEF IInv, TypeOK, Safe, Files
<1>2. QED  BY <1>1, DiskNames, DownStep

\* A handler that ends without its result, or with a lost transport.
LEMMA BackStep ==
  ASSUME NEW s \in Sessions, IInv, UNCHANGED <<dec, wire, owner>>, BackToIdle(s)
  PROVE  Safe'
<1>1. "idle" \in Points /\ PointOK("idle", mem[s])
  BY DEF Points, PointOK
<1>2. QED  BY <1>1, QuietStep DEF BackToIdle

LEMMA LostStep ==
  ASSUME NEW s \in Sessions, IInv, UNCHANGED <<disk, dec, wire, owner>>, TransportLost(s)
  PROVE  Safe'
<1>1. CASE policy[s] = "learning"
  BY <1>1, CrashStep DEF TransportLost
<1>2. CASE policy[s] # "learning"
  <2>1. "idle" \in Points /\ PointOK("idle", mem[s])
    BY DEF Points, PointOK
  <2>2. QED  BY <1>2, <2>1, QuietStep DEF TransportLost
<1>3. QED  BY <1>1, <1>2

\* The step changes the decision or the command of the pending action only.
LEMMA ActionStep ==
  ASSUME NEW s \in Sessions, NEW p \in Points, IInv, ~poisoned[s], mem[s].st # "none",
         NEW d, NEW w,
         dec' = [dec EXCEPT ![mem[s].id] = d], wire' = [wire EXCEPT ![mem[s].id] = w],
         UNCHANGED <<mem, disk, poisoned, owner>>, pc' = [pc EXCEPT ![s] = p],
         FileOK(s, mem[s])', PointOK(p, mem[s])',
         d = "skipped" => w \in {"none", "dropped"},
         d = "recommended" => mem[s].st \in Unsettled
  PROVE  Safe'
<1>1. /\ mem \in [Sessions -> StateFile] /\ disk \in [Sessions -> StateFile]
      /\ pc \in [Sessions -> Points]
      /\ dec \in [Actions -> {"none", "recommended", "resolved", "skipped"}]
      /\ wire \in [Actions -> {"none", "wire", "executed", "dropped"}]
      /\ mem[s] = disk[s] /\ FileOK(s, mem[s])
      /\ SkippedNeverDelivered /\ NoOrphanDecision
      /\ \A t \in Sessions : FileOK(t, mem[t]) /\ FileOK(t, disk[t])
  BY DEF IInv, TypeOK, Safe, Files, InSync
<1>2. mem[s].id \in Actions /\ owner[mem[s].id] = s
  BY <1>1, PendingIsAction, ConstantsAssumption DEF FileOK
<1>3. OthersFramed(s)
  <2>1. ASSUME NEW t \in Sessions \ {s}, NEW a \in Actions, Held(t, a)
        PROVE  a # mem[s].id
    <3>1. owner[a] = t
      BY <1>1, <2>1, ConstantsAssumption DEF Held, FileOK
    <3>2. QED  BY <1>2, <3>1
  <2>2. QED  BY <1>1, <2>1 DEF OthersFramed
<1>4. FileOK(s, disk[s])' /\ mem'[s] = disk'[s] /\ ~poisoned'[s]
  BY <1>1
<1>5. PointOK(pc[s], mem[s])'
  BY <1>1 DEF PointOK
<1>6. SkippedNeverDelivered'
  BY <1>1, <1>2 DEF SkippedNeverDelivered
<1>7. NoOrphanDecision'
  BY <1>1, <1>2, ConstantsAssumption DEF NoOrphanDecision
<1>8. QED  BY <1>3, <1>4, <1>5, <1>6, <1>7, SessionStep

-------------------------------------------------------------------------------
(* The inductive invariant: every action *)

\* A session that is at work is not poisoned, and one that is not poisoned has
\* its file in memory.
LEMMA AtWork ==
  ASSUME NEW s \in Sessions, IInv
  PROVE  /\ pc[s] # "idle" => ~poisoned[s]
         /\ ~poisoned[s] => mem[s] = disk[s] /\ Names(s, mem[s])
         /\ mem[s] \in StateFile /\ FileOK(s, mem[s]) /\ PointOK(pc[s], mem[s])
  BY DiskNames DEF IInv, Safe, TypeOK, Files, InSync, Handlers

LEMMA ControlSafe ==
  ASSUME NEW s \in Sessions, IInv, Control(s)
  PROVE  Safe'
<1> USE DEF ledgVars, gameVars, Idle
<1>0. \A p \in {"idle", "down", "arming"} : p \in Points /\ PointOK(p, mem[s])
  BY DEF Points, PointOK
<1>m. mem \in [Sessions -> StateFile]
  BY DEF IInv, TypeOK
<1>1. ASSUME NEW q \in Policies, Open(s, q) PROVE Safe'
  <2>1. mem' = mem
    BY <1>1, <1>m, AtWork DEF Open
  <2>2. QED  BY <1>0, <1>1, <2>1, AtWork, QuietStep DEF Open
<1>2. CASE ArmCheck(s)
  BY <1>0, <1>2, QuietStep DEF ArmCheck
<1>3. CASE Arm(s)
  BY <1>0, <1>3, QuietStep DEF Arm
<1>4. CASE ArmFails(s)
  <2>1. ~poisoned[s]
    BY <1>4, AtWork DEF ArmFails
  <2>2. CASE UNCHANGED <<disk, faults>> /\ TransportLost(s)
    BY <1>4, <2>2, LostStep DEF ArmFails
  <2>3. CASE SaveFailed(s, mem[s], mem[s])
    BY <1>0, <1>4, <2>1, <2>3, AtWork, SaveStep DEF ArmFails
  <2>4. QED  BY <1>4, <2>2, <2>3 DEF ArmFails
<1>5. CASE Stop(s)
  BY <1>5, CrashStep DEF Stop
<1>6. CASE Crash(s)
  BY <1>6, CrashStep DEF Crash
<1>7. CASE Refuse(s)
  BY <1>7, BackStep DEF Refuse
<1>8. CASE OtherSaveFails(s)
  BY <1>0, <1>8, AtWork, SaveStep DEF OtherSaveFails
<1>9. QED  BY <1>1, <1>2, <1>3, <1>4, <1>5, <1>6, <1>7, <1>8 DEF Control

\* A fresh identifier: nobody holds it, and no decision of s is pending.
LEMMA PrepareSafe ==
  ASSUME NEW s \in Sessions, NEW a \in Actions, NEW c \in 0..inputs, IInv, Prepare(s, a, c)
  PROVE  Safe'
<1> DEFINE new == Prepared(a, c, mem[s].completed)
<1>1. /\ mem \in [Sessions -> StateFile] /\ disk \in [Sessions -> StateFile]
      /\ pc \in [Sessions -> Points] /\ poisoned \in [Sessions -> BOOLEAN]
      /\ owner \in [Actions -> Sessions \cup {None}]
      /\ SkippedNeverDelivered /\ NoOrphanDecision
  BY DEF IInv, TypeOK, Safe
<1>2. /\ ~poisoned[s] /\ mem[s] = disk[s] /\ mem[s].id = None /\ FileOK(s, disk[s])
      /\ \A t \in Sessions : ~Held(t, a)
      /\ dec[a] = "none" /\ wire[a] = "none" /\ UNCHANGED <<dec, wire>>
      /\ owner' = [owner EXCEPT ![a] = s]
  BY AtWork DEF Prepare, Idle, Pending, FileOK, Held, ledgVars, gameVars
<1>3. \/ /\ mem' = [mem EXCEPT ![s] = new] /\ disk' = [disk EXCEPT ![s] = new]
         /\ pc' = [pc EXCEPT ![s] = "idle"] /\ poisoned' = poisoned
      \/ /\ mem' = [mem EXCEPT ![s] = new]
         /\ disk' = disk \/ disk' = [disk EXCEPT ![s] = new]
         /\ pc' = [pc EXCEPT ![s] = "idle"] /\ poisoned' = [poisoned EXCEPT ![s] = TRUE]
  BY DEF Prepare, SaveAndGo, Saved, SaveFailed
<1>4. new.id = a /\ new.st = "prepared" /\ new.resp = "none" /\ new.kind = "none"
  BY DEF Prepared, NoPending
<1> HIDE DEF new
<1>5. OthersFramed(s)
  BY <1>1, <1>2, <1>3 DEF OthersFramed
<1>6. mem'[s] = new /\ disk'[s] \in {new, disk[s]} /\ pc'[s] = "idle"
  BY <1>1, <1>3
<1>7. FileOK(s, mem[s])'
  BY <1>1, <1>2, <1>4, <1>6, ConstantsAssumption DEF FileOK
<1>8. FileOK(s, disk[s])'
  <2>1. disk[s].id = None /\ disk[s].st = "none" /\ disk[s].resp # "not_sent"
        /\ disk[s].kind # "not_performed"
    BY <1>2 DEF FileOK
  <2>2. CASE disk'[s] = mem'[s]
    BY <1>7, <2>2 DEF FileOK
  <2>3. CASE disk'[s] = disk[s]
    BY <2>1, <2>3 DEF FileOK
  <2>4. QED  BY <1>6, <2>2, <2>3
<1>9. PointOK(pc[s], mem[s])'
  BY <1>6 DEF PointOK
<1>10. ~poisoned'[s] => mem'[s] = disk'[s]
  BY <1>1, <1>2, <1>3, <1>6
<1>11. SkippedNeverDelivered'
  BY <1>1, <1>2 DEF SkippedNeverDelivered
<1>12. NoOrphanDecision'
  <2>1. SUFFICES ASSUME NEW b \in Actions, dec[b] = "recommended"
                 PROVE  /\ owner'[b] # None /\ disk'[owner'[b]].id = b
                        /\ disk'[owner'[b]].st \in Unsettled
    BY <1>2 DEF NoOrphanDecision
  <2>2. /\ b # a /\ owner[b] \in Sessions /\ disk[owner[b]].id = b
        /\ disk[owner[b]].st \in Unsettled
    BY <1>1, <1>2, <2>1 DEF NoOrphanDecision
  <2>3. owner[b] # s
    BY <1>2, <2>2, ConstantsAssumption
  <2>4. QED  BY <1>1, <1>2, <1>5, <2>2, <2>3, ConstantsAssumption DEF OthersFramed
<1>13. QED  BY <1>5, <1>6, <1>7, <1>8, <1>9, <1>10, <1>11, <1>12, SessionStep

\* Sending, recording, the barrier, the call and its reply.
LEMMA SendSafe ==
  ASSUME NEW s \in Sessions, IInv,
         CancelPrepared(s) \/ Send(s) \/ SendProbeFails(s) \/ RecordDecision(s) \/ RecordRefused(s)
  PROVE  Safe'
<1> USE DEF ledgVars, gameVars, Idle, Pending
<1>0. /\ \A p \in {"idle", "record", "barrier"} : p \in Points
      /\ \A f \in StateFile : PointOK("idle", f)
      /\ mem[s].completed \in Nat
  BY DEF Points, PointOK, IInv, TypeOK, StateFile
<1>1. CASE CancelPrepared(s)
  <2> DEFINE new == NoPending(mem[s].completed)
  <2>1. new \in StateFile /\ FileOK(s, new)
    BY <1>0, FilesTyped DEF NoPending, FileOK
  <2>2. Names(s, new)
    BY <1>1, AtWork DEF CancelPrepared, Cancellable, Names, Unsettled
  <2> HIDE DEF new
  <2>3. QED
    BY <1>0, <1>1, <2>1, <2>2, AtWork, SaveStep DEF CancelPrepared, new
<1>2. CASE Send(s)
  <2> DEFINE new == [mem[s] EXCEPT !.st = "preparing_dispatch"]
  <2>1. ~poisoned[s] /\ mem[s].st = "prepared" /\ mem[s].id \in Actions /\ dec[mem[s].id] = "none"
    BY <1>2, AtWork, PendingIsAction DEF Send, Sendable, FileOK
  <2>2. Fields(new, mem[s].id, "preparing_dispatch", mem[s].resp, mem[s].kind)
    BY AtWork, StatusUpdate DEF Statuses
  <2> HIDE DEF new
  <2> USE DEF Fields
  <2>3. FileOK(s, new)
    BY <2>1, <2>2, AtWork DEF FileOK
  <2>4. Names(s, new)
    BY <2>1, <2>2, AtWork DEF Names, Unsettled
  <2>5. PointOK("record", new)
    BY <2>1, <2>2 DEF PointOK
  <2>6. SaveAndGo(s, new, new, "record") /\ UNCHANGED <<dec, wire, owner>>
    BY <1>2 DEF Send, new
  <2>7. QED  BY <1>0, <2>1, <2>2, <2>3, <2>4, <2>5, <2>6, SaveStep
<1>3. CASE SendProbeFails(s)
  BY <1>3, LostStep DEF SendProbeFails
<1>4. CASE RecordDecision(s)
  <2>1. /\ ~poisoned[s] /\ mem[s].st = "preparing_dispatch" /\ dec[mem[s].id] = "none"
        /\ mem[s].id \in Actions /\ FileOK(s, mem[s])
    BY <1>4, AtWork, PendingIsAction DEF RecordDecision, PointOK
  <2>2. /\ dec' = [dec EXCEPT ![mem[s].id] = "recommended"]
        /\ UNCHANGED <<mem, disk, poisoned, wire, owner>>
        /\ \E p \in {"idle", "barrier"} : pc' = [pc EXCEPT ![s] = p]
    BY <1>4, <2>1 DEF RecordDecision, BackToIdle
  <2>3. dec'[mem[s].id] = "recommended"
    BY <2>1, <2>2 DEF IInv, TypeOK
  <2>4. FileOK(s, mem[s])'
    BY <2>1, <2>2 DEF FileOK
  <2>5. \A p \in {"idle", "barrier"} : PointOK(p, mem[s])'
    BY <2>1, <2>2, <2>3 DEF PointOK
  <2>6. wire' = [wire EXCEPT ![mem[s].id] = wire[mem[s].id]]
    BY <2>1, <2>2 DEF IInv, TypeOK
  <2>7. QED
    BY <1>0, <2>1, <2>2, <2>4, <2>5, <2>6, ActionStep DEF Unsettled
<1>5. CASE RecordRefused(s)
  BY <1>5, BackStep DEF RecordRefused
<1>6. QED  BY <1>1, <1>2, <1>3, <1>4, <1>5

LEMMA CallSafe ==
  ASSUME NEW s \in Sessions, IInv,
         Barrier(s) \/ Call(s) \/ CallRefused(s) \/ ReplyConfirmed(s)
  PROVE  Safe'
<1> USE DEF ledgVars, gameVars
<1>0. \A p \in {"idle", "call", "reply"} : p \in Points
  BY DEF Points
<1>w. mem[s] \in StateFile /\ FileOK(s, mem[s]) /\ PointOK(pc[s], mem[s]) /\ inputs \in Nat
  BY AtWork DEF IInv, TypeOK
<1>1. CASE Barrier(s)
  <2> DEFINE new == [mem[s] EXCEPT !.st = "attempted", !.att = inputs]
  <2>1. /\ ~poisoned[s] /\ mem[s].st = "preparing_dispatch" /\ mem[s].id \in Actions
        /\ dec[mem[s].id] = "recommended" /\ wire[mem[s].id] = "none" /\ Names(s, mem[s])
    BY <1>1, <1>w, AtWork, PendingIsAction, ConstantsAssumption DEF Barrier, PointOK, FileOK
  <2>2. Fields(new, mem[s].id, "attempted", mem[s].resp, mem[s].kind)
    BY <1>w, BarrierUpdate
  <2> HIDE DEF new
  <2> USE DEF Fields
  <2>3. FileOK(s, new)
    BY <1>w, <2>1, <2>2 DEF FileOK
  <2>4. Names(s, new) /\ PointOK("call", new)
    BY <2>1, <2>2 DEF Names, Unsettled, PointOK
  <2>5. SaveAndGo(s, new, new, "call") /\ UNCHANGED <<dec, wire, owner>>
    BY <1>1 DEF Barrier, new
  <2>6. QED  BY <1>0, <2>1, <2>2, <2>3, <2>4, <2>5, SaveStep
<1>2. CASE Call(s)
  <2>1. /\ ~poisoned[s] /\ mem[s].st = "attempted" /\ mem[s].id \in Actions
        /\ dec[mem[s].id] = "recommended" /\ wire[mem[s].id] = "none"
    BY <1>2, <1>w, AtWork, PendingIsAction DEF Call, PointOK
  <2>2. /\ dec' = [dec EXCEPT ![mem[s].id] = "recommended"]
        /\ wire' = [wire EXCEPT ![mem[s].id] = "wire"] /\ dec' = dec
        /\ UNCHANGED <<mem, disk, poisoned, owner>> /\ pc' = [pc EXCEPT ![s] = "reply"]
    BY <1>2, <2>1 DEF Call, IInv, TypeOK
  <2>3. FileOK(s, mem[s])'
    BY <1>w, <2>1, <2>2 DEF FileOK
  <2>4. PointOK("reply", mem[s])'
    BY <2>1, <2>2 DEF PointOK
  <2>5. QED  BY <1>0, <2>1, <2>2, <2>3, <2>4, ActionStep DEF Unsettled
<1>3. CASE CallRefused(s)
  <2>1. CASE policy[s] = "strict"
    BY <1>3, <2>1, BackStep DEF CallRefused
  <2>2. CASE policy[s] # "strict"
    <3> DEFINE new == [mem[s] EXCEPT !.st = "preparing_dispatch"]
    <3>1. /\ ~poisoned[s] /\ mem[s].st = "attempted" /\ mem[s].id \in Actions
          /\ wire[mem[s].id] = "none" /\ Names(s, mem[s])
      BY <1>3, <1>w, AtWork, PendingIsAction DEF CallRefused, PointOK
    <3>2. Fields(new, mem[s].id, "preparing_dispatch", mem[s].resp, mem[s].kind)
      BY <1>w, StatusUpdate DEF Statuses
    <3> HIDE DEF new
    <3> USE DEF Fields
    <3>3. FileOK(s, new)
      BY <1>w, <3>1, <3>2 DEF FileOK
    <3>4. Names(s, new) /\ PointOK("idle", new)
      BY <3>1, <3>2 DEF Names, Unsettled, PointOK
    <3>5. SaveAndGo(s, new, new, "idle") /\ UNCHANGED <<dec, wire, owner>>
      BY <1>3, <2>2 DEF CallRefused, new
    <3>6. QED  BY <1>0, <3>1, <3>2, <3>3, <3>4, <3>5, SaveStep
  <2>3. QED  BY <2>1, <2>2
<1>4. CASE ReplyConfirmed(s)
  <2> DEFINE new == [mem[s] EXCEPT !.resp = "ok"]
  <2>1. ~poisoned[s] /\ mem[s].st = "attempted" /\ Names(s, mem[s])
    BY <1>4, <1>w, AtWork DEF ReplyConfirmed, PointOK
  <2>2. Fields(new, mem[s].id, "attempted", "ok", mem[s].kind)
    BY <1>w, <2>1, ResponseUpdate
  <2> HIDE DEF new
  <2> USE DEF Fields
  <2>3. FileOK(s, new)
    BY <1>w, <2>1, <2>2 DEF FileOK
  <2>4. Names(s, new) /\ PointOK("idle", new)
    BY <2>1, <2>2 DEF Names, Unsettled, PointOK
  <2>5. SaveAndGo(s, new, new, "idle") /\ UNCHANGED <<dec, wire, owner>>
    BY <1>4 DEF ReplyConfirmed, new
  <2>6. QED  BY <1>0, <2>1, <2>2, <2>3, <2>4, <2>5, SaveStep
<1>5. QED  BY <1>1, <1>2, <1>3, <1>4

\* An answer that proves nothing, or a not_sent that the bridge vouches for.
LEMMA ReplyFailsSafe ==
  ASSUME NEW s \in Sessions, IInv, ReplyFails(s)
  PROVE  Safe'
<1>1. PICK r \in {"none", "not_sent"}, written \in BOOLEAN, failed \in BOOLEAN :
        LET new == [mem[s] EXCEPT !.resp = r] IN
        /\ pc[s] = "reply" /\ (r = "not_sent" => wire[mem[s].id] = "dropped")
        /\ written \/ failed
        /\ disk' = IF written THEN [disk EXCEPT ![s] = new] ELSE disk
        /\ IF policy[s] = "learning"
           THEN GoDown(s, disk'[s])
           ELSE /\ pc' = [pc EXCEPT ![s] = "idle"]
                /\ poisoned' = [poisoned EXCEPT ![s] = failed]
                /\ mem' = [mem EXCEPT ![s] = new]
        /\ UNCHANGED <<dec, wire, owner>>
  BY DEF ReplyFails, ledgVars, gameVars
<1> DEFINE new == [mem[s] EXCEPT !.resp = r]
<1>2. /\ ~poisoned[s] /\ mem[s].st = "attempted" /\ mem[s].id \in Actions /\ mem[s] \in StateFile
      /\ FileOK(s, mem[s]) /\ Names(s, mem[s])
  BY <1>1, AtWork, PendingIsAction DEF PointOK
<1>3. Fields(new, mem[s].id, "attempted", r, mem[s].kind)
  BY <1>2, ResponseUpdate
<1>4. /\ disk' = disk \/ disk' = [disk EXCEPT ![s] = new]
      /\ ~failed => disk' = [disk EXCEPT ![s] = new]
      /\ policy[s] = "learning" => GoDown(s, disk'[s])
      /\ policy[s] # "learning" =>
           /\ pc' = [pc EXCEPT ![s] = "idle"]
           /\ poisoned' = [poisoned EXCEPT ![s] = failed]
           /\ mem' = [mem EXCEPT ![s] = new]
      /\ UNCHANGED <<dec, wire, owner>>
  BY <1>1
<1> HIDE DEF new
<1> USE DEF Fields
<1>5. FileOK(s, new) /\ Names(s, new)
  BY <1>1, <1>2, <1>3, ConstantsAssumption DEF FileOK, Names
<1>6. CASE policy[s] = "learning"
  BY <1>1, <1>3, <1>4, <1>5, <1>6, DownStep
<1>7. CASE policy[s] # "learning"
  <2>1. /\ mem \in [Sessions -> StateFile] /\ disk \in [Sessions -> StateFile]
        /\ pc \in [Sessions -> Points] /\ poisoned \in [Sessions -> BOOLEAN] /\ FileOK(s, disk[s])
    BY DEF IInv, TypeOK, Safe, Files
  <2>2. /\ mem'[s] = new /\ disk'[s] \in {new, disk[s]} /\ pc'[s] = "idle"
        /\ ~poisoned'[s] => disk'[s] = new
    BY <1>4, <1>7, <2>1
  <2>3. OthersFramed(s)
    BY <1>1, <1>4, <1>7, <2>1 DEF OthersFramed
  <2>4. FileOK(s, mem[s])' /\ FileOK(s, disk[s])'
    <3>1. FileOK(s, mem[s])'
      BY <1>2, <1>3, <1>4, <1>5, <2>2 DEF FileOK
    <3>2. CASE disk'[s] = mem'[s]
      BY <3>1, <3>2 DEF FileOK
    <3>3. CASE disk'[s] = disk[s]
      BY <1>4, <2>1, <3>1, <3>3 DEF FileOK
    <3>4. QED  BY <2>2, <3>1, <3>2, <3>3
  <2>5. PointOK(pc[s], mem[s])'
    BY <2>2 DEF PointOK
  <2>6. SkippedNeverDelivered'
    BY <1>1 DEF IInv, Safe, SkippedNeverDelivered
  <2>7. NoOrphanDecision'
    BY <1>1, <1>3, <1>4, <1>5, NamedStep
  <2>8. QED  BY <2>2, <2>3, <2>4, <2>5, <2>6, <2>7, SessionStep
<1>8. QED  BY <1>6, <1>7

LEMMA DispatchSafe ==
  ASSUME NEW s \in Sessions, IInv, Dispatch(s)
  PROVE  Safe'
  BY PrepareSafe, SendSafe, CallSafe, ReplyFailsSafe DEF Dispatch

\* Verifying and reconciling retain the result; nothing else changes.
LEMMA RetainStep ==
  ASSUME NEW s \in Sessions, IInv, NEW k \in {"verified", "not_performed"},
         ~poisoned[s], mem[s].st = "attempted", UNCHANGED <<dec, wire, owner>>,
         k = "not_performed" => mem[s].resp = "not_sent",
         NEW new, Fields(new, mem[s].id, "verified_pending_log", mem[s].resp, k),
         SaveAndGo(s, new, new, "log")
  PROVE  Safe'
<1>1. mem[s] \in StateFile /\ FileOK(s, mem[s]) /\ Names(s, mem[s])
  BY AtWork
<1> USE DEF Fields
<1>2. FileOK(s, new)
  BY <1>1 DEF FileOK
<1>3. Names(s, new) /\ PointOK("log", new) /\ "log" \in Points
  BY <1>1 DEF Names, Unsettled, PointOK, Points
<1>4. QED  BY <1>2, <1>3, SaveStep

LEMMA RetainSafe ==
  ASSUME NEW s \in Sessions, IInv, NEW c \in 0..inputs, Verify(s, c) \/ ReconcileNotPerformed(s, c)
  PROVE  Safe'
<1>1. ~poisoned[s] /\ mem[s].st = "attempted" /\ UNCHANGED <<dec, wire, owner>>
  BY DEF Verify, ReconcileNotPerformed, Idle, Pending, ledgVars, gameVars
<1>t. c \in Nat /\ mem[s] \in StateFile
  BY DEF IInv, TypeOK
<1> DEFINE new(k, b) ==
      [mem[s] EXCEPT !.st = "verified_pending_log", !.kind = k, !.seen = c, !.later = b]
<1>2. \A k \in {"verified", "not_performed"}, b \in BOOLEAN :
        Fields(new(k, b), mem[s].id, "verified_pending_log", mem[s].resp, k)
  BY <1>t, ResultUpdate
<1>3. CASE Verify(s, c)
  <2>1. PICK b \in BOOLEAN : SaveAndGo(s, new("verified", b), new("verified", b), "log")
    BY <1>3 DEF Verify, LaterChoice
  <2> HIDE DEF new
  <2>2. QED  BY <1>1, <1>2, <2>1, RetainStep
<1>4. CASE ReconcileNotPerformed(s, c)
  <2>1. PICK b \in BOOLEAN : SaveAndGo(s, new("not_performed", b), new("not_performed", b), "log")
    BY <1>4 DEF ReconcileNotPerformed, LaterChoice
  <2>2. mem[s].resp = "not_sent"
    BY <1>4 DEF ReconcileNotPerformed
  <2> HIDE DEF new
  <2>3. QED  BY <1>1, <1>2, <2>1, <2>2, RetainStep
<1>5. QED  BY <1>3, <1>4

\* The result reaches the ledger, and the pending action is cleared.
LEMMA LogSafe ==
  ASSUME NEW s \in Sessions, IInv,
         Finalize(s) \/ LogOutcome(s) \/ LogReplayed(s) \/ LogFails(s) \/ Clear(s)
  PROVE  Safe'
<1> USE DEF ledgVars, gameVars
<1>0. \A p \in {"idle", "log", "clear"} : p \in Points
  BY DEF Points
<1>w. mem[s] \in StateFile /\ FileOK(s, mem[s]) /\ PointOK(pc[s], mem[s])
  BY AtWork
<1>1. CASE Finalize(s)
  BY <1>0, <1>1, QuietStep DEF Finalize, Idle, Pending, PointOK
<1>2. CASE LogOutcome(s)
  <2>1. /\ ~poisoned[s] /\ mem[s].st = "verified_pending_log" /\ mem[s].id \in Actions
        /\ mem[s].kind \in {"verified", "not_performed"}
    BY <1>2, <1>w, AtWork, PendingIsAction DEF LogOutcome, PointOK, FileOK, StateFile
  <2> DEFINE d == IF mem[s].kind = "verified" THEN "resolved" ELSE "skipped"
  <2>2. /\ dec' = [dec EXCEPT ![mem[s].id] = d]
        /\ UNCHANGED <<mem, disk, poisoned, wire, owner>>
        /\ \E p \in {"idle", "clear"} : pc' = [pc EXCEPT ![s] = p]
    BY <1>2 DEF LogOutcome, BackToIdle
  <2>3. /\ d \in {"resolved", "skipped"} /\ (d = "skipped" => wire[mem[s].id] = "dropped")
        /\ dec'[mem[s].id] = d
    BY <1>w, <2>1, <2>2 DEF FileOK, IInv, TypeOK
  <2>4. wire' = [wire EXCEPT ![mem[s].id] = wire[mem[s].id]]
    BY <2>1, <2>2 DEF IInv, TypeOK
  <2> HIDE DEF d
  <2>5. FileOK(s, mem[s])'
    BY <1>w, <2>1, <2>2 DEF FileOK
  <2>6. \A p \in {"idle", "clear"} : PointOK(p, mem[s])'
    BY <2>1, <2>2, <2>3 DEF PointOK
  <2>7. QED
    BY <1>0, <2>1, <2>2, <2>3, <2>4, <2>5, <2>6, ActionStep
<1>3. CASE LogReplayed(s)
  BY <1>0, <1>3, <1>w, AtWork, QuietStep DEF LogReplayed, PointOK
<1>4. CASE LogFails(s)
  BY <1>4, BackStep DEF LogFails
<1>5. CASE Clear(s)
  <2> DEFINE new == NoPending(mem[s].completed + 1)
  <2>n. mem[s].completed + 1 \in Nat
    BY <1>w DEF StateFile
  <2>1. new \in StateFile /\ FileOK(s, new) /\ PointOK("idle", new)
    BY <2>n, FilesTyped DEF NoPending, FileOK, PointOK
  <2>2. ~poisoned[s] /\ dec[mem[s].id] \in {"resolved", "skipped"} /\ Names(s, mem[s])
    BY <1>5, <1>w, AtWork DEF Clear, PointOK
  <2>3. Names(s, new) /\ UNCHANGED <<dec, wire, owner>>
    BY <1>5, <2>2 DEF Clear, Names
  <2>4. \/ SaveAndGo(s, new, mem[s], "idle")
        \/ GoDown(s, new) /\ disk' = [disk EXCEPT ![s] = new]
    BY <1>5 DEF Clear
  <2> HIDE DEF new
  <2>5. CASE SaveAndGo(s, new, mem[s], "idle")
    BY <1>0, <1>w, <2>1, <2>2, <2>3, <2>5, SaveStep
  <2>6. CASE GoDown(s, new) /\ disk' = [disk EXCEPT ![s] = new]
    <3>1. disk'[s] = new
      BY <2>6 DEF IInv, TypeOK
    <3>2. QED  BY <2>1, <2>3, <2>6, <3>1, DownStep
  <2>7. QED  BY <2>4, <2>5, <2>6
<1>6. QED  BY <1>1, <1>2, <1>3, <1>4, <1>5

\* An unsent input is skipped in the ledger if it is there, then forgotten; an
\* unknown result changes only what later images must be compared with.
LEMMA RecoverSafe ==
  ASSUME NEW s \in Sessions, IInv, NEW c \in 0..inputs,
         RecoverUnsent(s, c) \/ ReconcileUnknown(s, c)
  PROVE  Safe'
<1> USE DEF ledgVars, gameVars
<1>0. \A p \in {"idle", "discard"} : p \in Points
  BY DEF Points
<1>w. mem[s] \in StateFile /\ FileOK(s, mem[s]) /\ PointOK(pc[s], mem[s])
  BY AtWork
<1>1. CASE RecoverUnsent(s, c)
  <2>1. /\ ~poisoned[s] /\ mem[s].st = "preparing_dispatch" /\ mem[s].id \in Actions
        /\ wire[mem[s].id] = "none"
        /\ UNCHANGED <<mem, disk, poisoned, wire, owner>> /\ pc' = [pc EXCEPT ![s] = "discard"]
    BY <1>1, <1>w, PendingIsAction, ConstantsAssumption
       DEF RecoverUnsent, Idle, Unsent, Pending, FileOK
  <2>2. CASE Recommended = {} /\ UNCHANGED <<dec, latest>>
    <3>1. PointOK("discard", mem[s])
      BY <2>1, <2>2 DEF Recommended, PointOK
    <3>2. QED  BY <1>0, <2>1, <2>2, <3>1, QuietStep
  <2>3. CASE dec' = [dec EXCEPT ![mem[s].id] = "skipped"]
    <3>1. wire' = [wire EXCEPT ![mem[s].id] = wire[mem[s].id]] /\ dec'[mem[s].id] = "skipped"
      BY <2>1, <2>3 DEF IInv, TypeOK
    <3>2. FileOK(s, mem[s])'
      BY <1>w, <2>1 DEF FileOK
    <3>3. PointOK("discard", mem[s])'
      BY <2>1, <3>1 DEF PointOK
    <3>4. QED  BY <1>0, <2>1, <2>3, <3>1, <3>2, <3>3, ActionStep
  <2>4. QED  BY <1>1, <2>2, <2>3 DEF RecoverUnsent
<1>2. CASE ReconcileUnknown(s, c)
  <2>1. UNCHANGED <<dec, wire, owner>> /\ ~poisoned[s] /\ Names(s, mem[s]) /\ PointOK("idle", mem[s])
    BY <1>2, AtWork DEF ReconcileUnknown, Idle, PointOK
  <2>2. QED  BY <1>0, <1>2, <1>w, <2>1, BackStep, SaveStep DEF ReconcileUnknown
<1>3. QED  BY <1>1, <1>2

\* The proven unsent input is forgotten.
LEMMA DiscardSafe ==
  ASSUME NEW s \in Sessions, IInv, Discard(s)
  PROVE  Safe'
<1> DEFINE new == NoPending(mem[s].completed)
<1>1. mem[s] \in StateFile /\ mem[s].completed \in Nat /\ "idle" \in Points
  BY AtWork DEF StateFile, Points
<1>2. new \in StateFile /\ FileOK(s, new) /\ PointOK("idle", new)
  BY <1>1, FilesTyped DEF NoPending, FileOK, PointOK
<1>3. ~poisoned[s] /\ FileOK(s, mem[s]) /\ Names(s, new)
  BY AtWork DEF Discard, PointOK, Names
<1> HIDE DEF new
<1>4. SaveAndGo(s, new, mem[s], "idle") /\ UNCHANGED <<dec, wire, owner>>
  BY DEF Discard, new, ledgVars, gameVars
<1>5. QED  BY <1>1, <1>2, <1>3, <1>4, SaveStep

LEMMA ResolveSafe ==
  ASSUME NEW s \in Sessions, IInv, Resolve(s)
  PROVE  Safe'
<1>1. CASE \E c \in 0..inputs : \/ Verify(s, c) \/ ReconcileNotPerformed(s, c)
                               \/ ReconcileUnknown(s, c) \/ RecoverUnsent(s, c)
  <2>1. PICK c \in 0..inputs : \/ Verify(s, c) \/ ReconcileNotPerformed(s, c)
                             \/ ReconcileUnknown(s, c) \/ RecoverUnsent(s, c)
    BY <1>1
  <2>2. CASE Verify(s, c) \/ ReconcileNotPerformed(s, c)
    BY <2>2, RetainSafe
  <2>3. CASE ReconcileUnknown(s, c) \/ RecoverUnsent(s, c)
    BY <2>3, RecoverSafe
  <2>4. QED  BY <2>1, <2>2, <2>3
<1>2. CASE Discard(s)
  BY <1>2, DiscardSafe
<1>3. CASE Finalize(s) \/ LogOutcome(s) \/ LogReplayed(s) \/ LogFails(s) \/ Clear(s)
  BY <1>3, LogSafe
<1>4. QED  BY <1>1, <1>2, <1>3 DEF Resolve

\* A command that arrives or is lost, time, and other programs.
LEMMA EnvironmentSafe ==
  ASSUME NEW a \in Actions, IInv, Environment(a)
  PROVE  Safe'
<1>1. /\ wire \in [Actions -> {"none", "wire", "executed", "dropped"}]
      /\ Files /\ InSync /\ Handlers /\ SkippedNeverDelivered /\ NoOrphanDecision
  BY DEF IInv, TypeOK, Safe
<1>2. /\ UNCHANGED <<pc, poisoned, mem, disk, dec, owner>>
      /\ wire' = wire \/ (wire[a] = "wire" /\ \E w \in {"executed", "dropped"} : wire' = [wire EXCEPT ![a] = w])
  BY DEF Environment, Execute, Drop, Age, ExternalWrite, procVars, ledgVars, gameVars
<1>3. \A b \in Actions :
        /\ wire'[b] = "none" <=> wire[b] = "none"
        /\ wire[b] = "dropped" => wire'[b] = "dropped"
  BY <1>1, <1>2
<1>4. Files'
  <2>1. SUFFICES ASSUME NEW t \in Sessions PROVE FileOK(t, mem[t])' /\ FileOK(t, disk[t])'
    BY DEF Files
  <2>2. FileOK(t, mem[t]) /\ FileOK(t, disk[t]) /\ mem[t] \in StateFile /\ disk[t] \in StateFile
    BY <1>1 DEF Files, IInv, TypeOK
  <2>3. mem[t].id \in Actions \cup {None} /\ disk[t].id \in Actions \cup {None}
    BY <2>2 DEF StateFile
  <2>4. FileOK(t, mem[t])'
    BY <1>2, <1>3, <2>2, <2>3 DEF FileOK
  <2>5. FileOK(t, disk[t])'
    BY <1>2, <1>3, <2>2, <2>3 DEF FileOK
  <2>6. QED  BY <2>4, <2>5
<1>5. InSync'
  BY <1>1, <1>2 DEF InSync
<1>6. Handlers'
  <2>1. SUFFICES ASSUME NEW t \in Sessions PROVE PointOK(pc[t], mem[t])'
    BY DEF Handlers
  <2>2. PointOK(pc[t], mem[t]) /\ mem[t] \in StateFile /\ FileOK(t, mem[t])
    BY <1>1 DEF Handlers, Files, IInv, TypeOK
  <2>3. pc[t] = "call" => mem[t].id \in Actions
    BY <2>2, PendingIsAction DEF PointOK
  <2>4. QED  BY <1>2, <1>3, <2>2, <2>3 DEF PointOK
<1>7. SkippedNeverDelivered'
  BY <1>1, <1>2, <1>3 DEF SkippedNeverDelivered
<1>8. NoOrphanDecision'
  BY <1>1, <1>2 DEF NoOrphanDecision
<1>9. QED  BY <1>4, <1>5, <1>6, <1>7, <1>8 DEF Safe

LEMMA InitSafe == Init => Safe
<1>1. SUFFICES ASSUME Init PROVE Safe
  OBVIOUS
<1>2. \A s \in Sessions : /\ mem[s] = NoPending(0) /\ disk[s] = NoPending(0)
                         /\ pc[s] = "down" /\ poisoned[s] = FALSE
  BY <1>1 DEF Init
<1>3. \A s \in Sessions : FileOK(s, NoPending(0)) /\ PointOK("down", NoPending(0))
  BY DEF FileOK, PointOK, NoPending
<1>4. Files /\ Handlers
  BY <1>2, <1>3 DEF Files, Handlers
<1>5. InSync
  BY <1>2 DEF InSync
<1>6. SkippedNeverDelivered /\ NoOrphanDecision
  BY <1>1 DEF Init, SkippedNeverDelivered, NoOrphanDecision
<1>7. QED  BY <1>4, <1>5, <1>6 DEF Safe

LEMMA StutterSafe ==
  ASSUME IInv, UNCHANGED vars
  PROVE  Safe'
  BY DEF vars, IInv, Safe, Files, FileOK, InSync, Handlers, PointOK, SkippedNeverDelivered, NoOrphanDecision

\* Every step of every session, and of the world around, keeps the invariant.
LEMMA StepSafe == IInv /\ [Next]_vars => IInv'
<1>1. SUFFICES ASSUME IInv, [Next]_vars PROVE IInv'
  OBVIOUS
<1>2. TypeOK'
  BY <1>1, StepTyped DEF IInv
<1>3. Safe'
  <2>1. CASE \E s \in Sessions : Control(s) \/ Dispatch(s) \/ Resolve(s)
    BY <1>1, <2>1, ControlSafe, DispatchSafe, ResolveSafe
  <2>2. CASE \E a \in Actions : Environment(a)
    BY <1>1, <2>2, EnvironmentSafe
  <2>3. CASE UNCHANGED vars
    BY <1>1, <2>3, StutterSafe
  <2>4. QED  BY <1>1, <2>1, <2>2, <2>3 DEF Next
<1>4. QED  BY <1>2, <1>3 DEF IInv

\* The files, handlers and ledger of all sessions agree in every reachable
\* state, for any number of sessions, inputs, crashes and failed writes.
THEOREM Invariant == Spec => []IInv
<1>1. Init => IInv
  BY InitTyped, InitSafe DEF IInv
<1>2. QED  BY <1>1, StepSafe, PTL DEF Spec

-------------------------------------------------------------------------------
(* What the invariant gives *)

\* Before every call of the controller state.json says "attempted" for the
\* very input the ledger waits for.
THEOREM BarrierIsDurable == Spec => []DurableBarrier
<1>1. IInv => DurableBarrier
  <2>1. SUFFICES ASSUME IInv, NEW s \in Sessions, pc[s] = "call"
                 PROVE  disk[s].id = mem[s].id /\ disk[s].st = "attempted" /\ dec[disk[s].id] = "recommended"
    BY DEF DurableBarrier
  <2>2. QED  BY <2>1, AtWork DEF PointOK
<1>2. QED  BY <1>1, Invariant, PTL

\* No input is handed to the controller a second time, by any session, after
\* any number of crashes, restarts and retries.
THEOREM NeverRepeated == Spec => []InputNeverRepeated
<1>1. IInv => InputNeverRepeated
  BY DEF IInv, Safe, Handlers, PointOK, InputNeverRepeated
<1>2. QED  BY <1>1, Invariant, PTL

\* An input that the ledger calls skipped never reached the game, and never
\* will.
THEOREM SkipIsTruthful == Spec => []SkippedNeverDelivered
<1>1. IInv => SkippedNeverDelivered
  BY DEF IInv, Safe
<1>2. QED  BY <1>1, Invariant, PTL

\* A pending decision always has a state.json from which it can be settled.
THEOREM NothingOrphaned == Spec => []NoOrphanDecision
<1>1. IInv => NoOrphanDecision
  BY DEF IInv, Safe
<1>2. QED  BY <1>1, Invariant, PTL

\* What a session serves is what it would find again after a restart.
THEOREM MemoryIsDurable == Spec => []ServedFromDisk
<1>1. IInv => ServedFromDisk
  BY DEF IInv, Safe, InSync, ServedFromDisk
<1>2. QED  BY <1>1, Invariant, PTL

-------------------------------------------------------------------------------
(* What a step may do to state.json *)

\* The file of s after a save: it is further, unless nothing was handed over; or
\* its input is gone, and the ledger does not wait for it.
Onward(s, new) ==
  /\ disk[s].id # None /\ new.id = disk[s].id /\ wire[disk[s].id] # "none"
       => Rank(new.st) >= Rank(disk[s].st)
  /\ disk[s].id # None /\ new.id # disk[s].id
       => new.id = None /\ dec[disk[s].id] # "recommended"

NothingForgotten ==
  \A s \in Sessions :
    /\ disk[s].id # None /\ disk'[s].id = disk[s].id /\ wire[disk[s].id] # "none"
         => Rank(disk'[s].st) >= Rank(disk[s].st)
    /\ disk[s].id # None /\ disk'[s].id # disk[s].id
         => disk'[s].id = None /\ dec'[disk[s].id] # "recommended"

\* The order of the statuses.
LEMMA Ranks ==
  /\ Rank("none") = 0 /\ Rank("prepared") = 1 /\ Rank("preparing_dispatch") = 2
  /\ Rank("attempted") = 3 /\ Rank("verified_pending_log") = 4
  /\ Rank("preparing_dispatch") >= Rank("prepared")
  /\ Rank("attempted") >= Rank("preparing_dispatch")
  /\ Rank("verified_pending_log") >= Rank("attempted")
  /\ \A st \in Statuses : Rank(st) >= Rank(st)
  BY DEF Rank, Statuses

\* A file that is not written forgets nothing.
LEMMA FilesLeft == ASSUME IInv, UNCHANGED disk PROVE NothingForgotten
  BY Ranks DEF NothingForgotten, IInv, TypeOK, StateFile

\* Nor does one that a save has carried on, whether or not it landed.
LEMMA FileOnward ==
  ASSUME IInv, NEW s \in Sessions, NEW new \in StateFile, Onward(s, new), UNCHANGED dec,
         disk' = disk \/ disk' = [disk EXCEPT ![s] = new]
  PROVE  NothingForgotten
<1>1. CASE disk' = disk
  BY <1>1, FilesLeft
<1>2. CASE disk' = [disk EXCEPT ![s] = new]
  <2>1. disk'[s] = new /\ \A t \in Sessions \ {s} : disk'[t] = disk[t]
    BY <1>2 DEF IInv, TypeOK
  <2>2. \A t \in Sessions : Rank(disk[t].st) >= Rank(disk[t].st)
    BY Ranks DEF IInv, TypeOK, StateFile
  <2> QED
    BY <2>1, <2>2 DEF NothingForgotten, Onward
<1> QED
  BY <1>1, <1>2

\* What a handler saves, successfully or not.
LEMMA SaveWrites ==
  ASSUME NEW s, NEW new, NEW kept, NEW p, SaveAndGo(s, new, kept, p) \/ SaveFailed(s, new, kept)
  PROVE  disk' = disk \/ disk' = [disk EXCEPT ![s] = new]
  BY DEF SaveAndGo, SaveFailed, Saved

\* A file that is saved as it was.
LEMMA SavedAgain ==
  ASSUME IInv, NEW s \in Sessions, ~poisoned[s]
  PROVE  mem[s] \in StateFile /\ Onward(s, mem[s])
  BY AtWork, Ranks DEF Onward, StateFile

\* The same input, at a later status.
LEMMA StatusOnward ==
  ASSUME IInv, NEW s \in Sessions, ~poisoned[s], NEW new, new.id = mem[s].id,
         Rank(new.st) >= Rank(mem[s].st) \/ wire[mem[s].id] = "none"
  PROVE  Onward(s, new)
  BY AtWork DEF Onward

\* An input that is forgotten was settled, or never recorded.
LEMMA ForgottenOnward ==
  ASSUME IInv, NEW s \in Sessions, ~poisoned[s], NEW n \in Nat, dec[mem[s].id] # "recommended"
  PROVE  NoPending(n) \in StateFile /\ Onward(s, NoPending(n))
<1>1. NoPending(n) \in StateFile /\ NoPending(n).id = None
  BY FilesTyped DEF NoPending
<1> QED
  BY <1>1, AtWork DEF Onward

\* Opening, arming and stopping.
LEMMA ControlOnward == ASSUME IInv, NEW s \in Sessions, Control(s) PROVE NothingForgotten
<1>1. CASE UNCHANGED disk
  BY <1>1, FilesLeft
<1>2. CASE (ArmFails(s) \/ OtherSaveFails(s)) /\ SaveFailed(s, mem[s], mem[s])
  <2>1. ~poisoned[s] /\ UNCHANGED dec
    BY <1>2, AtWork DEF ArmFails, OtherSaveFails, Idle, ledgVars
  <2> QED
    BY <1>2, <2>1, SavedAgain, SaveWrites, FileOnward
<1>3. UNCHANGED disk \/ ((ArmFails(s) \/ OtherSaveFails(s)) /\ SaveFailed(s, mem[s], mem[s]))
  BY DEF Control, Open, ArmCheck, Arm, ArmFails, Stop, Crash, Refuse, OtherSaveFails, BackToIdle
<1> QED
  BY <1>1, <1>2, <1>3

\* Preparing, cancelling and sending.
LEMMA DispatchOnward == ASSUME IInv, NEW s \in Sessions, Dispatch(s) PROVE NothingForgotten
<1> USE DEF ledgVars, Idle, Pending
<1>0. /\ mem[s] \in StateFile /\ disk[s] \in StateFile /\ mem[s].completed \in Nat /\ inputs \in Nat
      /\ FileOK(s, mem[s])
  BY DEF IInv, TypeOK, StateFile, Safe, Files
<1>1. ASSUME NEW a \in Actions, NEW c \in 0..inputs, Prepare(s, a, c)
      PROVE  NothingForgotten
  <2> DEFINE new == Prepared(a, c, mem[s].completed)
  <2>1. ~poisoned[s] /\ mem[s].st = "none" /\ UNCHANGED dec
    BY <1>1 DEF Prepare
  <2>2. new \in StateFile
    BY <1>0, FilesTyped
  <2>3. Onward(s, new)
    BY <1>0, <2>1, AtWork DEF Onward, FileOK
  <2>4. SaveAndGo(s, new, new, "idle")
    BY <1>1 DEF Prepare
  <2> QED
    BY <2>1, <2>2, <2>3, <2>4, SaveWrites, FileOnward
<1>2. CASE CancelPrepared(s)
  <2>1. ~poisoned[s] /\ mem[s].st = "prepared" /\ UNCHANGED dec
    BY <1>2 DEF CancelPrepared, Cancellable
  <2>2. dec[mem[s].id] # "recommended"
    BY <1>0, <2>1 DEF FileOK
  <2>3. SaveAndGo(s, NoPending(mem[s].completed), mem[s], "idle")
    BY <1>2 DEF CancelPrepared
  <2> QED
    BY <1>0, <2>1, <2>2, <2>3, ForgottenOnward, SaveWrites, FileOnward
<1>3. CASE Send(s)
  <2> DEFINE new == [mem[s] EXCEPT !.st = "preparing_dispatch"]
  <2>1. ~poisoned[s] /\ mem[s].st = "prepared" /\ UNCHANGED dec /\ SaveAndGo(s, new, new, "record")
    BY <1>3 DEF Send, Sendable
  <2>2. Fields(new, mem[s].id, "preparing_dispatch", mem[s].resp, mem[s].kind)
    BY <1>0, StatusUpdate DEF Statuses
  <2>n. Rank(new.st) >= Rank(mem[s].st) /\ new.id = mem[s].id
    BY <2>1, <2>2, Ranks DEF Fields
  <2> HIDE DEF new
  <2>3. Onward(s, new)
    BY <2>1, <2>n, StatusOnward
  <2> QED
    BY <2>1, <2>2, <2>3, SaveWrites, FileOnward DEF Fields
<1>4. CASE Barrier(s)
  <2> DEFINE new == [mem[s] EXCEPT !.st = "attempted", !.att = inputs]
  <2>1. ~poisoned[s] /\ mem[s].st = "preparing_dispatch" /\ UNCHANGED dec
    BY <1>4, AtWork DEF Barrier, PointOK
  <2>2. Fields(new, mem[s].id, "attempted", mem[s].resp, mem[s].kind)
    BY <1>0, BarrierUpdate
  <2>n. Rank(new.st) >= Rank(mem[s].st) /\ new.id = mem[s].id
    BY <2>1, <2>2, Ranks DEF Fields
  <2> HIDE DEF new
  <2>3. Onward(s, new)
    BY <2>1, <2>n, StatusOnward
  <2>4. SaveAndGo(s, new, new, "call")
    BY <1>4 DEF Barrier, new
  <2> QED
    BY <2>1, <2>2, <2>3, <2>4, SaveWrites, FileOnward DEF Fields
<1>5. CASE CallRefused(s)
  <2> DEFINE new == [mem[s] EXCEPT !.st = "preparing_dispatch"]
  <2>1. ~poisoned[s] /\ wire[mem[s].id] = "none" /\ UNCHANGED dec
    BY <1>5, AtWork DEF CallRefused, PointOK
  <2>2. Fields(new, mem[s].id, "preparing_dispatch", mem[s].resp, mem[s].kind)
    BY <1>0, StatusUpdate DEF Statuses
  <2>3. Onward(s, new)
    BY <2>1, <2>2, StatusOnward DEF Fields
  <2>4. UNCHANGED disk \/ SaveAndGo(s, new, new, "idle")
    BY <1>5 DEF CallRefused, BackToIdle
  <2>5. disk' = disk \/ disk' = [disk EXCEPT ![s] = new]
    BY <2>4, SaveWrites
  <2> QED
    BY <2>1, <2>2, <2>3, <2>5, FileOnward DEF Fields
<1>6. CASE ReplyConfirmed(s) \/ ReplyFails(s)
  <2>1. ~poisoned[s] /\ UNCHANGED dec
    BY <1>6, AtWork DEF ReplyConfirmed, ReplyFails
  <2>2. \E r \in {"none", "ok", "not_sent"} :
          disk' = disk \/ disk' = [disk EXCEPT ![s] = [mem[s] EXCEPT !.resp = r]]
    <3>1. CASE ReplyConfirmed(s)
      <4>1. LET new == [mem[s] EXCEPT !.resp = "ok"] IN SaveAndGo(s, new, new, "idle")
        BY <3>1 DEF ReplyConfirmed
      <4> QED
        BY <4>1, SaveWrites
    <3>2. CASE ReplyFails(s)
      BY <3>2 DEF ReplyFails
    <3> QED
      BY <1>6, <3>1, <3>2
  <2>3. PICK r \in {"none", "ok", "not_sent"} :
          disk' = disk \/ disk' = [disk EXCEPT ![s] = [mem[s] EXCEPT !.resp = r]]
    BY <2>2
  <2> DEFINE new == [mem[s] EXCEPT !.resp = r]
  <2>4. Fields(new, mem[s].id, mem[s].st, r, mem[s].kind)
    BY <1>0, ResponseUpdate
  <2>5. Rank(mem[s].st) >= Rank(mem[s].st)
    BY <1>0, Ranks DEF StateFile
  <2>6. Onward(s, new)
    BY <2>1, <2>4, <2>5, StatusOnward DEF Fields
  <2> QED
    BY <2>1, <2>3, <2>4, <2>6, FileOnward DEF Fields
<1>7. CASE SendProbeFails(s) \/ RecordDecision(s) \/ RecordRefused(s) \/ Call(s)
  <2>1. UNCHANGED disk
    BY <1>7 DEF SendProbeFails, RecordDecision, RecordRefused, Call, BackToIdle
  <2> QED
    BY <2>1, FilesLeft
<1> QED
  BY <1>1, <1>2, <1>3, <1>4, <1>5, <1>6, <1>7 DEF Dispatch

\* Verifying, reconciling and settling.
LEMMA ResolveOnward == ASSUME IInv, NEW s \in Sessions, Resolve(s) PROVE NothingForgotten
<1> USE DEF ledgVars, Idle, Pending
<1>0. /\ mem[s] \in StateFile /\ disk[s] \in StateFile /\ mem[s].completed \in Nat /\ inputs \in Nat
      /\ mem[s].completed + 1 \in Nat
  BY DEF IInv, TypeOK, StateFile
<1>1. ASSUME NEW c \in 0..inputs, Verify(s, c) \/ ReconcileNotPerformed(s, c)
      PROVE  NothingForgotten
  <2> DEFINE new(k, later) == [mem[s] EXCEPT !.st = "verified_pending_log", !.kind = k,
                                             !.seen = c, !.later = later]
  <2>1. ~poisoned[s] /\ mem[s].st = "attempted" /\ UNCHANGED dec
    BY <1>1 DEF Verify, ReconcileNotPerformed
  <2>2. PICK k \in {"verified", "not_performed"}, later \in BOOLEAN :
          SaveAndGo(s, new(k, later), new(k, later), "log")
    <3>1. LaterChoice(mem[s].id, c) \subseteq BOOLEAN
      BY DEF LaterChoice
    <3> QED
      BY <1>1, <3>1 DEF Verify, ReconcileNotPerformed
  <2>3. Fields(new(k, later), mem[s].id, "verified_pending_log", mem[s].resp, k)
    <3>1. c \in Nat
      BY <1>0
    <3> QED
      BY <1>0, <3>1, ResultUpdate
  <2> DEFINE n == new(k, later)
  <2>4. SaveAndGo(s, n, n, "log") /\ n \in StateFile /\ n.id = mem[s].id /\ n.st = "verified_pending_log"
    BY <2>2, <2>3 DEF Fields
  <2> HIDE DEF n
  <2>5. Onward(s, n)
    BY <2>1, <2>4, Ranks, StatusOnward
  <2> QED
    BY <2>1, <2>4, <2>5, SaveWrites, FileOnward
<1>2. ASSUME NEW c \in 0..inputs, ReconcileUnknown(s, c)
      PROVE  NothingForgotten
  <2>1. ~poisoned[s] /\ UNCHANGED dec
    BY <1>2 DEF ReconcileUnknown
  <2>2. UNCHANGED disk \/ SaveFailed(s, mem[s], mem[s])
    BY <1>2 DEF ReconcileUnknown, BackToIdle
  <2>3. disk' = disk \/ disk' = [disk EXCEPT ![s] = mem[s]]
    BY <2>2, SaveWrites
  <2> QED
    BY <2>1, <2>3, SavedAgain, FileOnward
<1>3. CASE Clear(s)
  <2>1. ~poisoned[s] /\ UNCHANGED dec /\ dec[mem[s].id] # "recommended"
    BY <1>3, AtWork DEF Clear, PointOK
  <2> DEFINE new == NoPending(mem[s].completed + 1)
  <2>2. SaveAndGo(s, new, mem[s], "idle") \/ disk' = [disk EXCEPT ![s] = new]
    BY <1>3 DEF Clear
  <2>3. disk' = disk \/ disk' = [disk EXCEPT ![s] = new]
    BY <2>2, SaveWrites
  <2> QED
    BY <1>0, <2>1, <2>3, ForgottenOnward, FileOnward
<1>4. CASE Discard(s)
  <2>1. ~poisoned[s] /\ UNCHANGED dec /\ dec[mem[s].id] # "recommended"
    BY <1>4, AtWork DEF Discard, PointOK
  <2>2. SaveAndGo(s, NoPending(mem[s].completed), mem[s], "idle")
    BY <1>4 DEF Discard
  <2> QED
    BY <1>0, <2>1, <2>2, ForgottenOnward, SaveWrites, FileOnward
<1>5. ASSUME NEW c \in 0..inputs, RecoverUnsent(s, c)
      PROVE  NothingForgotten
  BY <1>5, FilesLeft DEF RecoverUnsent
<1>6. CASE Finalize(s) \/ LogOutcome(s) \/ LogReplayed(s) \/ LogFails(s)
  <2>1. UNCHANGED disk
    BY <1>6 DEF Finalize, LogOutcome, LogReplayed, LogFails, BackToIdle
  <2> QED
    BY <2>1, FilesLeft
<1> QED
  BY <1>1, <1>2, <1>3, <1>4, <1>5, <1>6 DEF Resolve

\* state.json never forgets an input: whatever fails, crashes or is retried, an
\* input that was handed over only gets further, and it disappears only when the
\* ledger does not wait for it.
THEOREM NeverForgotten == Spec => PendingNeverForgotten
<1>1. IInv /\ [Next]_vars => [NothingForgotten]_vars
  <2> SUFFICES ASSUME IInv, Next
               PROVE  NothingForgotten
    OBVIOUS
  <2>1. ASSUME NEW a \in Actions, Environment(a)
        PROVE  NothingForgotten
    BY <2>1, FilesLeft DEF Environment, Execute, Drop, Age, ExternalWrite
  <2> QED
    BY <2>1, ControlOnward, DispatchOnward, ResolveOnward DEF Next
<1> QED
  BY <1>1, Invariant, PTL DEF Spec, PendingNeverForgotten, NothingForgotten

-------------------------------------------------------------------------------
(* ReviewedPlay implements OneInput *)

PhaseOf == [a \in Actions |-> Phase(dec[a])]

\* The phases tell the decisions apart.
LEMMA PhaseValues ==
  ASSUME TypeOK, NEW a \in Actions
  PROVE  /\ PhaseOf[a] = "new" <=> dec[a] = "none"
         /\ PhaseOf[a] = "recorded" <=> dec[a] = "recommended"
  BY DEF TypeOK, PhaseOf, Phase

\* A decision that changes is a change of one phase.
LEMMA PhaseChange ==
  ASSUME NEW a \in Actions, NEW d, TypeOK, dec' = [dec EXCEPT ![a] = d]
  PROVE  PhaseOf' = [PhaseOf EXCEPT ![a] = Phase(d)]
  BY DEF TypeOK, PhaseOf

\* Recording, settling and skipping are the steps of OneInput of those names.
LEMMA LedgerRefines ==
  ASSUME NEW s \in Sessions, IInv, TypeOK', UNCHANGED wire,
         \/ RecordDecision(s) \/ LogOutcome(s)
         \/ \E c \in 0..inputs : RecoverUnsent(s, c)
  PROVE  Promise!Next \/ UNCHANGED Promise!vars
<1>0. TypeOK /\ FileOK(s, mem[s]) /\ PointOK(pc[s], mem[s])
  BY AtWork DEF IInv
<1>1. CASE RecordDecision(s)
  <2>0. mem[s].st = "preparing_dispatch" /\ dec[mem[s].id] = "none"
    BY <1>0, <1>1 DEF RecordDecision, PointOK
  <2>1. mem[s].id \in Actions /\ dec[mem[s].id] = "none" /\ Recommended = {}
    BY <1>1, <2>0, AtWork, PendingIsAction DEF RecordDecision, MayRecord
  <2>2. dec' = [dec EXCEPT ![mem[s].id] = "recommended"]
    BY <1>1, <2>1 DEF RecordDecision
  <2>3. PhaseOf' = [PhaseOf EXCEPT ![mem[s].id] = "recorded"]
    BY <1>0, <2>1, <2>2, PhaseChange DEF Phase
  <2>4. PhaseOf[mem[s].id] = "new" /\ \A b \in Actions : PhaseOf[b] # "recorded"
    BY <1>0, <2>1, PhaseValues DEF Recommended
  <2>5. Promise!Record(mem[s].id)
    BY <2>3, <2>4 DEF Promise!Record, PhaseOf
  <2>6. QED  BY <2>1, <2>5 DEF Promise!Next
<1>2. CASE LogOutcome(s)
  <2>1. /\ mem[s].id \in Actions /\ dec[mem[s].id] = "recommended"
        /\ mem[s].kind \in {"verified", "not_performed"}
        /\ mem[s].kind = "not_performed" => wire[mem[s].id] = "dropped"
    BY <1>0, <1>2, AtWork, PendingIsAction
       DEF LogOutcome, MayLog, MayResolve, PointOK, FileOK, StateFile
  <2>2. PhaseOf[mem[s].id] = "recorded"
    BY <1>0, <2>1, PhaseValues
  <2>3. CASE mem[s].kind = "verified"
    <3>1. dec' = [dec EXCEPT ![mem[s].id] = "resolved"]
      BY <1>2, <2>3 DEF LogOutcome
    <3>2. PhaseOf' = [PhaseOf EXCEPT ![mem[s].id] = "settled"]
      BY <1>0, <2>1, <3>1, PhaseChange DEF Phase
    <3>3. Promise!Settle(mem[s].id)
      BY <2>2, <3>2 DEF Promise!Settle, PhaseOf
    <3>4. QED  BY <2>1, <3>3 DEF Promise!Next
  <2>4. CASE mem[s].kind = "not_performed"
    <3>1. dec' = [dec EXCEPT ![mem[s].id] = "skipped"]
      BY <1>2, <2>4 DEF LogOutcome
    <3>2. PhaseOf' = [PhaseOf EXCEPT ![mem[s].id] = "skipped"]
      BY <1>0, <2>1, <3>1, PhaseChange DEF Phase
    <3>3. Promise!Skip(mem[s].id)
      BY <2>1, <2>2, <2>4, <3>2 DEF Promise!Skip, PhaseOf
    <3>4. QED  BY <2>1, <3>3 DEF Promise!Next
  <2>5. QED  BY <2>1, <2>3, <2>4
<1>3. CASE \E c \in 0..inputs : RecoverUnsent(s, c)
  <2>1. /\ mem[s].id \in Actions /\ wire[mem[s].id] = "none"
        /\ \/ dec' = dec
           \/ dec[mem[s].id] = "recommended" /\ dec' = [dec EXCEPT ![mem[s].id] = "skipped"]
    BY <1>0, <1>3, AtWork, PendingIsAction, ConstantsAssumption
       DEF RecoverUnsent, MayResolve, Unsent, Pending, FileOK
  <2>2. CASE dec' = dec
    BY <2>2 DEF Promise!vars, PhaseOf
  <2>3. CASE dec[mem[s].id] = "recommended" /\ dec' = [dec EXCEPT ![mem[s].id] = "skipped"]
    <3>1. PhaseOf[mem[s].id] = "recorded"
      BY <1>0, <2>1, <2>3, PhaseValues
    <3>2. PhaseOf' = [PhaseOf EXCEPT ![mem[s].id] = "skipped"]
      BY <1>0, <2>1, <2>3, PhaseChange DEF Phase
    <3>3. Promise!Skip(mem[s].id)
      BY <2>1, <3>1, <3>2 DEF Promise!Skip, PhaseOf
    <3>4. QED  BY <2>1, <3>3 DEF Promise!Next
  <2>4. QED  BY <2>1, <2>2, <2>3
<1>4. QED  BY <1>1, <1>2, <1>3

\* Calling the controller is the hand-over.
LEMMA CallRefines ==
  ASSUME NEW s \in Sessions, IInv, Call(s)
  PROVE  Promise!Next
<1>1. TypeOK /\ mem[s].id \in Actions /\ dec[mem[s].id] = "recommended" /\ wire[mem[s].id] = "none"
  BY AtWork, PendingIsAction DEF IInv, Call, PointOK
<1>2. PhaseOf[mem[s].id] = "recorded" /\ PhaseOf' = PhaseOf
  BY <1>1, PhaseValues DEF Call, ledgVars, PhaseOf
<1>3. Promise!HandOver(mem[s].id)
  BY <1>1, <1>2 DEF Promise!HandOver, Call, PhaseOf
<1>4. QED  BY <1>1, <1>3 DEF Promise!Next

\* Every other action of a session leaves the phases and the commands alone.
LEMMA OthersStutter ==
  ASSUME NEW s \in Sessions, Control(s) \/ Dispatch(s) \/ Resolve(s),
         ~RecordDecision(s), ~Call(s), ~LogOutcome(s), ~(\E c \in 0..inputs : RecoverUnsent(s, c))
  PROVE  UNCHANGED <<dec, wire>>
<1> USE DEF ledgVars, gameVars
<1>1. CASE Control(s)
  BY <1>1 DEF Control, Open, ArmCheck, Arm, ArmFails, Stop, Crash, Refuse, OtherSaveFails
<1>2. CASE Dispatch(s)
  BY <1>2 DEF Dispatch, Prepare, CancelPrepared, Send, SendProbeFails, RecordRefused, Barrier,
              CallRefused, ReplyConfirmed, ReplyFails
<1>3. CASE Resolve(s)
  BY <1>3 DEF Resolve, Verify, ReconcileNotPerformed, ReconcileUnknown, Finalize, LogReplayed,
              LogFails, Clear, Discard
<1>4. QED  BY <1>1, <1>2, <1>3

\* All sessions together, with their crashes and retries, hand every input to
\* the controller at most once, only while it is the one recorded input, and
\* settle it before another one is recorded.
THEOREM Implements == Spec => KeepsPromise
<1>1. Init => Promise!Init
  BY DEF Init, Promise!Init, Phase
<1>2. IInv /\ [Next]_vars /\ IInv' => Promise!Next \/ UNCHANGED Promise!vars
  <2>1. SUFFICES ASSUME IInv, [Next]_vars, IInv' PROVE Promise!Next \/ UNCHANGED Promise!vars
    OBVIOUS
  <2>s. UNCHANGED <<dec, wire>> => UNCHANGED Promise!vars
    BY DEF Promise!vars
  <2>2. ASSUME NEW s \in Sessions, Control(s) \/ Dispatch(s) \/ Resolve(s)
        PROVE  Promise!Next \/ UNCHANGED Promise!vars
    <3>1. CASE Call(s)
      BY <2>1, <3>1, CallRefines
    <3>2. CASE RecordDecision(s) \/ LogOutcome(s) \/ \E c \in 0..inputs : RecoverUnsent(s, c)
      <4>1. UNCHANGED wire
        BY <3>2 DEF RecordDecision, LogOutcome, RecoverUnsent, gameVars
      <4>2. QED  BY <2>1, <3>2, <4>1, LedgerRefines DEF IInv
    <3>3. QED  BY <2>2, <2>s, <3>1, <3>2, OthersStutter
  <2>3. ASSUME NEW a \in Actions, Environment(a)
        PROVE  Promise!Next \/ UNCHANGED Promise!vars
    <3>1. dec' = dec
      BY <2>3 DEF Environment, Execute, Drop, Age, ExternalWrite, ledgVars
    <3>2. CASE Execute(a) \/ Drop(a)
      <4>1. Promise!Arrive(a)
        BY <3>1, <3>2 DEF Execute, Drop, Promise!Arrive
      <4>2. QED  BY <4>1 DEF Promise!Next
    <3>3. CASE Age(a) \/ ExternalWrite(a)
      BY <2>s, <3>1, <3>3 DEF Age, ExternalWrite, gameVars
    <3>4. QED  BY <2>3, <3>2, <3>3 DEF Environment
  <2>4. QED  BY <2>1, <2>2, <2>3, <2>s DEF Next, vars
<1>3. QED  BY <1>1, <1>2, Invariant, PTL DEF Spec, KeepsPromise, Promise!Spec

-------------------------------------------------------------------------------
(* What the strict policy adds: a result is proved by an image that shows its  *)
(* effect.  IInv says which files may claim what; StrictInv adds where inputs  *)
(* stand in time.                                                              *)

\* Every session is strict, and no input may leave the screen as it was.
Strict == Policies = {"strict"} /\ Probes = {}

\* One decision waits at most, and only it can be on its way; what was executed
\* is settled as such or waits, and what is settled as such was executed.
OneWaits ==
  /\ \A a, b \in Actions : dec[a] = "recommended" /\ dec[b] = "recommended" => a = b
  /\ \A a \in Actions :
       /\ wire[a] = "wire" => dec[a] = "recommended"
       /\ wire[a] = "executed" => dec[a] \in {"recommended", "resolved"}
       /\ dec[a] = "resolved" => wire[a] = "executed"

\* The ledger's newest evidence is later than every input that is settled.
PastIsKnown ==
  \A a \in Actions : wire[a] = "executed" /\ dec[a] # "recommended" => pos[a] <= latest

\* A retained result rests on an image that shows the input.
Evidenced(f) ==
  f.kind = "verified" => f.id \in Actions /\ wire[f.id] = "executed" /\ pos[f.id] <= f.seen

\* An input that is recorded and not yet handed over was planned on an image
\* that shows every other one.
PlannedLast(s) ==
  pc[s] \in {"barrier", "call"} =>
    \A b \in Actions : b # mem[s].id /\ wire[b] = "executed" => pos[b] <= mem[s].cap

\* The settled inputs of a session, without the one it still works on.
Counts(a) == dec[a] = "resolved" \/ (dec[a] = "skipped" /\ wire[a] # "none")
Counted(s) == {a \in Actions : owner[a] = s /\ disk[s].id # a /\ Counts(a)}

SessionFacts(s) ==
  /\ Evidenced(mem[s]) /\ Evidenced(disk[s])
  /\ PlannedLast(s)
  /\ disk[s].completed = Cardinality(Counted(s))

StrictInv == OneWaits /\ PastIsKnown /\ \A s \in Sessions : SessionFacts(s)
-------------------------------------------------------------------------------
(* Steps that leave ledger and game alone *)

\* Sessions other than s keep their files and their place.
Apart(s) ==
  \A t \in Sessions \ {s} : mem'[t] = mem[t] /\ disk'[t] = disk[t] /\ pc'[t] = pc[t]

\* An input changes hands only while it is new.
OwnersKept == \A a \in Actions : owner'[a] = owner[a] \/ dec[a] = "none"

\* What a session has counted stays, if its file keeps its input or exchanges
\* inputs that do not count.
LEMMA CountKept ==
  ASSUME NEW s \in Sessions, SessionFacts(s), UNCHANGED <<dec, wire>>, OwnersKept,
         disk'[s].completed = disk[s].completed,
         disk'[s].id # disk[s].id =>
           \A a \in Actions : a = disk[s].id \/ a = disk'[s].id => ~Counts(a)
  PROVE  disk'[s].completed = Cardinality(Counted(s)')
<1>1. ASSUME NEW a \in Actions PROVE a \in Counted(s)' <=> a \in Counted(s)
  BY DEF Counted, Counts, OwnersKept
<1>2. Counted(s)' = Counted(s)
  BY <1>1 DEF Counted
<1> QED
  BY <1>2 DEF SessionFacts

LEMMA FileStep ==
  ASSUME NEW s \in Sessions, StrictInv, UNCHANGED <<dec, latest, wire, pos>>, Apart(s), OwnersKept,
         Evidenced(mem'[s]), Evidenced(disk'[s]),
         pc'[s] \in {"barrier", "call"} =>
           pc[s] \in {"barrier", "call"} /\ mem'[s].id = mem[s].id /\ mem'[s].cap = mem[s].cap,
         disk'[s].completed = Cardinality(Counted(s)')
  PROVE  StrictInv'
<1>1. OneWaits' /\ PastIsKnown'
  BY DEF StrictInv, OneWaits, PastIsKnown
<1>2. ASSUME NEW t \in Sessions \ {s} PROVE SessionFacts(t)'
  <2>1. mem'[t] = mem[t] /\ disk'[t] = disk[t] /\ pc'[t] = pc[t] /\ SessionFacts(t)
    BY DEF Apart, StrictInv
  <2>2. disk'[t].completed = Cardinality(Counted(t)')
    BY <2>1, CountKept
  <2> QED
    BY <2>1, <2>2 DEF SessionFacts, Evidenced, PlannedLast
<1>3. SessionFacts(s)'
  <2>1. SessionFacts(s)
    BY DEF StrictInv
  <2> QED
    BY <2>1 DEF SessionFacts, Evidenced, PlannedLast
<1> QED
  BY <1>1, <1>2, <1>3 DEF StrictInv

\* A save, successful or not, of a state that claims no more than is true.
LEMMA SaveStrict ==
  ASSUME NEW s \in Sessions, NEW new \in StateFile, NEW kept \in StateFile, NEW p \in Points,
         IInv, StrictInv, UNCHANGED <<dec, latest, wire, pos>>, OwnersKept, ~poisoned[s],
         SaveAndGo(s, new, kept, p) \/ SaveFailed(s, new, kept),
         Evidenced(new), Evidenced(kept),
         p # "barrier", p = "call" => pc[s] = "barrier" /\ new.id = mem[s].id /\ new.cap = mem[s].cap,
         disk'[s] = new => new.completed = Cardinality(Counted(s)'),
         disk'[s] = disk[s] => disk[s].completed = Cardinality(Counted(s)')
  PROVE  StrictInv'
<1>1. /\ mem \in [Sessions -> StateFile] /\ disk \in [Sessions -> StateFile]
      /\ pc \in [Sessions -> Points] /\ mem[s] = disk[s]
  BY AtWork DEF IInv, TypeOK
<1>2. \/ /\ mem' = [mem EXCEPT ![s] = new] /\ disk' = [disk EXCEPT ![s] = new]
         /\ pc' = [pc EXCEPT ![s] = p]
      \/ /\ mem' = [mem EXCEPT ![s] = kept]
         /\ disk' = disk \/ disk' = [disk EXCEPT ![s] = new]
         /\ pc' = [pc EXCEPT ![s] = "idle"]
  BY DEF SaveAndGo, Saved, SaveFailed
<1>3. Apart(s)
  BY <1>1, <1>2 DEF Apart
<1>4. /\ mem'[s] \in {new, kept} /\ disk'[s] \in {new, disk[s]}
      /\ pc'[s] \in {"barrier", "call"} => pc'[s] = p /\ mem'[s] = new
  BY <1>1, <1>2
<1>5. Evidenced(mem'[s]) /\ Evidenced(disk'[s])
  <2>1. Evidenced(disk[s])
    BY DEF StrictInv, SessionFacts
  <2> QED
    BY <1>4, <2>1
<1> QED
  BY <1>3, <1>4, <1>5, FileStep

\* A save that changes neither the input nor what is counted.
LEMMA SameInput ==
  ASSUME NEW s \in Sessions, NEW new \in StateFile, NEW kept \in StateFile, NEW p \in Points,
         IInv, StrictInv, UNCHANGED <<dec, latest, wire, pos, owner>>, ~poisoned[s],
         SaveAndGo(s, new, kept, p) \/ SaveFailed(s, new, kept),
         Evidenced(new), Evidenced(kept),
         p # "barrier", p = "call" => pc[s] = "barrier" /\ new.cap = mem[s].cap,
         new.id = mem[s].id, new.completed = mem[s].completed
  PROVE  StrictInv'
<1>1. mem[s] = disk[s] /\ SessionFacts(s) /\ OwnersKept
  BY AtWork DEF StrictInv, OwnersKept
<1>2. disk'[s] \in {new, disk[s]} => disk'[s].completed = Cardinality(Counted(s)')
  BY <1>1, CountKept
<1> QED
  BY <1>1, <1>2, SaveStrict

\* A handler moves on, or ends, and the files stay.
LEMMA QuietStrict ==
  ASSUME NEW s \in Sessions, NEW p \in Points \ {"barrier", "call"}, IInv, StrictInv,
         UNCHANGED <<mem, disk, dec, latest, wire, pos, owner>>, pc' = [pc EXCEPT ![s] = p]
  PROVE  StrictInv'
<1>1. SessionFacts(s) /\ OwnersKept /\ pc'[s] = p /\ Apart(s)
  BY DEF StrictInv, OwnersKept, IInv, TypeOK, Apart
<1>2. disk'[s].completed = Cardinality(Counted(s)')
  BY <1>1, CountKept
<1> QED
  BY <1>1, <1>2, FileStep DEF SessionFacts

LEMMA BackStrict ==
  ASSUME NEW s \in Sessions, IInv, StrictInv, UNCHANGED <<dec, latest, wire, pos, owner>>, BackToIdle(s)
  PROVE  StrictInv'
  BY QuietStrict DEF BackToIdle, Points

\* A process that ends is known by its file.
LEMMA DownStrict ==
  ASSUME NEW s \in Sessions, IInv, StrictInv, UNCHANGED <<disk, dec, latest, wire, pos, owner>>,
         GoDown(s, disk[s])
  PROVE  StrictInv'
<1>1. /\ mem \in [Sessions -> StateFile] /\ pc \in [Sessions -> Points]
      /\ SessionFacts(s) /\ OwnersKept
  BY DEF StrictInv, OwnersKept, IInv, TypeOK
<1>2. mem'[s] = disk[s] /\ pc'[s] = "down" /\ Apart(s)
  BY <1>1 DEF GoDown, Apart
<1>3. disk'[s].completed = Cardinality(Counted(s)')
  BY <1>1, CountKept
<1> QED
  BY <1>1, <1>2, <1>3, FileStep DEF SessionFacts

-------------------------------------------------------------------------------
(* The actions that leave ledger and game alone *)

LEMMA LostStrict ==
  ASSUME NEW s \in Sessions, Strict, IInv, StrictInv,
         UNCHANGED <<disk, dec, latest, wire, pos, owner>>, TransportLost(s)
  PROVE  StrictInv'
<1>1. policy[s] = "strict"
  BY DEF Strict, IInv, TypeOK
<1> QED
  BY <1>1, QuietStrict DEF TransportLost, Points

LEMMA ControlStrict ==
  ASSUME NEW s \in Sessions, Strict, IInv, StrictInv, Control(s)
  PROVE  StrictInv'
<1> USE DEF ledgVars, gameVars, Idle
<1>0. /\ "idle" \in Points \ {"barrier", "call"} /\ "arming" \in Points \ {"barrier", "call"}
      /\ mem \in [Sessions -> StateFile] /\ mem[s] \in StateFile /\ Evidenced(mem[s])
  BY DEF Points, IInv, TypeOK, StrictInv, SessionFacts
<1>1. ASSUME NEW q \in Policies, Open(s, q) PROVE StrictInv'
  <2>1. mem' = mem
    BY <1>0, <1>1, AtWork DEF Open
  <2> QED
    BY <1>0, <1>1, <2>1, QuietStrict DEF Open
<1>2. CASE ArmCheck(s)
  BY <1>0, <1>2, QuietStrict DEF ArmCheck
<1>3. CASE Arm(s)
  BY <1>0, <1>3, QuietStrict DEF Arm
<1>4. CASE ArmFails(s)
  <2>1. ~poisoned[s] /\ UNCHANGED <<dec, latest, wire, pos, owner>>
    BY <1>4, AtWork DEF ArmFails
  <2>2. CASE SaveFailed(s, mem[s], mem[s])
    BY <1>0, <2>1, <2>2, SameInput
  <2>3. CASE UNCHANGED disk /\ TransportLost(s)
    BY <2>1, <2>3, LostStrict
  <2> QED
    BY <1>4, <2>2, <2>3 DEF ArmFails
<1>5. CASE Stop(s) \/ Crash(s)
  BY <1>5, DownStrict DEF Stop, Crash
<1>6. CASE Refuse(s)
  BY <1>6, BackStrict DEF Refuse
<1>7. CASE OtherSaveFails(s)
  BY <1>0, <1>7, SameInput DEF OtherSaveFails
<1> QED
  BY <1>1, <1>2, <1>3, <1>4, <1>5, <1>6, <1>7 DEF Control

\* A new input counts for nothing yet, and a cancelled one never did.
LEMMA PrepareStrict ==
  ASSUME NEW s \in Sessions, NEW a \in Actions, NEW c \in 0..inputs, IInv, StrictInv, Prepare(s, a, c)
  PROVE  StrictInv'
<1> DEFINE new == Prepared(a, c, mem[s].completed)
<1>1. /\ ~poisoned[s] /\ mem[s] = disk[s] /\ mem[s].id = None /\ dec[a] = "none"
      /\ mem[s].completed \in Nat /\ c \in Nat /\ "idle" \in Points
      /\ UNCHANGED <<dec, latest, wire, pos>> /\ owner' = [owner EXCEPT ![a] = s]
  <2>1. Idle(s) /\ Pending(s, "none") /\ dec[a] = "none" /\ owner' = [owner EXCEPT ![a] = s]
    BY DEF Prepare
  <2>2. UNCHANGED <<dec, latest, wire, pos>>
    BY DEF Prepare, ledgVars, gameVars
  <2>3. ~poisoned[s] /\ mem[s].st = "none"
    BY <2>1 DEF Idle, Pending
  <2>4. mem[s] = disk[s] /\ mem[s] \in StateFile /\ FileOK(s, mem[s])
    BY <2>3, AtWork
  <2>5. mem[s].id = None
    BY <2>3, <2>4 DEF FileOK
  <2>6. mem[s].completed \in Nat
    BY <2>4 DEF StateFile
  <2>7. c \in Nat
    BY DEF IInv, TypeOK
  <2> QED
    BY <2>1, <2>2, <2>3, <2>4, <2>5, <2>6, <2>7 DEF Points
<1>2. OwnersKept
  BY <1>1 DEF OwnersKept, IInv, TypeOK
<1>3. new \in StateFile
  BY <1>1, FilesTyped
<1>4. new.id = a /\ new.kind = "none" /\ new.completed = disk[s].completed
  BY <1>1 DEF Prepared, NoPending
<1>5. SaveAndGo(s, new, new, "idle")
  BY DEF Prepare
<1> HIDE DEF new
<1>6. SessionFacts(s) /\ disk[s].id \notin Actions /\ ~Counts(a)
  BY <1>1, ConstantsAssumption DEF StrictInv, Counts
<1>7. disk'[s] \in {new, disk[s]} => disk'[s].completed = Cardinality(Counted(s)')
  BY <1>1, <1>2, <1>4, <1>6, CountKept
<1> QED
  BY <1>1, <1>2, <1>3, <1>4, <1>5, <1>7, SaveStrict DEF Evidenced

\* An input that does not count is forgotten.
LEMMA ForgetStrict ==
  ASSUME NEW s \in Sessions, IInv, StrictInv, UNCHANGED <<dec, latest, wire, pos, owner>>,
         ~poisoned[s], ~Counts(mem[s].id),
         SaveAndGo(s, NoPending(mem[s].completed), mem[s], "idle")
  PROVE  StrictInv'
<1> DEFINE new == NoPending(mem[s].completed)
<1>1. /\ mem[s] = disk[s] /\ mem[s] \in StateFile /\ mem[s].completed \in Nat /\ "idle" \in Points
      /\ SessionFacts(s) /\ OwnersKept /\ Evidenced(mem[s])
  BY AtWork DEF StateFile, StrictInv, SessionFacts, OwnersKept, Points
<1>2. new \in StateFile
  BY <1>1, FilesTyped
<1>3. new.id = None /\ new.kind = "none" /\ new.completed = disk[s].completed
  BY <1>1 DEF NoPending
<1> HIDE DEF new
<1>4. disk'[s] \in {new, disk[s]} => disk'[s].completed = Cardinality(Counted(s)')
  BY <1>1, <1>3, CountKept, ConstantsAssumption
<1>5. SaveAndGo(s, new, mem[s], "idle")
  BY DEF new
<1> QED
  BY <1>1, <1>2, <1>3, <1>4, <1>5, SaveStrict DEF Evidenced

LEMMA CancelStrict ==
  ASSUME NEW s \in Sessions, IInv, StrictInv, CancelPrepared(s) \/ Discard(s)
  PROVE  StrictInv'
<1>1. /\ ~poisoned[s] /\ UNCHANGED <<dec, latest, wire, pos, owner>>
      /\ mem[s] \in StateFile /\ FileOK(s, mem[s]) /\ mem[s].st # "none"
      /\ SaveAndGo(s, NoPending(mem[s].completed), mem[s], "idle")
  BY AtWork DEF CancelPrepared, Discard, Cancellable, Pending, Idle, PointOK, ledgVars, gameVars
<1>2. mem[s].id \in Actions
  BY <1>1, PendingIsAction
<1>3. ~Counts(mem[s].id)
  <2>1. CASE CancelPrepared(s)
    BY <2>1, <1>1 DEF CancelPrepared, Cancellable, Pending, FileOK, Counts
  <2>2. CASE Discard(s)
    <3>1. mem[s].st = "preparing_dispatch"
      BY <2>2, AtWork DEF Discard, PointOK
    <3>2. wire[mem[s].id] = "none"
      BY <1>1, <1>2, <3>1, ConstantsAssumption DEF FileOK
    <3> QED
      BY <1>2, <3>2 DEF Counts, StrictInv, OneWaits
  <2> QED
    BY <2>1, <2>2
<1> QED
  BY <1>1, <1>3, ForgetStrict

\* The fields that the strict invariant speaks about.
Facts(f, id, cap, kind, seen, n) ==
  f \in StateFile /\ f.id = id /\ f.cap = cap /\ f.kind = kind /\ f.seen = seen /\ f.completed = n

SameFacts(f, g) == Facts(f, g.id, g.cap, g.kind, g.seen, g.completed)

LEMMA FactsUpdate ==
  ASSUME NEW f \in StateFile
  PROVE  /\ \A st \in Statuses : SameFacts([f EXCEPT !.st = st], f)
         /\ \A n \in Nat : SameFacts([f EXCEPT !.st = "attempted", !.att = n], f)
         /\ \A r \in {"none", "ok", "not_sent"} : SameFacts([f EXCEPT !.resp = r], f)
         /\ \A k \in {"verified", "not_performed"}, c \in Nat, b \in BOOLEAN :
              Facts([f EXCEPT !.st = "verified_pending_log", !.kind = k, !.seen = c, !.later = b],
                    f.id, f.cap, k, c, f.completed)
<1> USE DEF StateFile, Statuses, SameFacts, Facts
<1>1. ASSUME NEW st \in Statuses PROVE SameFacts([f EXCEPT !.st = st], f)
  OBVIOUS
<1>2. ASSUME NEW n \in Nat PROVE SameFacts([f EXCEPT !.st = "attempted", !.att = n], f)
  OBVIOUS
<1>3. ASSUME NEW r \in {"none", "ok", "not_sent"} PROVE SameFacts([f EXCEPT !.resp = r], f)
  OBVIOUS
<1>4. ASSUME NEW k \in {"verified", "not_performed"}, NEW c \in Nat, NEW b \in BOOLEAN
      PROVE  Facts([f EXCEPT !.st = "verified_pending_log", !.kind = k, !.seen = c, !.later = b],
                   f.id, f.cap, k, c, f.completed)
  OBVIOUS
<1> QED
  BY <1>1, <1>2, <1>3, <1>4

\* A status or a response is saved.
LEMMA SameFactsSaved ==
  ASSUME NEW s \in Sessions, IInv, StrictInv, UNCHANGED <<dec, latest, wire, pos, owner>>,
         ~poisoned[s], NEW new, SameFacts(new, mem[s]), NEW p \in Points,
         SaveAndGo(s, new, new, p), p # "barrier", p = "call" => pc[s] = "barrier"
  PROVE  StrictInv'
<1>1. Evidenced(mem[s])
  BY DEF StrictInv, SessionFacts
<1> QED
  BY <1>1, SameInput DEF SameFacts, Facts, Evidenced

LEMMA SendStrict ==
  ASSUME NEW s \in Sessions, Strict, IInv, StrictInv,
         \/ Send(s) \/ SendProbeFails(s) \/ RecordRefused(s) \/ Barrier(s)
         \/ CallRefused(s) \/ ReplyConfirmed(s)
  PROVE  StrictInv'
<1> USE DEF ledgVars, gameVars
<1>0. /\ {"idle", "record", "call"} \subseteq Points /\ "preparing_dispatch" \in Statuses
      /\ mem[s] \in StateFile /\ inputs \in Nat /\ policy[s] = "strict"
  BY DEF Points, Statuses, IInv, TypeOK, Strict
<1>1. CASE Send(s)
  BY <1>0, <1>1, FactsUpdate, SameFactsSaved DEF Send, Idle
<1>2. CASE SendProbeFails(s)
  BY <1>2, LostStrict DEF SendProbeFails
<1>3. CASE RecordRefused(s)
  BY <1>3, BackStrict DEF RecordRefused
<1>4. CASE Barrier(s)
  BY <1>0, <1>4, FactsUpdate, SameFactsSaved, AtWork DEF Barrier
<1>5. CASE CallRefused(s)
  BY <1>0, <1>5, BackStrict DEF CallRefused
<1>6. CASE ReplyConfirmed(s)
  BY <1>0, <1>6, FactsUpdate, SameFactsSaved, AtWork DEF ReplyConfirmed
<1> QED
  BY <1>1, <1>2, <1>3, <1>4, <1>5, <1>6

LEMMA ReplyFailsStrict ==
  ASSUME NEW s \in Sessions, Strict, IInv, StrictInv, ReplyFails(s)
  PROVE  StrictInv'
<1>1. /\ policy[s] = "strict" /\ mem[s] = disk[s] /\ mem[s] \in StateFile
      /\ mem \in [Sessions -> StateFile] /\ disk \in [Sessions -> StateFile]
      /\ pc \in [Sessions -> Points] /\ SessionFacts(s)
  BY AtWork DEF ReplyFails, Strict, IInv, TypeOK, StrictInv
<1>2. PICK r \in {"none", "not_sent"}, written \in BOOLEAN :
        LET new == [mem[s] EXCEPT !.resp = r] IN
        /\ disk' = IF written THEN [disk EXCEPT ![s] = new] ELSE disk
        /\ pc' = [pc EXCEPT ![s] = "idle"] /\ mem' = [mem EXCEPT ![s] = new]
        /\ UNCHANGED <<dec, latest, wire, pos, owner>>
  BY <1>1 DEF ReplyFails, ledgVars, gameVars
<1> DEFINE new == [mem[s] EXCEPT !.resp = r]
<1>3. SameFacts(new, mem[s])
  BY <1>1, FactsUpdate
<1> HIDE DEF new
<1>4. mem' = [mem EXCEPT ![s] = new] /\ (disk' = disk \/ disk' = [disk EXCEPT ![s] = new])
  BY <1>2 DEF new
<1>5. /\ mem'[s] = new /\ disk'[s] \in {new, disk[s]} /\ pc'[s] = "idle"
      /\ Apart(s) /\ OwnersKept
  BY <1>1, <1>2, <1>4 DEF Apart, OwnersKept
<1>6. Evidenced(new) /\ Evidenced(disk[s])
  BY <1>1, <1>3 DEF SessionFacts, Evidenced, SameFacts, Facts
<1>7. disk'[s].completed = Cardinality(Counted(s)')
  BY <1>1, <1>2, <1>3, <1>5, CountKept DEF SameFacts, Facts
<1> QED
  BY <1>2, <1>5, <1>6, <1>7, FileStep

\* Strict proof is an image that shows the input.
LEMMA RetainStrict ==
  ASSUME NEW s \in Sessions, Strict, IInv, StrictInv, NEW c \in 0..inputs,
         Verify(s, c) \/ ReconcileNotPerformed(s, c)
  PROVE  StrictInv'
<1> DEFINE new(k, b) ==
      [mem[s] EXCEPT !.st = "verified_pending_log", !.kind = k, !.seen = c, !.later = b]
<1>1. /\ ~poisoned[s] /\ mem[s].st = "attempted" /\ UNCHANGED <<dec, latest, wire, pos, owner>>
      /\ mem[s] \in StateFile /\ mem[s].id \in Actions /\ c \in Nat /\ policy[s] = "strict"
      /\ "log" \in Points
  <2>1. ~poisoned[s] /\ mem[s].st = "attempted" /\ UNCHANGED <<dec, latest, wire, pos, owner>>
    BY DEF Verify, ReconcileNotPerformed, Idle, Pending, ledgVars, gameVars
  <2>2. mem[s] \in StateFile /\ mem[s].id \in Actions
    BY <2>1, AtWork, PendingIsAction
  <2>3. c \in Nat /\ policy[s] = "strict" /\ "log" \in Points
    BY DEF Strict, IInv, TypeOK, Points
  <2> QED
    BY <2>1, <2>2, <2>3
<1>2. \A k \in {"verified", "not_performed"}, b \in BOOLEAN :
        Facts(new(k, b), mem[s].id, mem[s].cap, k, c, mem[s].completed)
  BY <1>1, FactsUpdate
<1>3. PICK k \in {"verified", "not_performed"}, b \in BOOLEAN :
        /\ SaveAndGo(s, new(k, b), new(k, b), "log")
        /\ k = "verified" => Acceptable(s, c)
  BY DEF Verify, ReconcileNotPerformed, LaterChoice
<1> HIDE DEF new
<1>4. k = "verified" => wire[mem[s].id] = "executed" /\ pos[mem[s].id] <= c
  BY <1>1, <1>3 DEF Acceptable, Shows, Strict
<1>5. Facts(new(k, b), mem[s].id, mem[s].cap, k, c, mem[s].completed)
  BY <1>2
<1>6. Evidenced(new(k, b))
  BY <1>1, <1>4, <1>5 DEF Facts, Evidenced
<1> QED
  BY <1>1, <1>3, <1>5, <1>6, SameInput DEF Facts

\* The settled input is counted, once, with the save that clears it.
LEMMA ClearStrict ==
  ASSUME NEW s \in Sessions, IInv, StrictInv, Clear(s)
  PROVE  StrictInv'
<1> DEFINE new == NoPending(mem[s].completed + 1)
           a   == mem[s].id
<1>1. /\ ~poisoned[s] /\ UNCHANGED <<dec, latest, wire, pos, owner>>
      /\ mem[s] = disk[s] /\ mem[s] \in StateFile /\ FileOK(s, mem[s])
      /\ mem[s].st = "verified_pending_log" /\ dec[a] \in {"resolved", "skipped"}
      /\ mem[s].completed \in Nat /\ mem[s].completed + 1 \in Nat /\ "idle" \in Points
      /\ SessionFacts(s) /\ OwnersKept /\ Evidenced(mem[s])
  BY AtWork DEF Clear, PointOK, ledgVars, gameVars, StateFile, Points, StrictInv, SessionFacts, OwnersKept
<1>2. a \in Actions /\ owner[a] = s
  BY <1>1, PendingIsAction, ConstantsAssumption DEF FileOK
<1>3. Counts(a)
  BY <1>1 DEF Counts, FileOK, Evidenced, StateFile
<1>4. new \in StateFile /\ new.id = None /\ new.kind = "none" /\ new.completed = disk[s].completed + 1
  BY <1>1, FilesTyped DEF NoPending
<1>5. \/ SaveAndGo(s, new, mem[s], "idle")
      \/ GoDown(s, new) /\ disk' = [disk EXCEPT ![s] = new]
  BY DEF Clear
<1> HIDE DEF new
<1>6. disk'[s] = disk[s] => disk[s].completed = Cardinality(Counted(s)')
  BY <1>1, CountKept
<1>7. disk'[s] = new => new.completed = Cardinality(Counted(s)')
  <2> SUFFICES ASSUME disk'[s] = new PROVE new.completed = Cardinality(Counted(s)')
    OBVIOUS
  <2>1. ASSUME NEW b \in Actions PROVE b \in Counted(s)' <=> b \in Counted(s) \cup {a}
    BY <1>1, <1>2, <1>3, <1>4, ConstantsAssumption DEF Counted, Counts
  <2>2. Counted(s)' = Counted(s) \cup {a} /\ a \notin Counted(s)
    BY <1>1, <1>2, <2>1 DEF Counted
  <2>3. IsFiniteSet(Counted(s))
    BY ConstantsAssumption, FS_Subset DEF Counted
  <2>4. Cardinality(Counted(s) \cup {a}) = Cardinality(Counted(s)) + 1
    BY <2>2, <2>3, FS_AddElement
  <2> QED
    BY <1>1, <1>4, <2>2, <2>4 DEF SessionFacts
<1>8. CASE SaveAndGo(s, new, mem[s], "idle")
  BY <1>1, <1>4, <1>6, <1>7, <1>8, SaveStrict DEF Evidenced
<1>9. CASE GoDown(s, new) /\ disk' = [disk EXCEPT ![s] = new]
  <2>1. mem'[s] = new /\ disk'[s] = new /\ pc'[s] = "down" /\ Apart(s)
    BY <1>9 DEF GoDown, Apart, IInv, TypeOK
  <2> QED
    BY <1>1, <1>4, <1>7, <2>1, FileStep DEF Evidenced
<1> QED
  BY <1>5, <1>8, <1>9

-------------------------------------------------------------------------------
(* Steps of the ledger *)

\* The decision about the pending input of s changes.
LEMMA LedgerStep ==
  ASSUME NEW s \in Sessions, NEW p \in Points, NEW d, IInv, StrictInv,
         ~poisoned[s], mem[s].st # "none", UNCHANGED <<mem, disk, wire, pos, owner>>,
         dec' = [dec EXCEPT ![mem[s].id] = d], pc' = [pc EXCEPT ![s] = p],
         OneWaits', PastIsKnown',
         p \in {"barrier", "call"} =>
           \A b \in Actions : b # mem[s].id /\ wire[b] = "executed" => pos[b] <= mem[s].cap
  PROVE  StrictInv'
<1>1. /\ mem[s] = disk[s] /\ mem[s].id \in Actions /\ owner[mem[s].id] = s
      /\ pc \in [Sessions -> Points]
      /\ dec \in [Actions -> {"none", "recommended", "resolved", "skipped"}]
  BY AtWork, PendingIsAction, ConstantsAssumption DEF FileOK, IInv, TypeOK
<1>2. ASSUME NEW t \in Sessions PROVE SessionFacts(t)'
  <2>1. SessionFacts(t)
    BY DEF StrictInv
  <2>2. ASSUME NEW b \in Actions PROVE b \in Counted(t)' <=> b \in Counted(t)
    BY <1>1 DEF Counted, Counts
  <2>3. Counted(t)' = Counted(t)
    BY <2>2 DEF Counted
  <2>4. PlannedLast(t)'
    BY <1>1, <2>1 DEF SessionFacts, PlannedLast
  <2> QED
    BY <2>1, <2>3, <2>4 DEF SessionFacts, Evidenced
<1> QED
  BY <1>2 DEF StrictInv

\* Nothing waits when an input is recorded, and its image shows all that is settled.
LEMMA RecordStrict ==
  ASSUME NEW s \in Sessions, IInv, StrictInv, RecordDecision(s)
  PROVE  StrictInv'
<1> DEFINE a == mem[s].id
<1>1. /\ ~poisoned[s] /\ mem[s].st = "preparing_dispatch" /\ a \in Actions /\ dec[a] = "none"
      /\ mem[s].cap \in Nat /\ latest \in Nat /\ pos \in [Actions -> Nat]
      /\ dec \in [Actions -> {"none", "recommended", "resolved", "skipped"}]
  BY AtWork, PendingIsAction DEF RecordDecision, PointOK, StateFile, IInv, TypeOK
<1>2. /\ \A b \in Actions : dec[b] # "recommended"
      /\ latest <= mem[s].cap /\ latest' = mem[s].cap
      /\ dec' = [dec EXCEPT ![a] = "recommended"]
      /\ UNCHANGED <<mem, disk, wire, pos, owner>>
      /\ \E p \in {"barrier", "idle"} : pc' = [pc EXCEPT ![s] = p]
  BY <1>1 DEF RecordDecision, MayRecord, Recommended, BackToIdle, gameVars
<1>3. OneWaits'
  BY <1>1, <1>2 DEF StrictInv, OneWaits
<1>4. \A b \in Actions : wire[b] = "executed" => pos[b] <= mem[s].cap
  BY <1>1, <1>2 DEF StrictInv, PastIsKnown
<1>5. PastIsKnown'
  BY <1>2, <1>4 DEF PastIsKnown
<1> QED
  BY <1>1, <1>2, <1>3, <1>4, <1>5, LedgerStep DEF Points

\* A logged result tells what the game received, and its image is the newest.
LEMMA LogStrict ==
  ASSUME NEW s \in Sessions, IInv, StrictInv, LogOutcome(s)
  PROVE  StrictInv'
<1> DEFINE a == mem[s].id
           d == IF mem[s].kind = "verified" THEN "resolved" ELSE "skipped"
<1>1. /\ ~poisoned[s] /\ mem[s].st = "verified_pending_log" /\ a \in Actions
      /\ mem[s].kind \in {"verified", "not_performed"} /\ FileOK(s, mem[s]) /\ Evidenced(mem[s])
      /\ mem[s].seen \in Nat /\ latest \in Nat /\ pos \in [Actions -> Nat]
      /\ dec \in [Actions -> {"none", "recommended", "resolved", "skipped"}]
  BY AtWork, PendingIsAction
  DEF LogOutcome, PointOK, FileOK, StateFile, IInv, TypeOK, StrictInv, SessionFacts
<1>2. /\ dec[a] = "recommended" /\ latest <= mem[s].seen /\ latest' = mem[s].seen
      /\ dec' = [dec EXCEPT ![a] = d]
      /\ UNCHANGED <<mem, disk, wire, pos, owner>>
      /\ \E p \in {"clear", "idle"} : pc' = [pc EXCEPT ![s] = p]
  BY DEF LogOutcome, MayLog, MayResolve, BackToIdle, gameVars
<1>3. \/ d = "resolved" /\ wire[a] = "executed" /\ pos[a] <= mem[s].seen
      \/ d = "skipped" /\ wire[a] = "dropped"
  BY <1>1 DEF Evidenced, FileOK
<1> HIDE DEF d
<1>4. OneWaits'
  BY <1>1, <1>2, <1>3 DEF StrictInv, OneWaits
<1>5. PastIsKnown'
  BY <1>1, <1>2, <1>3 DEF StrictInv, PastIsKnown
<1> QED
  BY <1>1, <1>2, <1>4, <1>5, LedgerStep DEF Points

\* An unsent input is skipped, and an unknown result is newer evidence.
LEMMA RecoverStrict ==
  ASSUME NEW s \in Sessions, NEW c \in 0..inputs, IInv, StrictInv, RecoverUnsent(s, c)
  PROVE  StrictInv'
<1> DEFINE a == mem[s].id
<1>1. /\ ~poisoned[s] /\ mem[s].st = "preparing_dispatch"
      /\ UNCHANGED <<mem, disk, wire, pos, owner>> /\ pc' = [pc EXCEPT ![s] = "discard"]
  BY DEF RecoverUnsent, Idle, Unsent, Pending, gameVars
<1>2. a \in Actions /\ wire[a] = "none" /\ "discard" \in Points
  BY <1>1, AtWork, PendingIsAction, ConstantsAssumption DEF FileOK, Points
<1>3. CASE UNCHANGED <<dec, latest>>
  BY <1>1, <1>2, <1>3, QuietStrict
<1>4. CASE /\ Recommended = {a} /\ MayResolve(a, c)
           /\ dec' = [dec EXCEPT ![a] = "skipped"] /\ latest' = c
  <2>1. /\ latest <= c /\ latest \in Nat /\ c \in Nat /\ pos \in [Actions -> Nat]
        /\ dec \in [Actions -> {"none", "recommended", "resolved", "skipped"}]
    BY <1>4 DEF MayResolve, IInv, TypeOK
  <2>2. OneWaits'
    BY <1>1, <1>2, <1>4, <2>1 DEF StrictInv, OneWaits
  <2>3. PastIsKnown'
    BY <1>1, <1>2, <1>4, <2>1 DEF StrictInv, PastIsKnown
  <2> QED
    BY <1>1, <1>2, <1>4, <2>2, <2>3, LedgerStep
<1> QED
  BY <1>3, <1>4 DEF RecoverUnsent

LEMMA UnknownStrict ==
  ASSUME NEW s \in Sessions, NEW c \in 0..inputs, IInv, StrictInv, ReconcileUnknown(s, c)
  PROVE  StrictInv'
<1>1. /\ mem \in [Sessions -> StateFile] /\ disk \in [Sessions -> StateFile] /\ pc \in [Sessions -> Points]
      /\ mem[s] = disk[s] /\ latest \in Nat /\ c \in Nat /\ pos \in [Actions -> Nat]
  BY AtWork DEF ReconcileUnknown, Idle, IInv, TypeOK
<1>2. UNCHANGED <<mem, disk>> /\ pc' = [pc EXCEPT ![s] = "idle"]
  BY <1>1 DEF ReconcileUnknown, BackToIdle, SaveFailed
<1>3. latest <= c /\ latest' = c /\ UNCHANGED <<dec, wire, pos, owner>>
  BY DEF ReconcileUnknown, MayResolve, gameVars
<1>4. OneWaits' /\ PastIsKnown'
  BY <1>1, <1>3 DEF StrictInv, OneWaits, PastIsKnown
<1>5. ASSUME NEW t \in Sessions PROVE SessionFacts(t)'
  <2>1. SessionFacts(t) /\ Counted(t)' = Counted(t)
    BY <1>2, <1>3 DEF StrictInv, Counted, Counts
  <2> QED
    BY <1>1, <1>2, <1>3, <2>1 DEF SessionFacts, Evidenced, PlannedLast
<1> QED
  BY <1>4, <1>5 DEF StrictInv

-------------------------------------------------------------------------------
(* Steps of the controller and the game *)

\* A command moves whose decision waits: no other input is at risk.
LEMMA WireStep ==
  ASSUME NEW a \in Actions, NEW w \in {"wire", "executed", "dropped"}, IInv, StrictInv,
         dec[a] = "recommended", wire[a] # "executed", wire' = [wire EXCEPT ![a] = w],
         pos' = pos \/ (w = "executed" /\ \E n \in Nat : pos' = [pos EXCEPT ![a] = n]),
         UNCHANGED <<mem, disk, dec, latest, owner>>,
         \A t \in Sessions : pc'[t] \in {"barrier", "call"} => pc'[t] = pc[t]
  PROVE  StrictInv'
<1>1. /\ wire \in [Actions -> {"none", "wire", "executed", "dropped"}]
      /\ pos \in [Actions -> Nat]
  BY DEF IInv, TypeOK
<1>2. \A b \in Actions \ {a} : wire'[b] = wire[b] /\ pos'[b] = pos[b]
  BY <1>1
<1>3. wire'[a] = w
  BY <1>1
<1>4. OneWaits' /\ PastIsKnown'
  BY <1>2, <1>3 DEF StrictInv, OneWaits, PastIsKnown
<1>5. ASSUME NEW t \in Sessions PROVE SessionFacts(t)'
  <2>1. SessionFacts(t) /\ mem[t] \in StateFile /\ FileOK(t, mem[t]) /\ PointOK(pc[t], mem[t])
    BY AtWork DEF StrictInv
  <2>2. ASSUME NEW f, Evidenced(f)
        PROVE  f.kind = "verified" => f.id \in Actions /\ wire'[f.id] = "executed" /\ pos'[f.id] <= f.seen
    BY <1>2, <2>2 DEF Evidenced
  <2>3. Evidenced(mem[t])' /\ Evidenced(disk[t])'
    BY <2>1, <2>2 DEF SessionFacts, Evidenced
  <2>4. ASSUME NEW b \in Actions PROVE b \in Counted(t)' <=> b \in Counted(t)
    BY <1>2 DEF Counted, Counts
  <2>5. Counted(t)' = Counted(t)
    BY <2>4 DEF Counted
  <2>6. PlannedLast(t)'
    <3>1. SUFFICES ASSUME pc'[t] \in {"barrier", "call"}, NEW b \in Actions, b # mem[t].id,
                          wire'[b] = "executed"
                   PROVE  pos'[b] <= mem[t].cap
      BY DEF PlannedLast
    <3>2. dec[mem[t].id] = "recommended" /\ mem[t].id \in Actions
      BY <2>1, <3>1, PendingIsAction DEF PointOK
    <3>3. mem[t].id = a
      BY <3>2 DEF StrictInv, OneWaits
    <3> QED
      BY <1>2, <2>1, <3>1, <3>3 DEF SessionFacts, PlannedLast
  <2> QED
    BY <2>1, <2>3, <2>5, <2>6 DEF SessionFacts
<1> QED
  BY <1>4, <1>5 DEF StrictInv

LEMMA CallStrict ==
  ASSUME NEW s \in Sessions, IInv, StrictInv, Call(s)
  PROVE  StrictInv'
<1>1. mem[s].id \in Actions /\ dec[mem[s].id] = "recommended" /\ wire[mem[s].id] = "none"
  BY AtWork, PendingIsAction DEF Call, PointOK
<1>2. \A t \in Sessions : pc'[t] \in {"barrier", "call"} => pc'[t] = pc[t]
  BY DEF Call, IInv, TypeOK
<1> QED
  BY <1>1, <1>2, WireStep DEF Call, ledgVars

LEMMA EnvironmentStrict ==
  ASSUME NEW a \in Actions, IInv, StrictInv, Environment(a)
  PROVE  StrictInv'
<1> USE DEF procVars, ledgVars, gameVars
<1>1. CASE Execute(a) \/ Drop(a)
  <2>1. dec[a] = "recommended" /\ wire[a] = "wire" /\ inputs + 1 \in Nat
    BY <1>1 DEF Execute, Drop, StrictInv, OneWaits, IInv, TypeOK
  <2> QED
    BY <1>1, <2>1, WireStep DEF Execute, Drop
<1>2. CASE Age(a) \/ ExternalWrite(a)
  <2>1. UNCHANGED <<pc, mem, disk, dec, latest, wire, pos, owner>>
    BY <1>2 DEF Age, ExternalWrite
  <2> QED
    BY <2>1 DEF StrictInv, OneWaits, PastIsKnown, SessionFacts, Evidenced, PlannedLast, Counted, Counts
<1> QED
  BY <1>1, <1>2 DEF Environment

-------------------------------------------------------------------------------
(* The invariant and what follows *)

LEMMA InitStrict == Init => StrictInv
<1> SUFFICES ASSUME Init PROVE StrictInv
  OBVIOUS
<1>1. OneWaits /\ PastIsKnown
  BY DEF Init, OneWaits, PastIsKnown
<1>2. ASSUME NEW s \in Sessions PROVE SessionFacts(s)
  <2>1. Counted(s) = {}
    BY DEF Init, Counted, Counts
  <2>2. mem[s] = NoPending(0) /\ disk[s] = NoPending(0) /\ pc[s] = "down"
    BY DEF Init
  <2> QED
    BY <2>1, <2>2, FS_EmptySet DEF SessionFacts, Evidenced, PlannedLast, NoPending
<1> QED
  BY <1>1, <1>2 DEF StrictInv

LEMMA StepStrict ==
  ASSUME Strict, IInv, StrictInv, [Next]_vars
  PROVE  StrictInv'
<1>1. ASSUME NEW s \in Sessions, Control(s) \/ Dispatch(s) \/ Resolve(s) PROVE StrictInv'
  <2>1. CASE Control(s)
    BY <2>1, ControlStrict
  <2>2. CASE Dispatch(s)
    BY <2>2, PrepareStrict, CancelStrict, SendStrict, RecordStrict, CallStrict, ReplyFailsStrict DEF Dispatch
  <2>3. CASE Finalize(s) \/ LogReplayed(s) \/ LogFails(s)
    BY <2>3, QuietStrict, BackStrict DEF Finalize, LogReplayed, LogFails, ledgVars, gameVars, Points
  <2>4. CASE Resolve(s) /\ ~(Finalize(s) \/ LogReplayed(s) \/ LogFails(s))
    BY <2>4, RetainStrict, UnknownStrict, RecoverStrict, LogStrict, ClearStrict, CancelStrict DEF Resolve
  <2> QED
    BY <1>1, <2>1, <2>2, <2>3, <2>4
<1>2. CASE UNCHANGED vars
  BY <1>2 DEF vars, StrictInv, OneWaits, PastIsKnown, SessionFacts, Evidenced, PlannedLast, Counted, Counts
<1> QED
  BY <1>1, <1>2, EnvironmentStrict DEF Next

\* Under the strict policy, inputs are settled in the order in which the game
\* received them, on images that show them.
THEOREM StrictInvariant == Strict => (Spec => []StrictInv)
<1> SUFFICES ASSUME Strict PROVE Spec => []StrictInv
  OBVIOUS
<1>1. IInv /\ StrictInv /\ [Next]_vars => StrictInv'
  BY StepStrict
<1> QED
  BY <1>1, InitStrict, Invariant, PTL DEF Spec

\* The input about to be handed over is the only one in doubt, and was planned on
\* an image of the game as it is (record_decision, _chronology, verify).
THEOREM OneAtATime == Strict => (Spec => []OneInputInDoubt)
<1> SUFFICES ASSUME Strict PROVE Spec => []OneInputInDoubt
  OBVIOUS
<1>1. IInv /\ StrictInv => OneInputInDoubt
  <2> SUFFICES ASSUME IInv, StrictInv PROVE OneInputInDoubt
    OBVIOUS
  <2> DEFINE D == {a \in Actions : wire[a] = "wire" \/ dec[a] = "recommended"}
  <2>1. \A a, b \in D : a = b
    BY DEF StrictInv, OneWaits
  <2>2. D = {} \/ \E a \in D : D = {a}
    BY <2>1
  <2>3. Cardinality(D) <= 1
    BY <2>2, FS_EmptySet, FS_Singleton
  <2>4. ASSUME NEW s \in Sessions, NEW b \in Actions, pc[s] = "call", b # mem[s].id
        PROVE  wire[b] # "wire" /\ (wire[b] = "executed" => pos[b] <= mem[s].cap)
    <3>1. mem[s].id \in Actions /\ dec[mem[s].id] = "recommended"
      BY <2>4, AtWork, PendingIsAction DEF PointOK
    <3> QED
      BY <2>4, <3>1 DEF StrictInv, OneWaits, SessionFacts, PlannedLast
  <2> QED
    BY <2>3, <2>4 DEF OneInputInDoubt
<1> QED
  BY <1>1, StrictInvariant, Invariant, PTL

\* What the ledger calls resolved the game received, what it calls skipped it did
\* not, and state.json counts each settled input once (finalize, recover_unsent).
THEOREM LedgerTells == Strict => (Spec => []LedgerTruthful)
<1> SUFFICES ASSUME Strict PROVE Spec => []LedgerTruthful
  OBVIOUS
<1>1. IInv /\ StrictInv => LedgerTruthful
  <2> SUFFICES ASSUME IInv, StrictInv PROVE LedgerTruthful
    OBVIOUS
  <2>1. \A a \in Actions : dec[a] = "skipped" => wire[a] \in {"none", "dropped"}
    BY DEF IInv, Safe, SkippedNeverDelivered
  <2>2. \A a \in Actions : dec[a] = "resolved" => wire[a] = "executed"
    BY DEF StrictInv, OneWaits
  <2>3. \A s \in Sessions : disk[s].completed = Cardinality(Counted(s))
    BY DEF StrictInv, SessionFacts
  <2> QED
    BY <2>1, <2>2, <2>3 DEF LedgerTruthful, Counted, Counts
<1> QED
  BY <1>1, StrictInvariant, Invariant, PTL

===============================================================================
