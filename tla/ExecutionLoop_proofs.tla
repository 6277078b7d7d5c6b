------------------------- MODULE ExecutionLoop_proofs -------------------------
(***************************************************************************)
(* Proofs about ExecutionLoop for any actions, budgets and disk failures.  *)
(***************************************************************************)
EXTENDS ExecutionLoop, TLAPS

\* Where run() is while nothing of it has failed.
Deciding == {"ready", "before", "log"}
Underway == {"boundary", "calling", "rejected", "verify", "after", "verified"}
Settled == Terminal \cup {"none"}

\* A process without a failed write has in memory what is on disk.
SameRows == pc \in {"open"} \cup Deciding \cup Underway => rows = file /\ ~torn

\* The directories that this process made are flushed by its first row.
Directories ==
  /\ synced => entry # "missing"
  /\ synced /\ covers = "yes" => entry = "durable"

\* Only the action under way is not closed.
OneOpen ==
  /\ pc \in Deciding => \A a \in Actions : file[a] \in Settled
  /\ pc \in Underway => \A a \in Actions : file[a] \in Settled <=> a # pending
  /\ pc \in Underway => file[pending] = "attempted"
  /\ pc = "boundary" => stable = file /\ (covers = "yes" => entry = "durable")

\* What is known of that action at each place of run().
PendingKnown ==
  /\ pc \in {"before", "log"} \cup Underway => pending \in Actions
  /\ pc \in {"before", "log"} => rows[pending] = "none"
  /\ pc \in {"before", "log", "boundary"} => wire[pending] = "none" /\ status[pending] = "none"
  /\ pc \in {"before", "log", "boundary", "calling"} => count < MaxInputs
  /\ pc = "calling" => wire[pending] # "none" /\ status[pending] = "none"
  /\ pc = "rejected" => status[pending] \notin {"ok", "none"}
  /\ pc \in {"verify", "after", "verified"} => wire[pending] = "executed"

\* What is on its way is not closed; answers and closed rows are right about it.
WiresKnown ==
  \A a \in Actions :
    /\ wire[a] = "wire" => file[a] \in {"attempted", "unknown_outcome"}
    /\ status[a] = "ok" => wire[a] = "executed"
    /\ status[a] = "not_sent" => wire[a] = "dropped"
    /\ file[a] = "not_sent" => wire[a] \in {"none", "dropped"}

\* The frame an input is decided on shows every input before it.
FrameCurrent ==
  /\ frame <= inputs
  /\ \A a \in Actions : pos[a] <= inputs
  /\ pc \in Deciding \cup {"boundary", "after", "verified"} => frame = inputs
  /\ \A a \in Actions : file[a] = "verified" => wire[a] = "executed" /\ pos[a] <= frame

Backed ==
  /\ pending \in Consequential =>
       /\ pc \in {"log"} \cup Underway => "before" \in kept[pending]
       /\ pc = "verified" => "after" \in kept[pending]
  /\ EvidenceBacked

LoopInv ==
  /\ LoopTypeOK
  /\ SameRows /\ Directories /\ OneOpen /\ PendingKnown /\ WiresKnown /\ OneInFlight
  /\ FrameCurrent /\ Backed

-------------------------------------------------------------------------------
\* The types of the variables that the writing of a row changes.
LogTyped ==
  /\ rows \in [Actions -> Written \cup {"none"}]
  /\ file \in [Actions -> Written \cup {"none"}]
  /\ stable \in [Actions -> Written \cup {"none"}]
  /\ torn \in BOOLEAN /\ synced \in BOOLEAN
  /\ entry \in {"missing", "volatile", "durable"} /\ covers \in {"unset", "no", "yes"}
  /\ faults \in 0 .. MaxFaults

\* A row that is written keeps the types of the journal.
LEMMA RowWritten ==
  ASSUME LogTyped, NEW a \in Actions, NEW s \in Written, Append(a, s), UNCHANGED faults
  PROVE  LogTyped'
<1>1. Line(a, s) \in [Actions -> Written \cup {"none"}]
  BY DEF LogTyped, Line
<1>2. [rows EXCEPT ![a] = s] \in [Actions -> Written \cup {"none"}]
  BY DEF LogTyped
<1> QED
  BY <1>1, <1>2 DEF LogTyped, Append

\* So does one whose writing fails.
LEMMA RowRaised ==
  ASSUME LogTyped, NEW a \in Actions, NEW s \in Written, AppendRaises(a, s)
  PROVE  LogTyped'
<1>1. Line(a, s) \in [Actions -> Written \cup {"none"}]
  BY DEF LogTyped, Line
<1>2. faults' \in 0 .. MaxFaults
  BY LoopAssumption DEF LogTyped, AppendRaises
<1>3. /\ entry' \in {"missing", "volatile", "durable"} /\ covers' \in {"unset", "no", "yes"}
  BY DEF LogTyped, AppendRaises, MakeParents
<1> QED
  BY <1>1, <1>2, <1>3 DEF LogTyped, AppendRaises

\* Every action keeps the types.
LEMMA TypesKept ==
  ASSUME LoopInv, [NextLoop]_vars PROVE LoopTypeOK'
<1> USE LoopAssumption DEF LoopInv, loopVars, logVars, callVars, gameVars, LoopTypeOK, PendingKnown, Phases, Written, Terminal, Unresolved
<1>1. CASE Load
  <2>1. count' \in 0 .. MaxInputs /\ pc' = "open"
    BY <1>1 DEF Load, Goto
  <2>2. rows' \in [Actions -> Written \cup {"none"}]
    BY <1>1 DEF Load
  <2> QED
    BY <1>1, <2>1, <2>2 DEF Load
<1>2. CASE FirstRead
  BY <1>2 DEF FirstRead, Goto
<1>3. CASE Stops
  BY <1>3 DEF Stops, Goto
<1>4. CASE RetainBefore
  <2>1. pending \in Actions
    BY <1>4 DEF RetainBefore, Underway
  <2>2. faults' \in 0 .. MaxFaults
    BY <1>4 DEF RetainBefore
  <2>3. kept' \in [Actions -> SUBSET {"before", "after"}]
    BY <1>4, <2>1 DEF RetainBefore, Keep
  <2> QED
    BY <1>4, <2>1, <2>2, <2>3 DEF RetainBefore, Goto
<1>5. CASE LogAttempt
  <2>1. pending \in Actions
    BY <1>5 DEF LogAttempt, Underway
  <2>2. LogTyped'
    BY <1>5, <2>1, RowWritten, RowRaised DEF LogAttempt, AppendAndGo, LogTyped
  <2> QED
    BY <1>5, <2>1, <2>2 DEF LogAttempt, AppendAndGo, LogTyped, Goto
<1>6. CASE NotSent
  <2>1. pending \in Actions
    BY <1>6 DEF NotSent, Underway
  <2>2. LogTyped'
    BY <1>6, <2>1, RowWritten, RowRaised DEF NotSent, AppendAndGo, LogTyped
  <2> QED
    BY <1>6, <2>1, <2>2 DEF NotSent, AppendAndGo, LogTyped, Goto
<1>7. CASE Call
  BY <1>7 DEF Call, Goto, Controller!Submit
<1>8. CASE Returned
  <2>1. pending \in Actions /\ count < MaxInputs
    BY <1>8 DEF Returned, Underway
  <2>2. /\ wire' \in [Actions -> {"none", "wire", "executed", "dropped"}]
        /\ status' \in [Actions -> {"none", "ok", "not_sent", "error", "unknown", "raised"}]
    BY <1>8, <2>1 DEF Returned, Controller!Return
  <2>3. count' \in 0 .. MaxInputs /\ tries' \in 0 .. 3
    BY <1>8, <2>1 DEF Returned
  <2>4. pc' \in {"failed", "verify", "rejected"}
    BY <1>8 DEF Returned, Goto
  <2> QED
    BY <1>8, <2>1, <2>2, <2>3, <2>4 DEF Returned
<1>9. CASE Rejected
  <2> DEFINE s == IF status[pending] = "not_sent" THEN "not_sent" ELSE "unknown_outcome"
  <2>1. s \in Written
    OBVIOUS
  <2>2. pending \in Actions
    BY <1>9 DEF Rejected, Underway
  <2>3. LogTyped'
    BY <1>9, <2>1, <2>2, RowWritten, RowRaised DEF Rejected, AppendAndGo, LogTyped
  <2> QED
    BY <1>9, <2>3 DEF Rejected, AppendAndGo, LogTyped, Goto
<1>10. CASE Verify
  BY <1>10 DEF Verify, Goto
<1>11. CASE VerifyFails
  BY <1>11 DEF VerifyFails, Goto
<1>12. CASE RetainAfter
  <2>1. pending \in Actions
    BY <1>12 DEF RetainAfter, Underway
  <2>2. faults' \in 0 .. MaxFaults
    BY <1>12 DEF RetainAfter
  <2>3. kept' \in [Actions -> SUBSET {"before", "after"}]
    BY <1>12, <2>1 DEF RetainAfter, Keep
  <2> QED
    BY <1>12, <2>1, <2>2, <2>3 DEF RetainAfter, Goto
<1>13. CASE LogVerified
  <2>1. pending \in Actions
    BY <1>13 DEF LogVerified, Underway
  <2>2. LogTyped'
    BY <1>13, <2>1, RowWritten, RowRaised DEF LogVerified, LogTyped
  <2> QED
    BY <1>13, <2>1, <2>2 DEF LogVerified, LogTyped, Goto
<1>14. CASE RetainEvidence
  <2>1. faults' \in 0 .. MaxFaults
    BY <1>14 DEF RetainEvidence
  <2> QED
    BY <1>14, <2>1 DEF RetainEvidence, Goto
<1>15. CASE Handler
  <2>1. CASE pending \in Unresolved(rows)
    <3>1. LogTyped'
      BY <1>15, <2>1, RowWritten, RowRaised DEF Handler, AppendAndGo, LogTyped
    <3> QED
      BY <1>15, <2>1, <3>1 DEF Handler, AppendAndGo, LogTyped, Goto
  <2>2. CASE pending \notin Unresolved(rows)
    BY <1>15, <2>2 DEF Handler, Goto
  <2> QED
    BY <2>1, <2>2
<1>16. CASE Cleanup
  BY <1>16 DEF Cleanup, Goto
<1>17. CASE Killed
  BY <1>17 DEF Killed, Goto
<1>18. ASSUME NEW a \in Actions, Decide(a) PROVE LoopTypeOK'
  BY <1>18 DEF Decide, Goto
<1>19. ASSUME NEW a \in Actions, Execute(a) PROVE LoopTypeOK'
  BY <1>19 DEF Execute, Controller!Execute
<1>20. ASSUME NEW a \in Actions, Reconcile(a) PROVE LoopTypeOK'
  BY <1>20 DEF Reconcile
<1>21. CASE UNCHANGED vars
  BY <1>21 DEF vars
<1> QED
  BY <1>1, <1>2, <1>3, <1>4, <1>5, <1>6, <1>7, <1>8, <1>9, <1>10, <1>11, <1>12, <1>13, <1>14, <1>15, <1>16, <1>17, <1>18, <1>19, <1>20, <1>21 DEF NextLoop, LoopStep

\* Memory and disk agree until a write of the process fails.
LEMMA RowsKept ==
  ASSUME LoopInv, [NextLoop]_vars PROVE SameRows'
<1> USE LoopAssumption DEF LoopInv, loopVars, logVars, callVars, gameVars, SameRows, LoopTypeOK, Deciding, Underway, Settled, Terminal
<1>1. CASE Load
  BY <1>1 DEF Load, Goto
<1>2. CASE FirstRead
  BY <1>2 DEF FirstRead, Goto
<1>3. CASE Stops
  BY <1>3 DEF Stops, Goto
<1>4. CASE RetainBefore
  BY <1>4 DEF RetainBefore, Goto, Keep
<1>5. CASE LogAttempt
  BY <1>5 DEF LogAttempt, AppendAndGo, Append, AppendRaises, MakeParents, Line, Goto
<1>6. CASE NotSent
  BY <1>6 DEF NotSent, AppendAndGo, Append, AppendRaises, MakeParents, Line, Goto
<1>7. CASE Call
  BY <1>7 DEF Call, Goto, Controller!Submit
<1>8. CASE Returned
  BY <1>8 DEF Returned, Goto, Controller!Return
<1>9. CASE Rejected
  BY <1>9 DEF Rejected, AppendAndGo, Append, AppendRaises, MakeParents, Line, Goto
<1>10. CASE Verify
  BY <1>10 DEF Verify, Goto
<1>11. CASE VerifyFails
  BY <1>11 DEF VerifyFails, Goto
<1>12. CASE RetainAfter
  BY <1>12 DEF RetainAfter, Goto, Keep
<1>13. CASE LogVerified
  BY <1>13 DEF LogVerified, AppendAndGo, Append, AppendRaises, MakeParents, Line, Goto
<1>14. CASE RetainEvidence
  BY <1>14 DEF RetainEvidence, Goto
<1>15. CASE Handler
  BY <1>15 DEF Handler, AppendAndGo, Append, AppendRaises, MakeParents, Line, Goto
<1>16. CASE Cleanup
  BY <1>16 DEF Cleanup, Goto
<1>17. CASE Killed
  BY <1>17 DEF Killed, Goto
<1>18. ASSUME NEW a \in Actions, Decide(a) PROVE SameRows'
  BY <1>18 DEF Decide, Goto
<1>19. ASSUME NEW a \in Actions, Execute(a) PROVE SameRows'
  BY <1>19 DEF Execute, Controller!Execute
<1>20. ASSUME NEW a \in Actions, Reconcile(a) PROVE SameRows'
  BY <1>20 DEF Reconcile
<1>21. CASE UNCHANGED vars
  BY <1>21 DEF vars
<1> QED
  BY <1>1, <1>2, <1>3, <1>4, <1>5, <1>6, <1>7, <1>8, <1>9, <1>10, <1>11, <1>12, <1>13, <1>14, <1>15, <1>16, <1>17, <1>18, <1>19, <1>20, <1>21 DEF NextLoop, LoopStep

\* The first row flushes the directories that this process made.
LEMMA DirectoriesKept ==
  ASSUME LoopInv, [NextLoop]_vars PROVE Directories'
<1> USE LoopAssumption DEF LoopInv, loopVars, logVars, callVars, gameVars, Directories, LoopTypeOK
<1>1. CASE Load
  BY <1>1 DEF Load, Goto
<1>2. CASE FirstRead
  BY <1>2 DEF FirstRead, Goto
<1>3. CASE Stops
  BY <1>3 DEF Stops, Goto
<1>4. CASE RetainBefore
  BY <1>4 DEF RetainBefore, Goto, Keep
<1>5. CASE LogAttempt
  BY <1>5 DEF LogAttempt, AppendAndGo, Append, AppendRaises, MakeParents, Line, Goto
<1>6. CASE NotSent
  BY <1>6 DEF NotSent, AppendAndGo, Append, AppendRaises, MakeParents, Line, Goto
<1>7. CASE Call
  BY <1>7 DEF Call, Goto, Controller!Submit
<1>8. CASE Returned
  BY <1>8 DEF Returned, Goto, Controller!Return
<1>9. CASE Rejected
  BY <1>9 DEF Rejected, AppendAndGo, Append, AppendRaises, MakeParents, Line, Goto
<1>10. CASE Verify
  BY <1>10 DEF Verify, Goto
<1>11. CASE VerifyFails
  BY <1>11 DEF VerifyFails, Goto
<1>12. CASE RetainAfter
  BY <1>12 DEF RetainAfter, Goto, Keep
<1>13. CASE LogVerified
  BY <1>13 DEF LogVerified, AppendAndGo, Append, AppendRaises, MakeParents, Line, Goto
<1>14. CASE RetainEvidence
  BY <1>14 DEF RetainEvidence, Goto
<1>15. CASE Handler
  BY <1>15 DEF Handler, AppendAndGo, Append, AppendRaises, MakeParents, Line, Goto
<1>16. CASE Cleanup
  BY <1>16 DEF Cleanup, Goto
<1>17. CASE Killed
  BY <1>17 DEF Killed, Goto
<1>18. ASSUME NEW a \in Actions, Decide(a) PROVE Directories'
  BY <1>18 DEF Decide, Goto
<1>19. ASSUME NEW a \in Actions, Execute(a) PROVE Directories'
  BY <1>19 DEF Execute, Controller!Execute
<1>20. ASSUME NEW a \in Actions, Reconcile(a) PROVE Directories'
  BY <1>20 DEF Reconcile
<1>21. CASE UNCHANGED vars
  BY <1>21 DEF vars
<1> QED
  BY <1>1, <1>2, <1>3, <1>4, <1>5, <1>6, <1>7, <1>8, <1>9, <1>10, <1>11, <1>12, <1>13, <1>14, <1>15, <1>16, <1>17, <1>18, <1>19, <1>20, <1>21 DEF NextLoop, LoopStep

\* A process decides only over a journal with no open row, and opens one.
LEMMA OneOpenKept ==
  ASSUME LoopInv, [NextLoop]_vars PROVE OneOpen'
<1> USE LoopAssumption DEF LoopInv, loopVars, logVars, callVars, gameVars, OneOpen, SameRows, PendingKnown, Directories, LoopTypeOK, Unresolved, Written, Deciding, Underway, Settled, Terminal
<1>1. CASE Load
  BY <1>1 DEF Load, Goto
<1>2. CASE FirstRead
  BY <1>2 DEF FirstRead, Goto
<1>3. CASE Stops
  BY <1>3 DEF Stops, Goto
<1>4. CASE RetainBefore
  BY <1>4 DEF RetainBefore, Goto, Keep
<1>5. CASE LogAttempt
  BY <1>5 DEF LogAttempt, AppendAndGo, Append, AppendRaises, MakeParents, Line, Goto
<1>6. CASE NotSent
  BY <1>6 DEF NotSent, AppendAndGo, Append, AppendRaises, MakeParents, Line, Goto
<1>7. CASE Call
  BY <1>7 DEF Call, Goto, Controller!Submit
<1>8. CASE Returned
  BY <1>8 DEF Returned, Goto, Controller!Return
<1>9. CASE Rejected
  BY <1>9 DEF Rejected, AppendAndGo, Append, AppendRaises, MakeParents, Line, Goto
<1>10. CASE Verify
  BY <1>10 DEF Verify, Goto
<1>11. CASE VerifyFails
  BY <1>11 DEF VerifyFails, Goto
<1>12. CASE RetainAfter
  BY <1>12 DEF RetainAfter, Goto, Keep
<1>13. CASE LogVerified
  BY <1>13 DEF LogVerified, AppendAndGo, Append, AppendRaises, MakeParents, Line, Goto
<1>14. CASE RetainEvidence
  BY <1>14 DEF RetainEvidence, Goto
<1>15. CASE Handler
  BY <1>15 DEF Handler, AppendAndGo, Append, AppendRaises, MakeParents, Line, Goto
<1>16. CASE Cleanup
  BY <1>16 DEF Cleanup, Goto
<1>17. CASE Killed
  BY <1>17 DEF Killed, Goto
<1>18. ASSUME NEW a \in Actions, Decide(a) PROVE OneOpen'
  BY <1>18 DEF Decide, Goto
<1>19. ASSUME NEW a \in Actions, Execute(a) PROVE OneOpen'
  BY <1>19 DEF Execute, Controller!Execute
<1>20. ASSUME NEW a \in Actions, Reconcile(a) PROVE OneOpen'
  BY <1>20 DEF Reconcile
<1>21. CASE UNCHANGED vars
  BY <1>21 DEF vars
<1> QED
  BY <1>1, <1>2, <1>3, <1>4, <1>5, <1>6, <1>7, <1>8, <1>9, <1>10, <1>11, <1>12, <1>13, <1>14, <1>15, <1>16, <1>17, <1>18, <1>19, <1>20, <1>21 DEF NextLoop, LoopStep

\* What run() knows of its pending action stays true of it.
LEMMA PendingKept ==
  ASSUME LoopInv, [NextLoop]_vars PROVE PendingKnown'
<1> USE LoopAssumption DEF LoopInv, loopVars, logVars, callVars, gameVars, PendingKnown, LoopTypeOK, SameRows, WiresKnown, Deciding, Underway, Settled, Terminal
<1>1. CASE Load
  BY <1>1 DEF Load, Goto
<1>2. CASE FirstRead
  BY <1>2 DEF FirstRead, Goto
<1>3. CASE Stops
  BY <1>3 DEF Stops, Goto
<1>4. CASE RetainBefore
  BY <1>4 DEF RetainBefore, Goto, Keep
<1>5. CASE LogAttempt
  BY <1>5 DEF LogAttempt, AppendAndGo, Append, AppendRaises, MakeParents, Line, Goto
<1>6. CASE NotSent
  BY <1>6 DEF NotSent, AppendAndGo, Append, AppendRaises, MakeParents, Line, Goto
<1>7. CASE Call
  BY <1>7 DEF Call, Goto, Controller!Submit
<1>8. CASE Returned
  BY <1>8 DEF Returned, Goto, Controller!Return
<1>9. CASE Rejected
  BY <1>9 DEF Rejected, AppendAndGo, Append, AppendRaises, MakeParents, Line, Goto
<1>10. CASE Verify
  BY <1>10 DEF Verify, Goto
<1>11. CASE VerifyFails
  BY <1>11 DEF VerifyFails, Goto
<1>12. CASE RetainAfter
  BY <1>12 DEF RetainAfter, Goto, Keep
<1>13. CASE LogVerified
  BY <1>13 DEF LogVerified, AppendAndGo, Append, AppendRaises, MakeParents, Line, Goto
<1>14. CASE RetainEvidence
  BY <1>14 DEF RetainEvidence, Goto
<1>15. CASE Handler
  BY <1>15 DEF Handler, AppendAndGo, Append, AppendRaises, MakeParents, Line, Goto
<1>16. CASE Cleanup
  BY <1>16 DEF Cleanup, Goto
<1>17. CASE Killed
  BY <1>17 DEF Killed, Goto
<1>18. ASSUME NEW a \in Actions, Decide(a) PROVE PendingKnown'
  BY <1>18 DEF Decide, Goto
<1>19. ASSUME NEW a \in Actions, Execute(a) PROVE PendingKnown'
  BY <1>19 DEF Execute, Controller!Execute
<1>20. ASSUME NEW a \in Actions, Reconcile(a) PROVE PendingKnown'
  BY <1>20 DEF Reconcile
<1>21. CASE UNCHANGED vars
  BY <1>21 DEF vars
<1> QED
  BY <1>1, <1>2, <1>3, <1>4, <1>5, <1>6, <1>7, <1>8, <1>9, <1>10, <1>11, <1>12, <1>13, <1>14, <1>15, <1>16, <1>17, <1>18, <1>19, <1>20, <1>21 DEF NextLoop, LoopStep

\* An action on its way has an open row, and answers stay right about it.
LEMMA WiresKept ==
  ASSUME LoopInv, [NextLoop]_vars PROVE WiresKnown'
<1> USE LoopAssumption DEF LoopInv, loopVars, logVars, callVars, gameVars, WiresKnown, PendingKnown, OneOpen, SameRows, LoopTypeOK, Unresolved, Written, Deciding, Underway, Settled, Terminal
<1>1. CASE Load
  BY <1>1 DEF Load, Goto
<1>2. CASE FirstRead
  BY <1>2 DEF FirstRead, Goto
<1>3. CASE Stops
  BY <1>3 DEF Stops, Goto
<1>4. CASE RetainBefore
  BY <1>4 DEF RetainBefore, Goto, Keep
<1>5. CASE LogAttempt
  BY <1>5 DEF LogAttempt, AppendAndGo, Append, AppendRaises, MakeParents, Line, Goto
<1>6. CASE NotSent
  BY <1>6 DEF NotSent, AppendAndGo, Append, AppendRaises, MakeParents, Line, Goto
<1>7. CASE Call
  BY <1>7 DEF Call, Goto, Controller!Submit
<1>8. CASE Returned
  BY <1>8 DEF Returned, Goto, Controller!Return
<1>9. CASE Rejected
  BY <1>9 DEF Rejected, AppendAndGo, Append, AppendRaises, MakeParents, Line, Goto
<1>10. CASE Verify
  BY <1>10 DEF Verify, Goto
<1>11. CASE VerifyFails
  BY <1>11 DEF VerifyFails, Goto
<1>12. CASE RetainAfter
  BY <1>12 DEF RetainAfter, Goto, Keep
<1>13. CASE LogVerified
  BY <1>13 DEF LogVerified, AppendAndGo, Append, AppendRaises, MakeParents, Line, Goto
<1>14. CASE RetainEvidence
  BY <1>14 DEF RetainEvidence, Goto
<1>15. CASE Handler
  BY <1>15 DEF Handler, AppendAndGo, Append, AppendRaises, MakeParents, Line, Goto
<1>16. CASE Cleanup
  BY <1>16 DEF Cleanup, Goto
<1>17. CASE Killed
  BY <1>17 DEF Killed, Goto
<1>18. ASSUME NEW a \in Actions, Decide(a) PROVE WiresKnown'
  BY <1>18 DEF Decide, Goto
<1>19. ASSUME NEW a \in Actions, Execute(a) PROVE WiresKnown'
  BY <1>19 DEF Execute, Controller!Execute
<1>20. ASSUME NEW a \in Actions, Reconcile(a) PROVE WiresKnown'
  BY <1>20 DEF Reconcile
<1>21. CASE UNCHANGED vars
  BY <1>21 DEF vars
<1> QED
  BY <1>1, <1>2, <1>3, <1>4, <1>5, <1>6, <1>7, <1>8, <1>9, <1>10, <1>11, <1>12, <1>13, <1>14, <1>15, <1>16, <1>17, <1>18, <1>19, <1>20, <1>21 DEF NextLoop, LoopStep

\* Another action can be on its way only while its row is open.
LEMMA OneInFlightKept ==
  ASSUME LoopInv, [NextLoop]_vars PROVE OneInFlight'
<1> USE LoopAssumption DEF LoopInv, loopVars, logVars, callVars, gameVars, OneInFlight, WiresKnown, PendingKnown, OneOpen, SameRows, LoopTypeOK, Unresolved, Written, Deciding, Underway, Settled, Terminal
<1>1. CASE Load
  BY <1>1 DEF Load, Goto
<1>2. CASE FirstRead
  BY <1>2 DEF FirstRead, Goto
<1>3. CASE Stops
  BY <1>3 DEF Stops, Goto
<1>4. CASE RetainBefore
  BY <1>4 DEF RetainBefore, Goto, Keep
<1>5. CASE LogAttempt
  BY <1>5 DEF LogAttempt, AppendAndGo, Append, AppendRaises, MakeParents, Line, Goto
<1>6. CASE NotSent
  BY <1>6 DEF NotSent, AppendAndGo, Append, AppendRaises, MakeParents, Line, Goto
<1>7. CASE Call
  <2>1. pending \in Actions /\ \A a \in Actions : wire[a] = "wire" => a = pending
    BY <1>7 DEF Call
  <2> QED
    BY <1>7, <2>1 DEF Call, Goto, Controller!Submit
<1>8. CASE Returned
  BY <1>8 DEF Returned, Goto, Controller!Return
<1>9. CASE Rejected
  BY <1>9 DEF Rejected, AppendAndGo, Append, AppendRaises, MakeParents, Line, Goto
<1>10. CASE Verify
  BY <1>10 DEF Verify, Goto
<1>11. CASE VerifyFails
  BY <1>11 DEF VerifyFails, Goto
<1>12. CASE RetainAfter
  BY <1>12 DEF RetainAfter, Goto, Keep
<1>13. CASE LogVerified
  BY <1>13 DEF LogVerified, AppendAndGo, Append, AppendRaises, MakeParents, Line, Goto
<1>14. CASE RetainEvidence
  BY <1>14 DEF RetainEvidence, Goto
<1>15. CASE Handler
  BY <1>15 DEF Handler, AppendAndGo, Append, AppendRaises, MakeParents, Line, Goto
<1>16. CASE Cleanup
  BY <1>16 DEF Cleanup, Goto
<1>17. CASE Killed
  BY <1>17 DEF Killed, Goto
<1>18. ASSUME NEW a \in Actions, Decide(a) PROVE OneInFlight'
  BY <1>18 DEF Decide, Goto
<1>19. ASSUME NEW a \in Actions, Execute(a) PROVE OneInFlight'
  BY <1>19 DEF Execute, Controller!Execute
<1>20. ASSUME NEW a \in Actions, Reconcile(a) PROVE OneInFlight'
  BY <1>20 DEF Reconcile
<1>21. CASE UNCHANGED vars
  BY <1>21 DEF vars
<1> QED
  BY <1>1, <1>2, <1>3, <1>4, <1>5, <1>6, <1>7, <1>8, <1>9, <1>10, <1>11, <1>12, <1>13, <1>14, <1>15, <1>16, <1>17, <1>18, <1>19, <1>20, <1>21 DEF NextLoop, LoopStep

\* No input is made between the frame of a decision and its own input.
LEMMA FrameKept ==
  ASSUME LoopInv, [NextLoop]_vars PROVE FrameCurrent'
<1> USE LoopAssumption DEF LoopInv, loopVars, logVars, callVars, gameVars, FrameCurrent, WiresKnown, PendingKnown, OneOpen, SameRows, LoopTypeOK, Unresolved, Written, Deciding, Underway, Settled, Terminal
<1>1. CASE Load
  BY <1>1 DEF Load, Goto
<1>2. CASE FirstRead
  BY <1>2 DEF FirstRead, Goto
<1>3. CASE Stops
  BY <1>3 DEF Stops, Goto
<1>4. CASE RetainBefore
  BY <1>4 DEF RetainBefore, Goto, Keep
<1>5. CASE LogAttempt
  BY <1>5 DEF LogAttempt, AppendAndGo, Append, AppendRaises, MakeParents, Line, Goto
<1>6. CASE NotSent
  BY <1>6 DEF NotSent, AppendAndGo, Append, AppendRaises, MakeParents, Line, Goto
<1>7. CASE Call
  BY <1>7 DEF Call, Goto, Controller!Submit
<1>8. CASE Returned
  BY <1>8 DEF Returned, Goto, Controller!Return
<1>9. CASE Rejected
  BY <1>9 DEF Rejected, AppendAndGo, Append, AppendRaises, MakeParents, Line, Goto
<1>10. CASE Verify
  BY <1>10 DEF Verify, Goto
<1>11. CASE VerifyFails
  BY <1>11 DEF VerifyFails, Goto
<1>12. CASE RetainAfter
  BY <1>12 DEF RetainAfter, Goto, Keep
<1>13. CASE LogVerified
  BY <1>13 DEF LogVerified, AppendAndGo, Append, AppendRaises, MakeParents, Line, Goto
<1>14. CASE RetainEvidence
  BY <1>14 DEF RetainEvidence, Goto
<1>15. CASE Handler
  BY <1>15 DEF Handler, AppendAndGo, Append, AppendRaises, MakeParents, Line, Goto
<1>16. CASE Cleanup
  BY <1>16 DEF Cleanup, Goto
<1>17. CASE Killed
  BY <1>17 DEF Killed, Goto
<1>18. ASSUME NEW a \in Actions, Decide(a) PROVE FrameCurrent'
  BY <1>18 DEF Decide, Goto
<1>19. ASSUME NEW a \in Actions, Execute(a) PROVE FrameCurrent'
  BY <1>19 DEF Execute, Controller!Execute
<1>20. ASSUME NEW a \in Actions, Reconcile(a) PROVE FrameCurrent'
  BY <1>20 DEF Reconcile
<1>21. CASE UNCHANGED vars
  BY <1>21 DEF vars
<1> QED
  BY <1>1, <1>2, <1>3, <1>4, <1>5, <1>6, <1>7, <1>8, <1>9, <1>10, <1>11, <1>12, <1>13, <1>14, <1>15, <1>16, <1>17, <1>18, <1>19, <1>20, <1>21 DEF NextLoop, LoopStep

\* A row is closed as verified after both its images were retained.
LEMMA BackedKept ==
  ASSUME LoopInv, [NextLoop]_vars PROVE Backed'
<1> USE LoopAssumption DEF LoopInv, loopVars, logVars, callVars, gameVars, Backed, EvidenceBacked, PendingKnown, OneOpen, SameRows, LoopTypeOK, Unresolved, Deciding, Underway, Settled, Terminal
<1>1. CASE Load
  BY <1>1 DEF Load, Goto
<1>2. CASE FirstRead
  BY <1>2 DEF FirstRead, Goto
<1>3. CASE Stops
  BY <1>3 DEF Stops, Goto
<1>4. CASE RetainBefore
  BY <1>4 DEF RetainBefore, Goto, Keep
<1>5. CASE LogAttempt
  BY <1>5 DEF LogAttempt, AppendAndGo, Append, AppendRaises, MakeParents, Line, Goto
<1>6. CASE NotSent
  BY <1>6 DEF NotSent, AppendAndGo, Append, AppendRaises, MakeParents, Line, Goto
<1>7. CASE Call
  BY <1>7 DEF Call, Goto, Controller!Submit
<1>8. CASE Returned
  BY <1>8 DEF Returned, Goto, Controller!Return
<1>9. CASE Rejected
  BY <1>9 DEF Rejected, AppendAndGo, Append, AppendRaises, MakeParents, Line, Goto
<1>10. CASE Verify
  BY <1>10 DEF Verify, Goto
<1>11. CASE VerifyFails
  BY <1>11 DEF VerifyFails, Goto
<1>12. CASE RetainAfter
  BY <1>12 DEF RetainAfter, Goto, Keep
<1>13. CASE LogVerified
  BY <1>13 DEF LogVerified, AppendAndGo, Append, AppendRaises, MakeParents, Line, Goto
<1>14. CASE RetainEvidence
  BY <1>14 DEF RetainEvidence, Goto
<1>15. CASE Handler
  BY <1>15 DEF Handler, AppendAndGo, Append, AppendRaises, MakeParents, Line, Goto
<1>16. CASE Cleanup
  BY <1>16 DEF Cleanup, Goto
<1>17. CASE Killed
  BY <1>17 DEF Killed, Goto
<1>18. ASSUME NEW a \in Actions, Decide(a) PROVE Backed'
  BY <1>18 DEF Decide, Goto
<1>19. ASSUME NEW a \in Actions, Execute(a) PROVE Backed'
  BY <1>19 DEF Execute, Controller!Execute
<1>20. ASSUME NEW a \in Actions, Reconcile(a) PROVE Backed'
  BY <1>20 DEF Reconcile
<1>21. CASE UNCHANGED vars
  BY <1>21 DEF vars
<1> QED
  BY <1>1, <1>2, <1>3, <1>4, <1>5, <1>6, <1>7, <1>8, <1>9, <1>10, <1>11, <1>12, <1>13, <1>14, <1>15, <1>16, <1>17, <1>18, <1>19, <1>20, <1>21 DEF NextLoop, LoopStep

-------------------------------------------------------------------------------
\* The invariant is inductive.
LEMMA LoopInitially == ASSUME Init PROVE LoopInv
<1> USE LoopAssumption DEF Init, Controller!Init
<1>1. LoopTypeOK
  <2>1. /\ rows \in [Actions -> Written \cup {"none"}] /\ file = rows /\ stable = rows
        /\ wire \in [Actions -> {"none", "wire", "executed", "dropped"}]
        /\ status \in [Actions -> {"none", "ok", "not_sent", "error", "unknown", "raised"}]
    BY DEF Written
  <2>2. kept \in [Actions -> SUBSET {"before", "after"}]
    OBVIOUS
  <2>3. count \in 0 .. MaxInputs /\ faults \in 0 .. MaxFaults
    OBVIOUS
  <2>4. frame \in Nat /\ tries \in 0 .. 3 /\ inputs \in Nat /\ pos \in [Actions -> Nat]
    OBVIOUS
  <2>5. /\ pc \in Phases /\ pending \in Actions \cup {NoAction} /\ torn \in BOOLEAN /\ synced \in BOOLEAN
        /\ entry \in {"missing", "volatile", "durable"} /\ covers \in {"unset", "no", "yes"}
    BY DEF Phases
  <2> HIDE DEF Init
  <2> QED
    BY <2>1, <2>2, <2>3, <2>4, <2>5 DEF LoopTypeOK
<1>2. SameRows /\ Directories /\ OneOpen /\ PendingKnown
  BY DEF SameRows, Directories, OneOpen, PendingKnown, Deciding, Underway
<1>3. WiresKnown /\ OneInFlight
  BY DEF WiresKnown, OneInFlight
<1>4. FrameCurrent /\ Backed
  BY DEF FrameCurrent, Backed, EvidenceBacked, Deciding, Underway
<1> QED
  BY <1>1, <1>2, <1>3, <1>4 DEF LoopInv

\* Part by part, every step keeps it.
LEMMA LoopInductive == ASSUME LoopInv, [NextLoop]_vars PROVE LoopInv'
  BY TypesKept, RowsKept, DirectoriesKept, OneOpenKept, PendingKept, WiresKept, OneInFlightKept,
     FrameKept, BackedKept DEF LoopInv

\* The loop never leaves the invariant, whatever fails and whenever it is killed.
THEOREM LoopInvariant == Spec => []LoopInv
  BY LoopInitially, LoopInductive, PTL DEF Spec

\* For any number of actions, kills and disk failures what the journal says of
\* an action that it closes is what happened to it, and at most one action the
\* controller has is open.
THEOREM RowsAlwaysTrue == Spec => []RowsAreTrue
<1>1. ASSUME LoopInv PROVE RowsAreTrue
  BY <1>1 DEF LoopInv, RowsAreTrue, WiresKnown, FrameCurrent, Backed, NotSentIsTrue, VerifiedIsTrue
<1> QED
  BY <1>1, LoopInvariant, PTL

\* What LoggedBeforeInput says of a step.
Logged ==
  /\ \A a \in Actions : Sends(a) =>
       /\ stable[a] = "attempted" /\ ~torn
       /\ covers = "yes" => entry = "durable"
       /\ frame = inputs
  /\ pc # "down" => \A a \in Actions : rows[a] \in Terminal =>
       rows'[a] = rows[a] /\ file'[a] = file[a]

\* Every step logs before it sends and leaves closed rows closed.
LEMMA LoggedStep == ASSUME LoopInv, [NextLoop]_vars PROVE Logged
<1> USE LoopAssumption DEF LoopInv, loopVars, logVars, callVars, gameVars, Logged, Sends, FrameCurrent, WiresKnown, PendingKnown, OneOpen, SameRows, LoopTypeOK, Unresolved, Written, Deciding, Underway, Settled, Terminal
<1>1. CASE Load
  BY <1>1 DEF Load, Goto
<1>2. CASE FirstRead
  BY <1>2 DEF FirstRead, Goto
<1>3. CASE Stops
  BY <1>3 DEF Stops, Goto
<1>4. CASE RetainBefore
  BY <1>4 DEF RetainBefore, Goto, Keep
<1>5. CASE LogAttempt
  BY <1>5 DEF LogAttempt, AppendAndGo, Append, AppendRaises, MakeParents, Line, Goto
<1>6. CASE NotSent
  BY <1>6 DEF NotSent, AppendAndGo, Append, AppendRaises, MakeParents, Line, Goto
<1>7. CASE Call
  BY <1>7 DEF Call, Goto, Controller!Submit
<1>8. CASE Returned
  BY <1>8 DEF Returned, Goto, Controller!Return
<1>9. CASE Rejected
  BY <1>9 DEF Rejected, AppendAndGo, Append, AppendRaises, MakeParents, Line, Goto
<1>10. CASE Verify
  BY <1>10 DEF Verify, Goto
<1>11. CASE VerifyFails
  BY <1>11 DEF VerifyFails, Goto
<1>12. CASE RetainAfter
  BY <1>12 DEF RetainAfter, Goto, Keep
<1>13. CASE LogVerified
  BY <1>13 DEF LogVerified, AppendAndGo, Append, AppendRaises, MakeParents, Line, Goto
<1>14. CASE RetainEvidence
  BY <1>14 DEF RetainEvidence, Goto
<1>15. CASE Handler
  BY <1>15 DEF Handler, AppendAndGo, Append, AppendRaises, MakeParents, Line, Goto
<1>16. CASE Cleanup
  BY <1>16 DEF Cleanup, Goto
<1>17. CASE Killed
  BY <1>17 DEF Killed, Goto
<1>18. ASSUME NEW a \in Actions, Decide(a) PROVE Logged
  BY <1>18 DEF Decide, Goto
<1>19. ASSUME NEW a \in Actions, Execute(a) PROVE Logged
  BY <1>19 DEF Execute, Controller!Execute
<1>20. ASSUME NEW a \in Actions, Reconcile(a) PROVE Logged
  BY <1>20 DEF Reconcile
<1>21. CASE UNCHANGED vars
  BY <1>21 DEF vars
<1> QED
  BY <1>1, <1>2, <1>3, <1>4, <1>5, <1>6, <1>7, <1>8, <1>9, <1>10, <1>11, <1>12, <1>13, <1>14, <1>15, <1>16, <1>17, <1>18, <1>19, <1>20, <1>21 DEF NextLoop, LoopStep

\* For every bound, nothing reaches the controller before its attempt is on disk,
\* in directories that are flushed and on a frame that is current, and a row that
\* a process has closed stays closed.
THEOREM AlwaysLogged == Spec => LoggedBeforeInput
<1>1. ASSUME LoopInv, [NextLoop]_vars PROVE [Logged]_vars
  BY <1>1, LoggedStep
<1> QED
  BY <1>1, LoopInvariant, PTL DEF Spec, LoggedBeforeInput, Logged

===============================================================================
