------------------------ MODULE BridgeDispatcher_proofs ------------------------
(***************************************************************************)
(* Proofs about BridgeDispatcher for any number of lines and ids, whatever *)
(* the limit of the ledger and however connections and tasks end.          *)
(***************************************************************************)
EXTENDS BridgeDispatcher, TLAPS

\* A line that was not read has left no trace, and an answer is the last thing
\* that happens to one that was.
LinesInOrder ==
  \A c \in Calls :
    /\ at[c] = "none" => req[c].id = NoLine /\ reply[c] = "none" /\ op[c] = "none"
    /\ at[c] # "none" => req[c].id \in Ids
    /\ reply[c] # "none" => at[c] = "done"

\* An id belongs to the line that was admitted with it, and only that line gets
\* to a task; repetitions have its content.
IdsOwned ==
  /\ \A i \in Ids : ledger[i] # NoLine =>
       req[ledger[i]].id = i /\ at[ledger[i]] \notin {"none", "dup"}
  /\ \A c \in Calls :
       /\ at[c] \in {"queued", "running"} \/ op[c] # "none" => at[c] # "none" /\ ledger[req[c].id] = c
       /\ at[c] = "dup" => ledger[req[c].id] # NoLine /\ req[ledger[req[c].id]].kind = req[c].kind

\* The task of a line exists from its lock on, ends with a result unless it is
\* cancelled, and sends input only if the line is one.
TasksKnown ==
  \A c \in Calls :
    /\ at[c] = "queued" => op[c] = "none"
    /\ at[c] = "running" <=> lock = c
    /\ at[c] = "running" => op[c] \in {"created", "executing", "over"}
    /\ at[c] = "running" /\ op[c] = "over" => out[c] # "none"
    /\ op[c] \in {"created", "executing"} => at[c] = "running"
    /\ op[c] # "over" => out[c] = "none"
    /\ op[c] = "none" => input[c] = "none"
    /\ input[c] = "complete" => req[c].kind = "tap"
    /\ op[c] \in {"executing", "unwinding"} => req[c].kind \in {"tap", "bad"}
    /\ out[c] = "ok" => req[c].kind # "bad" /\ (req[c].kind = "tap" => input[c] = "complete")

\* The ledger holds as many ids as it can.
Full == Cardinality(Admitted) >= MaxRequests

\* What was refused has no owner and can get none any more, or its owner never
\* had a task.
RefusalsLast ==
  \A c \in Calls : reply[c] = "not_sent" =>
    IF ledger[req[c].id] = NoLine
    THEN Ended \/ Full
    ELSE op[ledger[req[c].id]] = "none" /\ at[ledger[req[c].id]] = "done"

\* A confirmation is that of the task of the id, for a line of its content.
ConfirmationsKnown ==
  \A c \in Calls : reply[c] = "ok" =>
    LET d == ledger[req[c].id] IN d # NoLine /\ req[d].kind = req[c].kind /\ out[d] = "ok"

\* A doubtful outcome has stopped the session, and no other task is alive; only
\* such a task can still unwind.
DoubtStops ==
  \A c \in Calls :
    /\ Unconfirmed(c) => stopped /\ lock = NoLine /\ \A d \in Calls \ {c} : op[d] \in {"none", "over"}
    /\ op[c] = "unwinding" => Unconfirmed(c)

DispatcherInv ==
  /\ ServerTypeOK
  /\ LinesInOrder /\ IdsOwned /\ TasksKnown /\ RefusalsLast /\ ConfirmationsKnown /\ DoubtStops

-------------------------------------------------------------------------------
\* Besides the end of the clients, _run touches no line, no task and no answer,
\* and never goes back on the end of the session.
QuietVars == <<at, req, ledger, reply, lock, op, out, input>>

LEMMA QuietStep ==
  ASSUME RunStep PROVE CancelClients \/ (UNCHANGED QuietVars /\ (stopped => stopped') /\ (Ended => Ended'))
  BY DEF RunStep, QuietVars, Ended, TransportFails, ClientConnects, ClientLeaves, ReaderInterrupted,
     ClientIdle, ServerCloses, ServerClosed, Close

\* Every step keeps the types.
LEMMA TypesKept ==
  ASSUME DispatcherInv, [NextServer]_serverVars PROVE ServerTypeOK'
<1> USE DispatcherAssumption DEF DispatcherInv, ServerTypeOK, LinesInOrder, IdsOwned, TasksKnown, Places, Replies
<1>1. ASSUME NEW c \in Calls, DuplicateAnswered(c) PROVE ServerTypeOK'
  BY <1>1 DEF DuplicateAnswered, Answer
<1>2. ASSUME NEW c \in Calls, DuplicateTimeout(c) PROVE ServerTypeOK'
  BY <1>2 DEF DuplicateTimeout, Answer
<1>3. ASSUME NEW c \in Calls, Acquire(c) PROVE ServerTypeOK'
  <2>1. CASE Ended
    <3>1. at' \in [Calls -> Places] /\ reply' \in [Calls -> Replies]
      BY <1>3, <2>1 DEF Acquire, Answer
    <3> QED
      BY <1>3, <2>1, <3>1 DEF Acquire
  <2>2. CASE ~Ended
    <3>1. at' \in [Calls -> Places]
      BY <1>3, <2>2 DEF Acquire
    <3>2. op' \in [Calls -> {"none", "created", "executing", "unwinding", "over"}] /\ lock' = c
      BY <1>3, <2>2 DEF Acquire
    <3> QED
      BY <1>3, <2>2, <3>1, <3>2 DEF Acquire
  <2> QED
    BY <2>1, <2>2
<1>4. ASSUME NEW c \in Calls, QueueTimeout(c) PROVE ServerTypeOK'
  BY <1>4 DEF QueueTimeout, Answer
<1>5. ASSUME NEW c \in Calls, Complete(c) PROVE ServerTypeOK'
  BY <1>5 DEF Complete, Answer, ReplyOf
<1>6. ASSUME NEW c \in Calls, Timeout(c) PROVE ServerTypeOK'
  BY <1>6 DEF Timeout, Answer, Cancel
<1>7. ASSUME NEW c \in Calls, Handle(c) PROVE ServerTypeOK'
  <2>1. op' \in [Calls -> {"none", "created", "executing", "unwinding", "over"}]
    BY <1>7 DEF Handle, EndTask
  <2>2. out' \in [Calls -> {"none", "ok", "invalid", "fault"}]
    BY <1>7 DEF Handle, EndTask
  <2> QED
    BY <1>7, <2>1, <2>2 DEF Handle
<1>8. ASSUME NEW c \in Calls, Feedback(c) PROVE ServerTypeOK'
  BY <1>8 DEF Feedback, InService
<1>9. ASSUME NEW c \in Calls, InputCompletes(c) PROVE ServerTypeOK'
  BY <1>9 DEF InputCompletes
<1>10. ASSUME NEW c \in Calls, ServiceReturns(c) PROVE ServerTypeOK'
  <2>1. out' \in [Calls -> {"none", "ok", "invalid", "fault"}]
    BY <1>10 DEF ServiceReturns, EndTask
  <2>2. op' \in [Calls -> {"none", "created", "executing", "unwinding", "over"}]
    BY <1>10 DEF ServiceReturns, EndTask
  <2> QED
    BY <1>10, <2>1, <2>2 DEF ServiceReturns
<1>11. ASSUME NEW c \in Calls, ServiceInterrupted(c) PROVE ServerTypeOK'
  BY <1>11 DEF ServiceInterrupted, EndTask
<1>12. ASSUME NEW c \in Calls, Unwind(c) PROVE ServerTypeOK'
  BY <1>12 DEF Unwind
<1>13. ASSUME NEW c \in Calls, NEW i \in Ids, NEW k \in Kinds, Arrive(c, i, k) PROVE ServerTypeOK'
  <2>1. req' \in [Calls -> [id : Ids \cup {NoLine}, kind : Kinds]]
    BY <1>13 DEF Arrive, Request
  <2>2. at' \in [Calls -> Places]
    <3>1. \E p \in Places : at' = [at EXCEPT ![c] = p]
      BY <1>13 DEF Arrive, Admission, Refusal, Admit, Answer
    <3> QED
      BY <3>1
  <2>3. reply' \in [Calls -> Replies]
    <3>1. \E r \in Replies \cup {reply[c]} : reply' = [reply EXCEPT ![c] = r]
      BY <1>13 DEF Arrive, Admission, Refusal, Admit, Answer
    <3>2. reply[c] \in Replies
      OBVIOUS
    <3> QED
      BY <3>1, <3>2
  <2>4. ledger' = ledger \/ ledger' = [ledger EXCEPT ![i] = c]
    BY <1>13 DEF Arrive, Admission, Refusal, Admit
  <2> QED
    BY <1>13, <2>1, <2>2, <2>3, <2>4 DEF Arrive
<1>14. CASE CancelClients
  BY <1>14 DEF CancelClients, Busy
<1>15. CASE RunStep /\ ~CancelClients /\ UNCHANGED QuietVars /\ (stopped => stopped') /\ (Ended => Ended')
  <2>1. phase' \in {"serving", "stopping", "draining", "closing", "closed"}
    BY <1>15 DEF RunStep, TransportFails, ClientConnects, ClientLeaves, ReaderInterrupted,
       ClientIdle, ServerCloses, ServerClosed, CancelClients, Close
  <2>2. stopped \in BOOLEAN /\ faulted \in BOOLEAN /\ failed \in BOOLEAN /\ idle \in BOOLEAN
    OBVIOUS
  <2>3. stopped' \in BOOLEAN /\ faulted' \in BOOLEAN /\ failed' \in BOOLEAN /\ idle' \in BOOLEAN
    BY <1>15, <2>2 DEF RunStep, TransportFails, ClientConnects, ClientLeaves, ReaderInterrupted,
       ClientIdle, ServerCloses, ServerClosed, Close
  <2> QED
    BY <1>15, <2>1, <2>3 DEF QuietVars
<1>16. CASE UNCHANGED serverVars
  BY <1>16 DEF serverVars
<1> QED
  BY <1>1, <1>2, <1>3, <1>4, <1>5, <1>6, <1>7, <1>8, <1>9, <1>10, <1>11, <1>12, <1>13, <1>14, <1>15, <1>16, QuietStep
     DEF NextServer, ServerStep, CallStep, TaskStep

\* Lines are read, admitted and answered in that order.
LEMMA LinesKept ==
  ASSUME DispatcherInv, [NextServer]_serverVars PROVE LinesInOrder'
<1> USE DispatcherAssumption DEF DispatcherInv, ServerTypeOK, LinesInOrder, IdsOwned, TasksKnown, Places, Replies
<1>1. ASSUME NEW c \in Calls, DuplicateAnswered(c) PROVE LinesInOrder'
  BY <1>1 DEF DuplicateAnswered, Answer
<1>2. ASSUME NEW c \in Calls, DuplicateTimeout(c) PROVE LinesInOrder'
  BY <1>2 DEF DuplicateTimeout, Answer
<1>3. ASSUME NEW c \in Calls, Acquire(c) PROVE LinesInOrder'
  BY <1>3 DEF Acquire, Answer
<1>4. ASSUME NEW c \in Calls, QueueTimeout(c) PROVE LinesInOrder'
  BY <1>4 DEF QueueTimeout, Answer
<1>5. ASSUME NEW c \in Calls, Complete(c) PROVE LinesInOrder'
  BY <1>5 DEF Complete, Answer, ReplyOf
<1>6. ASSUME NEW c \in Calls, Timeout(c) PROVE LinesInOrder'
  BY <1>6 DEF Timeout, Answer, Cancel
<1>7. ASSUME NEW c \in Calls, Handle(c) PROVE LinesInOrder'
  BY <1>7 DEF Handle, EndTask
<1>8. ASSUME NEW c \in Calls, Feedback(c) PROVE LinesInOrder'
  BY <1>8 DEF Feedback, InService
<1>9. ASSUME NEW c \in Calls, InputCompletes(c) PROVE LinesInOrder'
  BY <1>9 DEF InputCompletes
<1>10. ASSUME NEW c \in Calls, ServiceReturns(c) PROVE LinesInOrder'
  BY <1>10 DEF ServiceReturns, EndTask
<1>11. ASSUME NEW c \in Calls, ServiceInterrupted(c) PROVE LinesInOrder'
  BY <1>11 DEF ServiceInterrupted, EndTask
<1>12. ASSUME NEW c \in Calls, Unwind(c) PROVE LinesInOrder'
  BY <1>12 DEF Unwind
<1>13. ASSUME NEW c \in Calls, NEW i \in Ids, NEW k \in Kinds, Arrive(c, i, k) PROVE LinesInOrder'
  BY <1>13 DEF Arrive, Admission, Refusal, Admit, Answer, Request
<1>14. CASE CancelClients
  BY <1>14 DEF CancelClients, Busy
<1>15. CASE RunStep /\ ~CancelClients /\ UNCHANGED QuietVars /\ (stopped => stopped') /\ (Ended => Ended')
  BY <1>15 DEF QuietVars
<1>16. CASE UNCHANGED serverVars
  BY <1>16 DEF serverVars
<1> QED
  BY <1>1, <1>2, <1>3, <1>4, <1>5, <1>6, <1>7, <1>8, <1>9, <1>10, <1>11, <1>12, <1>13, <1>14, <1>15, <1>16, QuietStep
     DEF NextServer, ServerStep, CallStep, TaskStep

\* The first line with an id keeps it.
LEMMA IdsKept ==
  ASSUME DispatcherInv, [NextServer]_serverVars PROVE IdsOwned'
<1> USE DispatcherAssumption DEF DispatcherInv, ServerTypeOK, LinesInOrder, IdsOwned, TasksKnown, Places
<1>1. ASSUME NEW c \in Calls, DuplicateAnswered(c) PROVE IdsOwned'
  BY <1>1 DEF DuplicateAnswered, Answer
<1>2. ASSUME NEW c \in Calls, DuplicateTimeout(c) PROVE IdsOwned'
  BY <1>2 DEF DuplicateTimeout, Answer
<1>3. ASSUME NEW c \in Calls, Acquire(c) PROVE IdsOwned'
  BY <1>3 DEF Acquire, Answer
<1>4. ASSUME NEW c \in Calls, QueueTimeout(c) PROVE IdsOwned'
  BY <1>4 DEF QueueTimeout, Answer
<1>5. ASSUME NEW c \in Calls, Complete(c) PROVE IdsOwned'
  BY <1>5 DEF Complete, Answer, ReplyOf
<1>6. ASSUME NEW c \in Calls, Timeout(c) PROVE IdsOwned'
  BY <1>6 DEF Timeout, Answer, Cancel
<1>7. ASSUME NEW c \in Calls, Handle(c) PROVE IdsOwned'
  BY <1>7 DEF Handle, EndTask
<1>8. ASSUME NEW c \in Calls, Feedback(c) PROVE IdsOwned'
  BY <1>8 DEF Feedback, InService
<1>9. ASSUME NEW c \in Calls, InputCompletes(c) PROVE IdsOwned'
  BY <1>9 DEF InputCompletes
<1>10. ASSUME NEW c \in Calls, ServiceReturns(c) PROVE IdsOwned'
  BY <1>10 DEF ServiceReturns, EndTask
<1>11. ASSUME NEW c \in Calls, ServiceInterrupted(c) PROVE IdsOwned'
  BY <1>11 DEF ServiceInterrupted, EndTask
<1>12. ASSUME NEW c \in Calls, Unwind(c) PROVE IdsOwned'
  BY <1>12 DEF Unwind
<1>13. ASSUME NEW c \in Calls, NEW i \in Ids, NEW k \in Kinds, Arrive(c, i, k) PROVE IdsOwned'
  BY <1>13 DEF Arrive, Admission, Refusal, Admit, Answer, Request
<1>14. CASE CancelClients
  BY <1>14 DEF CancelClients, Busy
<1>15. CASE RunStep /\ ~CancelClients /\ UNCHANGED QuietVars /\ (stopped => stopped') /\ (Ended => Ended')
  BY <1>15 DEF QuietVars
<1>16. CASE UNCHANGED serverVars
  BY <1>16 DEF serverVars
<1> QED
  BY <1>1, <1>2, <1>3, <1>4, <1>5, <1>6, <1>7, <1>8, <1>9, <1>10, <1>11, <1>12, <1>13, <1>14, <1>15, <1>16, QuietStep
     DEF NextServer, ServerStep, CallStep, TaskStep

\* The lock is handed from task to task, and a task ends once.
LEMMA TasksKept ==
  ASSUME DispatcherInv, [NextServer]_serverVars PROVE TasksKnown'
<1> USE DispatcherAssumption DEF DispatcherInv, ServerTypeOK, LinesInOrder, IdsOwned, TasksKnown, Places, InService
<1>1. ASSUME NEW c \in Calls, DuplicateAnswered(c) PROVE TasksKnown'
  BY <1>1 DEF DuplicateAnswered, Answer
<1>2. ASSUME NEW c \in Calls, DuplicateTimeout(c) PROVE TasksKnown'
  BY <1>2 DEF DuplicateTimeout, Answer
<1>3. ASSUME NEW c \in Calls, Acquire(c) PROVE TasksKnown'
  BY <1>3 DEF Acquire, Answer
<1>4. ASSUME NEW c \in Calls, QueueTimeout(c) PROVE TasksKnown'
  BY <1>4 DEF QueueTimeout, Answer
<1>5. ASSUME NEW c \in Calls, Complete(c) PROVE TasksKnown'
  BY <1>5 DEF Complete, Answer, ReplyOf
<1>6. ASSUME NEW c \in Calls, Timeout(c) PROVE TasksKnown'
  BY <1>6 DEF Timeout, Answer, Cancel
<1>7. ASSUME NEW c \in Calls, Handle(c) PROVE TasksKnown'
  BY <1>7 DEF Handle, EndTask
<1>8. ASSUME NEW c \in Calls, Feedback(c) PROVE TasksKnown'
  BY <1>8 DEF Feedback, InService
<1>9. ASSUME NEW c \in Calls, InputCompletes(c) PROVE TasksKnown'
  BY <1>9 DEF InputCompletes
<1>10. ASSUME NEW c \in Calls, ServiceReturns(c) PROVE TasksKnown'
  <2>1. at[c] = "running" /\ lock = c
    BY <1>10 DEF ServiceReturns
  <2> QED
    BY <1>10, <2>1 DEF ServiceReturns, EndTask
<1>11. ASSUME NEW c \in Calls, ServiceInterrupted(c) PROVE TasksKnown'
  BY <1>11 DEF ServiceInterrupted, EndTask
<1>12. ASSUME NEW c \in Calls, Unwind(c) PROVE TasksKnown'
  BY <1>12 DEF Unwind
<1>13. ASSUME NEW c \in Calls, NEW i \in Ids, NEW k \in Kinds, Arrive(c, i, k) PROVE TasksKnown'
  BY <1>13 DEF Arrive, Admission, Refusal, Admit, Answer, Request
<1>14. CASE CancelClients
  BY <1>14 DEF CancelClients, Busy
<1>15. CASE RunStep /\ ~CancelClients /\ UNCHANGED QuietVars /\ (stopped => stopped') /\ (Ended => Ended')
  BY <1>15 DEF QuietVars
<1>16. CASE UNCHANGED serverVars
  BY <1>16 DEF serverVars
<1> QED
  BY <1>1, <1>2, <1>3, <1>4, <1>5, <1>6, <1>7, <1>8, <1>9, <1>10, <1>11, <1>12, <1>13, <1>14, <1>15, <1>16, QuietStep
     DEF NextServer, ServerStep, CallStep, TaskStep

\* A session that has ended stays so, and the ledger forgets nothing.
LEMMA RefusalsKept ==
  ASSUME DispatcherInv, [NextServer]_serverVars PROVE RefusalsLast'
<1> USE DispatcherAssumption DEF DispatcherInv, ServerTypeOK, LinesInOrder, IdsOwned, TasksKnown, RefusalsLast
<1>0. /\ UNCHANGED ledger => (Full <=> Full')
      /\ UNCHANGED <<stopped, failed>> => (Ended <=> Ended')
  <2>1. ASSUME UNCHANGED ledger PROVE Full <=> Full'
    BY <2>1 DEF Full, Admitted
  <2> QED
    BY <2>1 DEF Ended
<1>1. ASSUME NEW c \in Calls, DuplicateAnswered(c) PROVE RefusalsLast'
  BY <1>1, <1>0 DEF DuplicateAnswered, Answer
<1>2. ASSUME NEW c \in Calls, DuplicateTimeout(c) PROVE RefusalsLast'
  BY <1>2, <1>0 DEF DuplicateTimeout, Answer
<1>3. ASSUME NEW c \in Calls, Acquire(c) PROVE RefusalsLast'
  BY <1>3, <1>0 DEF Acquire, Answer
<1>4. ASSUME NEW c \in Calls, QueueTimeout(c) PROVE RefusalsLast'
  BY <1>4, <1>0 DEF QueueTimeout, Answer
<1>5. ASSUME NEW c \in Calls, Complete(c) PROVE RefusalsLast'
  <2>1. ReplyOf(c) # "not_sent"
    BY <1>5 DEF Complete, ReplyOf
  <2>2. Ended => Ended'
    BY <1>5 DEF Complete, Ended
  <2> QED
    BY <1>5, <1>0, <2>1, <2>2 DEF Complete, Answer
<1>6. ASSUME NEW c \in Calls, Timeout(c) PROVE RefusalsLast'
  <2>1. Ended => Ended'
    BY <1>6 DEF Timeout, Ended
  <2> QED
    BY <1>6, <1>0, <2>1 DEF Timeout, Answer, Cancel
<1>7. ASSUME NEW c \in Calls, Handle(c) PROVE RefusalsLast'
  BY <1>7, <1>0 DEF Handle, EndTask
<1>8. ASSUME NEW c \in Calls, Feedback(c) PROVE RefusalsLast'
  BY <1>8, <1>0 DEF Feedback, InService
<1>9. ASSUME NEW c \in Calls, InputCompletes(c) PROVE RefusalsLast'
  BY <1>9, <1>0 DEF InputCompletes
<1>10. ASSUME NEW c \in Calls, ServiceReturns(c) PROVE RefusalsLast'
  BY <1>10, <1>0 DEF ServiceReturns, EndTask
<1>11. ASSUME NEW c \in Calls, ServiceInterrupted(c) PROVE RefusalsLast'
  BY <1>11, <1>0 DEF ServiceInterrupted, EndTask
<1>12. ASSUME NEW c \in Calls, Unwind(c) PROVE RefusalsLast'
  BY <1>12, <1>0 DEF Unwind
<1>13. ASSUME NEW c \in Calls, NEW i \in Ids, NEW k \in Kinds, Arrive(c, i, k) PROVE RefusalsLast'
  <2>1. CASE ledger[i] # NoLine
    BY <1>13, <1>0, <2>1 DEF Arrive, Admission, Refusal, Answer, Request
  <2>2. CASE ledger[i] = NoLine /\ (Ended \/ Full)
    BY <1>13, <1>0, <2>2 DEF Arrive, Admission, Refusal, Answer, Request, Full
  <2>3. CASE ledger[i] = NoLine /\ ~(Ended \/ Full)
    BY <1>13, <2>3 DEF Arrive, Admission, Admit, Request, Full
  <2> QED
    BY <2>1, <2>2, <2>3
<1>14. CASE CancelClients
  <2>1. Ended => Ended'
    BY <1>14 DEF CancelClients, Ended
  <2> QED
    BY <1>14, <1>0, <2>1 DEF CancelClients, Busy
<1>15. CASE RunStep /\ ~CancelClients /\ UNCHANGED QuietVars /\ (stopped => stopped') /\ (Ended => Ended')
  BY <1>15, <1>0 DEF QuietVars
<1>16. CASE UNCHANGED serverVars
  BY <1>16, <1>0 DEF serverVars
<1> QED
  BY <1>1, <1>2, <1>3, <1>4, <1>5, <1>6, <1>7, <1>8, <1>9, <1>10, <1>11, <1>12, <1>13, <1>14, <1>15, <1>16, QuietStep
     DEF NextServer, ServerStep, CallStep, TaskStep

\* Results are not taken back.
LEMMA ConfirmationsKept ==
  ASSUME DispatcherInv, [NextServer]_serverVars PROVE ConfirmationsKnown'
<1> USE DispatcherAssumption DEF DispatcherInv, ServerTypeOK, LinesInOrder, IdsOwned, TasksKnown, ConfirmationsKnown
<1>1. ASSUME NEW c \in Calls, DuplicateAnswered(c) PROVE ConfirmationsKnown'
  BY <1>1 DEF DuplicateAnswered, Answer
<1>2. ASSUME NEW c \in Calls, DuplicateTimeout(c) PROVE ConfirmationsKnown'
  BY <1>2 DEF DuplicateTimeout, Answer
<1>3. ASSUME NEW c \in Calls, Acquire(c) PROVE ConfirmationsKnown'
  BY <1>3 DEF Acquire, Answer
<1>4. ASSUME NEW c \in Calls, QueueTimeout(c) PROVE ConfirmationsKnown'
  BY <1>4 DEF QueueTimeout, Answer
<1>5. ASSUME NEW c \in Calls, Complete(c) PROVE ConfirmationsKnown'
  BY <1>5 DEF Complete, Answer, ReplyOf
<1>6. ASSUME NEW c \in Calls, Timeout(c) PROVE ConfirmationsKnown'
  BY <1>6 DEF Timeout, Answer, Cancel
<1>7. ASSUME NEW c \in Calls, Handle(c) PROVE ConfirmationsKnown'
  BY <1>7 DEF Handle, EndTask
<1>8. ASSUME NEW c \in Calls, Feedback(c) PROVE ConfirmationsKnown'
  BY <1>8 DEF Feedback, InService
<1>9. ASSUME NEW c \in Calls, InputCompletes(c) PROVE ConfirmationsKnown'
  BY <1>9 DEF InputCompletes
<1>10. ASSUME NEW c \in Calls, ServiceReturns(c) PROVE ConfirmationsKnown'
  BY <1>10 DEF ServiceReturns, EndTask
<1>11. ASSUME NEW c \in Calls, ServiceInterrupted(c) PROVE ConfirmationsKnown'
  BY <1>11 DEF ServiceInterrupted, EndTask
<1>12. ASSUME NEW c \in Calls, Unwind(c) PROVE ConfirmationsKnown'
  BY <1>12 DEF Unwind
<1>13. ASSUME NEW c \in Calls, NEW i \in Ids, NEW k \in Kinds, Arrive(c, i, k) PROVE ConfirmationsKnown'
  BY <1>13 DEF Arrive, Admission, Refusal, Admit, Answer, Request
<1>14. CASE CancelClients
  BY <1>14 DEF CancelClients, Busy
<1>15. CASE RunStep /\ ~CancelClients /\ UNCHANGED QuietVars /\ (stopped => stopped') /\ (Ended => Ended')
  BY <1>15 DEF QuietVars
<1>16. CASE UNCHANGED serverVars
  BY <1>16 DEF serverVars
<1> QED
  BY <1>1, <1>2, <1>3, <1>4, <1>5, <1>6, <1>7, <1>8, <1>9, <1>10, <1>11, <1>12, <1>13, <1>14, <1>15, <1>16, QuietStep
     DEF NextServer, ServerStep, CallStep, TaskStep

\* Doubt is about who held the lock, and nobody takes it afterwards.
LEMMA DoubtKept ==
  ASSUME DispatcherInv, [NextServer]_serverVars PROVE DoubtStops'
<1> USE DispatcherAssumption DEF DispatcherInv, ServerTypeOK, LinesInOrder, IdsOwned, TasksKnown, DoubtStops, Unconfirmed, Ended
<1>1. ASSUME NEW c \in Calls, DuplicateAnswered(c) PROVE DoubtStops'
  BY <1>1 DEF DuplicateAnswered, Answer
<1>2. ASSUME NEW c \in Calls, DuplicateTimeout(c) PROVE DoubtStops'
  BY <1>2 DEF DuplicateTimeout, Answer
<1>3. ASSUME NEW c \in Calls, Acquire(c) PROVE DoubtStops'
  BY <1>3 DEF Acquire, Answer
<1>4. ASSUME NEW c \in Calls, QueueTimeout(c) PROVE DoubtStops'
  BY <1>4 DEF QueueTimeout, Answer
<1>5. ASSUME NEW c \in Calls, Complete(c) PROVE DoubtStops'
  <2>1. at[c] = "running" /\ lock = c /\ \A d \in Calls \ {c} : op[d] \in {"none", "over"}
    BY <1>5 DEF Complete
  <2>2. ReplyOf(c) = "unknown" => stopped'
    BY <1>5, <2>1 DEF Complete, ReplyOf
  <2> QED
    BY <1>5, <2>1, <2>2 DEF Complete, Answer
<1>6. ASSUME NEW c \in Calls, Timeout(c) PROVE DoubtStops'
  BY <1>6 DEF Timeout, Answer, Cancel
<1>7. ASSUME NEW c \in Calls, Handle(c) PROVE DoubtStops'
  BY <1>7 DEF Handle, EndTask
<1>8. ASSUME NEW c \in Calls, Feedback(c) PROVE DoubtStops'
  BY <1>8 DEF Feedback, InService
<1>9. ASSUME NEW c \in Calls, InputCompletes(c) PROVE DoubtStops'
  BY <1>9 DEF InputCompletes
<1>10. ASSUME NEW c \in Calls, ServiceReturns(c) PROVE DoubtStops'
  BY <1>10 DEF ServiceReturns, EndTask
<1>11. ASSUME NEW c \in Calls, ServiceInterrupted(c) PROVE DoubtStops'
  BY <1>11 DEF ServiceInterrupted, EndTask
<1>12. ASSUME NEW c \in Calls, Unwind(c) PROVE DoubtStops'
  BY <1>12 DEF Unwind
<1>13. ASSUME NEW c \in Calls, NEW i \in Ids, NEW k \in Kinds, Arrive(c, i, k) PROVE DoubtStops'
  BY <1>13 DEF Arrive, Admission, Refusal, Admit, Answer, Request
<1>14. CASE CancelClients
  <2>1. CASE \E r \in Calls : at[r] = "running"
    <3>1. PICK r \in Calls : at[r] = "running"
      BY <2>1
    <3>2. lock = r /\ \A d \in Calls \ {r} : at[d] # "running" /\ op[d] \in {"none", "over"}
      BY <3>1
    <3>3. stopped' /\ lock' = NoLine /\ UNCHANGED <<req, ledger>>
      BY <1>14, <3>1 DEF CancelClients, Busy
    <3>4. \A d \in Calls \ {r} : op'[d] = op[d] /\ (reply'[d] = "unknown" => reply[d] = "unknown")
      BY <1>14, <3>2 DEF CancelClients, Busy
    <3>5. reply'[r] = "unknown" /\ op'[r] \in {"unwinding", "over"}
      BY <1>14, <3>1 DEF CancelClients, Busy
    <3>6. \A d \in Calls : ~Unconfirmed(d)
      BY <3>1
    <3> QED
      BY <3>1, <3>2, <3>3, <3>4, <3>5, <3>6
  <2>2. CASE \A r \in Calls : at[r] # "running"
    <3>1. UNCHANGED op /\ (stopped => stopped') /\ lock' = NoLine /\ UNCHANGED <<req, ledger>>
      BY <1>14, <2>2 DEF CancelClients, Busy
    <3>2. \A d \in Calls : reply'[d] = "unknown" <=> reply[d] = "unknown"
      BY <1>14, <2>2 DEF CancelClients, Busy
    <3> QED
      BY <3>1, <3>2
  <2> QED
    BY <2>1, <2>2
<1>15. CASE RunStep /\ ~CancelClients /\ UNCHANGED QuietVars /\ (stopped => stopped') /\ (Ended => Ended')
  BY <1>15 DEF QuietVars
<1>16. CASE UNCHANGED serverVars
  BY <1>16 DEF serverVars
<1> QED
  BY <1>1, <1>2, <1>3, <1>4, <1>5, <1>6, <1>7, <1>8, <1>9, <1>10, <1>11, <1>12, <1>13, <1>14, <1>15, <1>16, QuietStep
     DEF NextServer, ServerStep, CallStep, TaskStep

-------------------------------------------------------------------------------
\* Before the first line nothing is promised.
LEMMA DispatcherInitially == ASSUME ServerInit PROVE DispatcherInv
<1> USE DispatcherAssumption DEF ServerInit
<1>1. ServerTypeOK
  <2>1. req \in [Calls -> [id : Ids \cup {NoLine}, kind : Kinds]]
    BY DEF NoRequest, Request, Kinds
  <2>2. /\ at \in [Calls -> Places] /\ reply \in [Calls -> Replies]
        /\ ledger \in [Ids -> Calls \cup {NoLine}]
        /\ input \in [Calls -> {"none", "begun", "complete"}]
    BY DEF Places, Replies
  <2>3. /\ op \in [Calls -> {"none", "created", "executing", "unwinding", "over"}]
        /\ out \in [Calls -> {"none", "ok", "invalid", "fault"}]
    OBVIOUS
  <2> QED
    BY <2>1, <2>2, <2>3 DEF ServerTypeOK
<1>2. LinesInOrder /\ IdsOwned
  BY DEF LinesInOrder, IdsOwned, NoRequest, Request
<1>3. TasksKnown
  BY DEF TasksKnown
<1>4. RefusalsLast /\ ConfirmationsKnown /\ DoubtStops
  BY DEF RefusalsLast, ConfirmationsKnown, DoubtStops, Unconfirmed
<1> QED
  BY <1>1, <1>2, <1>3, <1>4 DEF DispatcherInv

\* Part by part, every step keeps the invariant.
LEMMA DispatcherInductive == ASSUME DispatcherInv, [NextServer]_serverVars PROVE DispatcherInv'
  BY TypesKept, LinesKept, IdsKept, TasksKept, RefusalsKept, ConfirmationsKept, DoubtKept
  DEF DispatcherInv

\* The dispatcher never leaves the invariant, whatever clients, service and
\* transport do (_CommandDispatcher, _run).
THEOREM DispatcherInvariant == SpecServer => []DispatcherInv
  BY DispatcherInitially, DispatcherInductive, PTL DEF SpecServer

\* What the invariant says of the answers.
LEMMA AnswersFollow == ASSUME DispatcherInv PROVE AnswersAreTrue
<1> USE DispatcherAssumption DEF DispatcherInv, ServerTypeOK, LinesInOrder, IdsOwned, TasksKnown, Sent, SameId
<1>1. AtMostOnce
  BY DEF AtMostOnce
<1>2. NotSentFinal
  BY DEF NotSentFinal, RefusalsLast
<1>3. OkMeansExecuted
  BY DEF OkMeansExecuted, ConfirmationsKnown
<1> QED
  BY <1>1, <1>2, <1>3 DEF AnswersAreTrue

\* For any number of lines, ids and connections and any limit of the ledger: an id
\* is executed at most once, "not_sent" is final and "ok" is true
\* (_CommandDispatcher.dispatch).
THEOREM AnswersAlwaysTrue == SpecServer => []AnswersAreTrue
  BY DispatcherInvariant, AnswersFollow, PTL

\* What NoInputAfterUnknown says of a step.
SilentBehind == \A c, d \in Calls : Unconfirmed(c) /\ c # d /\ ~Sent(d) => ~Sent(d)'

\* Only a task in the service sends a button, and none is left beside a doubt.
LEMMA SilentStep == ASSUME DispatcherInv, [NextServer]_serverVars PROVE SilentBehind
<1>1. CASE \E e \in Calls : Feedback(e) \/ InputCompletes(e)
  <2>1. PICK e \in Calls : Feedback(e) \/ InputCompletes(e)
    BY <1>1
  <2>2. op[e] \in {"executing", "unwinding"} /\ \A d \in Calls \ {e} : input'[d] = input[d]
    BY <2>1 DEF Feedback, InputCompletes, InService, DispatcherInv, ServerTypeOK
  <2>3. \A c \in Calls : Unconfirmed(c) => c = e
    BY <2>2 DEF DispatcherInv, DoubtStops
  <2> QED
    BY <2>2, <2>3 DEF SilentBehind, Sent
<1>2. CASE UNCHANGED input
  BY <1>2 DEF SilentBehind, Sent
<1> QED
  BY <1>1, <1>2 DEF NextServer, ServerStep, CallStep, TaskStep, DuplicateAnswered, DuplicateTimeout,
     Acquire, QueueTimeout, Complete, Timeout, Handle, ServiceReturns, ServiceInterrupted, Unwind, RunStep,
     TransportFails, ClientConnects, ClientLeaves, ReaderInterrupted, ClientIdle, ServerCloses,
     ServerClosed, CancelClients, Close, Arrive, serverVars

\* Once the outcome of a command is unknown, no other input begins, for any number
\* of commands queued behind it (_CommandDispatcher._execute, stopped).
THEOREM SilentAfterUnknown == SpecServer => NoInputAfterUnknown
<1>1. ASSUME DispatcherInv, [NextServer]_serverVars PROVE [SilentBehind]_serverVars
  BY <1>1, SilentStep
<1> QED
  BY <1>1, DispatcherInvariant, PTL DEF SpecServer, NoInputAfterUnknown, SilentBehind

================================================================================
