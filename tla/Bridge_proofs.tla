----------------------------- MODULE Bridge_proofs -----------------------------
(***************************************************************************)
(* Proofs about Bridge: clients, socket and dispatcher together keep what  *)
(* the callers of controller.call rely on, for any number of calls and     *)
(* clients.  As every call has an id of its own here, the invariant of the *)
(* dispatcher is simpler than that of BridgeDispatcher_proofs.             *)
(***************************************************************************)
EXTENDS Bridge, TLAPS

\* What the calls of the clients know of their lines.
ClientSide ==
  /\ place \in [Calls -> C!Places]
  /\ result \in [Calls -> C!Answers \cup {"none", "raised"}]
  /\ line \in [Calls -> {"none", "part", "whole"}]
  /\ answer \in [Calls -> C!Answers \cup {"none"}]
  /\ \A c \in Calls :
       /\ place[c] # "returned" => result[c] = "none"
       /\ place[c] \in {"idle", "waiting", "locked", "connecting", "connected"} => line[c] = "none"
       /\ result[c] = "not_sent" => line[c] = "none" \/ answer[c] = "not_sent"
       /\ result[c] \in {"ok", "error"} => answer[c] = result[c]

\* The dispatcher has what was sent whole, once, with the content of the call, and
\* what it answers is what the client can read.
Joined ==
  \A c \in Calls :
    /\ at[c] # "none" => line[c] = "whole" /\ req[c].id = c
    /\ at[c] # "none" => (req[c].kind \in {"tap", "bad"} <=> c \in Taps)
    /\ answer[c] # "none" => answer[c] = reply[c]

ServerTypes ==
  /\ at \in [Calls -> D!Places]
  /\ req \in [Calls -> [id : Calls \cup {None}, kind : D!Kinds]]
  /\ ledger \in [Calls -> Calls \cup {None}]
  /\ reply \in [Calls -> D!Replies]
  /\ lock \in Calls \cup {None}
  /\ op \in [Calls -> {"none", "created", "executing", "unwinding", "over"}]
  /\ out \in [Calls -> {"none", "ok", "invalid", "fault"}]
  /\ input \in [Calls -> {"none", "begun", "complete"}]

\* The dispatcher repeats no line, runs one task at a time and answers by what
\* became of it.
ServerSide ==
  \A c \in Calls :
    /\ at[c] # "dup" /\ (ledger[c] # None => at[c] # "none")
    /\ at[c] = "none" => reply[c] = "none" /\ op[c] = "none"
    /\ reply[c] # "none" => at[c] = "done"
    /\ at[c] = "queued" => op[c] = "none"
    /\ at[c] = "running" <=> lock = c
    /\ at[c] = "running" => op[c] \in {"created", "executing", "over"}
    /\ at[c] = "running" /\ op[c] = "over" => out[c] # "none"
    /\ op[c] \in {"created", "executing"} => at[c] = "running"
    /\ op[c] # "over" => out[c] = "none"
    /\ op[c] = "none" => input[c] = "none"
    /\ input[c] = "complete" => req[c].kind = "tap"
    /\ op[c] \in {"executing", "unwinding"} => req[c].kind \in {"tap", "bad"}
    /\ out[c] = "ok" => req[c].kind # "bad" /\ (req[c].kind = "tap" => input[c] = "complete")
    /\ reply[c] = "ok" => out[c] = "ok"
    /\ reply[c] = "not_sent" => op[c] = "none"

\* A doubtful outcome has stopped the session, and no other task is alive.
DoubtStops ==
  \A c \in Calls :
    /\ reply[c] = "unknown" => stopped /\ lock = None /\ \A d \in Calls \ {c} : op[d] \in {"none", "over"}
    /\ op[c] = "unwinding" => reply[c] = "unknown"

BridgeInv == ClientSide /\ ServerTypes /\ Joined /\ ServerSide /\ DoubtStops

-------------------------------------------------------------------------------
(* Steps of the clients *)

\* A call goes its way, sends its line in order and reports it as it is.
LEMMA ClientKept ==
  ASSUME BridgeInv, ClientStep
  PROVE  ClientSide' /\ UNCHANGED answer /\ (\A c \in Calls : line[c] = "whole" => line'[c] = "whole")
<1> DEFINE Goal == ClientSide' /\ UNCHANGED answer /\ (\A c \in Calls : line[c] = "whole" => line'[c] = "whole")
<1> USE BridgeAssumption DEF BridgeInv, ClientSide, C!Places, C!Answers
<1>1. ASSUME NEW c \in Calls, C!Submit(c) PROVE Goal
  BY <1>1 DEF C!Submit, C!MoveTo, C!Return
<1>2. ASSUME NEW c \in Calls, C!TakeLock(c) PROVE Goal
  BY <1>2 DEF C!TakeLock, C!MoveTo
<1>3. ASSUME NEW c \in Calls, C!ClientBusy(c) PROVE Goal
  BY <1>3 DEF C!ClientBusy, C!MoveTo, C!Return
<1>4. ASSUME NEW c \in Calls, C!Check(c) PROVE Goal
  BY <1>4 DEF C!Check, C!MoveTo, C!Return, C!Release
<1>5. ASSUME NEW c \in Calls, C!Connect(c) PROVE Goal
  BY <1>5 DEF C!Connect, C!MoveTo
<1>6. ASSUME NEW c \in Calls, C!ConnectFails(c) PROVE Goal
  BY <1>6 DEF C!ConnectFails, C!MoveTo, C!Return, C!Release
<1>7. ASSUME NEW c \in Calls, C!CheckAgain(c) PROVE Goal
  BY <1>7 DEF C!CheckAgain, C!MoveTo, C!Return, C!Release, C!Disconnect
<1>8. ASSUME NEW c \in Calls, C!SendPart(c) PROVE Goal
  BY <1>8 DEF C!SendPart
<1>9. ASSUME NEW c \in Calls, C!SendRest(c) PROVE Goal
  BY <1>9 DEF C!SendRest, C!MoveTo
<1>10. ASSUME NEW c \in Calls, C!SendFails(c) PROVE Goal
  BY <1>10 DEF C!SendFails, C!MoveTo, C!Return, C!Release
<1>11. ASSUME NEW c \in Calls, C!Read(c) PROVE Goal
  BY <1>11 DEF C!Read, C!MoveTo, C!Return, C!Release, C!Disconnect
<1>12. ASSUME NEW c \in Calls, C!ReadFails(c) PROVE Goal
  BY <1>12 DEF C!ReadFails, C!MoveTo, C!Return, C!Release
<1>13. ASSUME NEW c \in Calls, C!Raises(c) PROVE Goal
  BY <1>13 DEF C!Raises, C!MoveTo, C!Return, C!Release
<1>14. ASSUME NEW o \in Clients, C!CloseFlag(o) \/ C!CloseSocket(o) PROVE Goal
  BY <1>14 DEF C!CloseFlag, C!CloseSocket
<1> QED
  BY <1>1, <1>2, <1>3, <1>4, <1>5, <1>6, <1>7, <1>8, <1>9, <1>10, <1>11, <1>12, <1>13, <1>14 DEF ClientStep, C!CallStep

\* What is joined stays so: a line that was sent whole stays sent.
LEMMA ClientStepKept == ASSUME BridgeInv, ClientStep PROVE BridgeInv'
<1>1. UNCHANGED <<at, req, ledger, reply, lock, op, out, input, stopped>>
  BY DEF ClientStep, serverVars
<1>2. ServerTypes' /\ ServerSide' /\ DoubtStops'
  BY <1>1 DEF BridgeInv, ServerTypes, ServerSide, DoubtStops
<1>3. Joined'
  BY <1>1, ClientKept DEF BridgeInv, Joined
<1> QED
  BY <1>2, <1>3, ClientKept DEF BridgeInv

-------------------------------------------------------------------------------
(* The socket *)

\* A line is read once, and every line has an id of its own.
LEMMA ReceiveKept == ASSUME BridgeInv, NEW c \in Calls, Receive(c) PROVE BridgeInv'
<1> USE BridgeAssumption
<1>1. PICK k \in D!Kinds : D!Arrive(c, c, k) /\ (k \in {"tap", "bad"} <=> c \in Taps)
  BY DEF Receive, D!Kinds
<1>2. /\ line[c] = "whole" /\ at[c] = "none" /\ ledger[c] = None
      /\ UNCHANGED <<place, result, line, answer, lock, op, out, input, stopped>>
  BY <1>1 DEF Receive, clientVars, D!Arrive, BridgeInv, ServerSide, ServerTypes
<1>3. req' = [req EXCEPT ![c] = [id |-> c, kind |-> k]]
  BY <1>1 DEF D!Arrive, D!Request
<1>4. \/ /\ at' = [at EXCEPT ![c] = "done"] /\ reply' = [reply EXCEPT ![c] = "not_sent"] /\ ledger' = ledger
      \/ at' = [at EXCEPT ![c] = "queued"] /\ reply' = reply /\ ledger' = [ledger EXCEPT ![c] = c]
  BY <1>1, <1>2 DEF D!Arrive, D!Admission, D!Refusal, D!Admit, D!Answer
<1>5. ClientSide'
  BY <1>2 DEF BridgeInv, ClientSide
<1>6. ServerTypes'
  <2>1. req' \in [Calls -> [id : Calls \cup {None}, kind : D!Kinds]]
    BY <1>3 DEF BridgeInv, ServerTypes
  <2>2. /\ at' \in [Calls -> D!Places] /\ reply' \in [Calls -> D!Replies]
        /\ ledger' \in [Calls -> Calls \cup {None}]
    BY <1>4 DEF BridgeInv, ServerTypes, D!Places, D!Replies
  <2> QED
    BY <1>2, <2>1, <2>2 DEF BridgeInv, ServerTypes
<1>7. Joined'
  BY <1>1, <1>2, <1>3, <1>4 DEF BridgeInv, Joined, ServerSide, ServerTypes, ClientSide
<1>8. ServerSide'
  BY <1>2, <1>3, <1>4 DEF BridgeInv, ServerSide, ServerTypes
<1>9. DoubtStops'
  <2>1. \A d \in Calls : reply'[d] = "unknown" <=> reply[d] = "unknown"
    BY <1>2, <1>4 DEF BridgeInv, ServerSide, ServerTypes
  <2> QED
    BY <1>2, <2>1 DEF BridgeInv, DoubtStops
<1> QED
  BY <1>5, <1>6, <1>7, <1>8, <1>9 DEF BridgeInv

\* The client reads what the dispatcher answered.
LEMMA RespondKept == ASSUME BridgeInv, NEW c \in Calls, Respond(c) PROVE BridgeInv'
<1>1. /\ reply[c] # "none" /\ answer[c] = "none" /\ answer' = [answer EXCEPT ![c] = reply[c]]
      /\ UNCHANGED <<place, result, line, at, req, ledger, reply, lock, op, out, input, stopped>>
  BY DEF Respond, serverVars
<1>2. reply[c] \in C!Answers
  BY <1>1 DEF BridgeInv, ServerTypes, D!Replies, C!Answers
<1>3. ClientSide' /\ Joined'
  BY <1>1, <1>2 DEF BridgeInv, ClientSide, Joined
<1> QED
  BY <1>1, <1>3 DEF BridgeInv, ServerTypes, ServerSide, DoubtStops

-------------------------------------------------------------------------------
(* Steps of the dispatcher *)

\* Besides the end of the clients, _run touches no line, no task and no answer.
TaskVars == <<at, req, ledger, reply, lock, op, out, input>>

LEMMA QuietStep ==
  ASSUME D!RunStep PROVE D!CancelClients \/ (UNCHANGED TaskVars /\ (stopped => stopped'))
  BY DEF D!RunStep, TaskVars, D!TransportFails, D!ClientConnects, D!ClientLeaves, D!ReaderInterrupted,
     D!ClientIdle, D!ServerCloses, D!ServerClosed, D!Close

\* Only lines whose repetition was read can be repetitions.
LEMMA NoRepetition == ASSUME BridgeInv, NEW c \in Calls PROVE ~D!DuplicateAnswered(c) /\ ~D!DuplicateTimeout(c)
  BY DEF BridgeInv, ServerSide, D!DuplicateAnswered, D!DuplicateTimeout

\* Every step of the dispatcher keeps the types.
LEMMA TypesKept ==
  ASSUME BridgeInv, D!ServerStep PROVE ServerTypes'
<1> USE BridgeAssumption DEF BridgeInv, ServerTypes, ServerSide, D!Places, D!Replies
<1>1. ASSUME NEW c \in Calls, D!Acquire(c) PROVE ServerTypes'
  <2>1. CASE D!Ended
    <3>1. at' \in [Calls -> D!Places] /\ reply' \in [Calls -> D!Replies]
      BY <1>1, <2>1 DEF D!Acquire, D!Answer
    <3> QED
      BY <1>1, <2>1, <3>1 DEF D!Acquire
  <2>2. CASE ~D!Ended
    <3>1. at' \in [Calls -> D!Places]
      BY <1>1, <2>2 DEF D!Acquire
    <3>2. op' \in [Calls -> {"none", "created", "executing", "unwinding", "over"}] /\ lock' = c
      BY <1>1, <2>2 DEF D!Acquire
    <3> QED
      BY <1>1, <2>2, <3>1, <3>2 DEF D!Acquire
  <2> QED
    BY <2>1, <2>2
<1>2. ASSUME NEW c \in Calls, D!QueueTimeout(c) PROVE ServerTypes'
  BY <1>2 DEF D!QueueTimeout, D!Answer
<1>3. ASSUME NEW c \in Calls, D!Complete(c) PROVE ServerTypes'
  BY <1>3 DEF D!Complete, D!Answer, D!ReplyOf
<1>4. ASSUME NEW c \in Calls, D!Timeout(c) PROVE ServerTypes'
  BY <1>4 DEF D!Timeout, D!Answer, D!Cancel
<1>5. ASSUME NEW c \in Calls, D!Handle(c) PROVE ServerTypes'
  <2>1. op' \in [Calls -> {"none", "created", "executing", "unwinding", "over"}]
    BY <1>5 DEF D!Handle, D!EndTask
  <2>2. out' \in [Calls -> {"none", "ok", "invalid", "fault"}]
    BY <1>5 DEF D!Handle, D!EndTask
  <2> QED
    BY <1>5, <2>1, <2>2 DEF D!Handle
<1>6. ASSUME NEW c \in Calls, D!Feedback(c) PROVE ServerTypes'
  BY <1>6 DEF D!Feedback, D!InService
<1>7. ASSUME NEW c \in Calls, D!InputCompletes(c) PROVE ServerTypes'
  BY <1>7 DEF D!InputCompletes
<1>8. ASSUME NEW c \in Calls, D!ServiceReturns(c) PROVE ServerTypes'
  <2>1. out' \in [Calls -> {"none", "ok", "invalid", "fault"}]
    BY <1>8 DEF D!ServiceReturns, D!EndTask
  <2>2. op' \in [Calls -> {"none", "created", "executing", "unwinding", "over"}]
    BY <1>8 DEF D!ServiceReturns, D!EndTask
  <2> QED
    BY <1>8, <2>1, <2>2 DEF D!ServiceReturns
<1>9. ASSUME NEW c \in Calls, D!ServiceInterrupted(c) PROVE ServerTypes'
  BY <1>9 DEF D!ServiceInterrupted, D!EndTask
<1>10. ASSUME NEW c \in Calls, D!Unwind(c) PROVE ServerTypes'
  BY <1>10 DEF D!Unwind
<1>11. CASE D!CancelClients
  BY <1>11 DEF D!CancelClients, D!Busy
<1>12. CASE UNCHANGED TaskVars /\ (stopped => stopped')
  BY <1>12 DEF TaskVars
<1> QED
  BY <1>1, <1>2, <1>3, <1>4, <1>5, <1>6, <1>7, <1>8, <1>9, <1>10, <1>11, <1>12, QuietStep, NoRepetition
     DEF D!ServerStep, D!CallStep, D!TaskStep

\* Answers are given once, to lines that were read.
LEMMA AnswersKept ==
  ASSUME BridgeInv, D!ServerStep
  PROVE  /\ UNCHANGED req
         /\ \A d \in Calls : (at[d] = "none" <=> at'[d] = "none") /\ (reply[d] # "none" => reply'[d] = reply[d])
<1> DEFINE Goal ==
      /\ UNCHANGED req
      /\ \A d \in Calls : (at[d] = "none" <=> at'[d] = "none") /\ (reply[d] # "none" => reply'[d] = reply[d])
<1> USE DEF BridgeInv, ServerTypes, ServerSide
<1>1. ASSUME NEW c \in Calls, D!Acquire(c) PROVE Goal
  BY <1>1 DEF D!Acquire, D!Answer
<1>2. ASSUME NEW c \in Calls, D!QueueTimeout(c) PROVE Goal
  BY <1>2 DEF D!QueueTimeout, D!Answer
<1>3. ASSUME NEW c \in Calls, D!Complete(c) PROVE Goal
  BY <1>3 DEF D!Complete, D!Answer
<1>4. ASSUME NEW c \in Calls, D!Timeout(c) PROVE Goal
  BY <1>4 DEF D!Timeout, D!Answer
<1>5. ASSUME NEW c \in Calls, D!Handle(c) PROVE Goal
  BY <1>5 DEF D!Handle
<1>6. ASSUME NEW c \in Calls, D!Feedback(c) PROVE Goal
  BY <1>6 DEF D!Feedback
<1>7. ASSUME NEW c \in Calls, D!InputCompletes(c) PROVE Goal
  BY <1>7 DEF D!InputCompletes
<1>8. ASSUME NEW c \in Calls, D!ServiceReturns(c) PROVE Goal
  BY <1>8 DEF D!ServiceReturns
<1>9. ASSUME NEW c \in Calls, D!ServiceInterrupted(c) PROVE Goal
  BY <1>9 DEF D!ServiceInterrupted
<1>10. ASSUME NEW c \in Calls, D!Unwind(c) PROVE Goal
  BY <1>10 DEF D!Unwind
<1>11. CASE D!CancelClients
  BY <1>11 DEF D!CancelClients, D!Busy
<1>12. CASE UNCHANGED TaskVars /\ (stopped => stopped')
  BY <1>12 DEF TaskVars
<1> QED
  BY <1>1, <1>2, <1>3, <1>4, <1>5, <1>6, <1>7, <1>8, <1>9, <1>10, <1>11, <1>12, QuietStep, NoRepetition
     DEF D!ServerStep, D!CallStep, D!TaskStep

\* So they stay what the clients read.
LEMMA JoinedKept == ASSUME BridgeInv, ServerStep PROVE ClientSide' /\ Joined'
<1>1. UNCHANGED <<place, result, line, answer>> /\ D!ServerStep
  BY DEF ServerStep, clientVars
<1>2. ClientSide'
  BY <1>1 DEF BridgeInv, ClientSide
<1>3. ASSUME NEW c \in Calls
      PROVE  /\ at'[c] # "none" => line'[c] = "whole" /\ req'[c].id = c
             /\ at'[c] # "none" => (req'[c].kind \in {"tap", "bad"} <=> c \in Taps)
             /\ answer'[c] # "none" => answer'[c] = reply'[c]
  <2>1. /\ req' = req /\ (at[c] = "none" <=> at'[c] = "none")
        /\ reply[c] # "none" => reply'[c] = reply[c]
    BY <1>1, AnswersKept
  <2> QED
    BY <1>1, <2>1 DEF BridgeInv, Joined
<1> QED
  BY <1>2, <1>3 DEF Joined

\* The lock is handed from task to task, a task ends once, and is answered for.
LEMMA TasksKept ==
  ASSUME BridgeInv, D!ServerStep PROVE ServerSide'
<1> USE BridgeAssumption DEF BridgeInv, ServerTypes, ServerSide, D!Places
<1>1. ASSUME NEW c \in Calls, D!Acquire(c) PROVE ServerSide'
  BY <1>1 DEF D!Acquire, D!Answer
<1>2. ASSUME NEW c \in Calls, D!QueueTimeout(c) PROVE ServerSide'
  BY <1>2 DEF D!QueueTimeout, D!Answer
<1>3. ASSUME NEW c \in Calls, D!Complete(c) PROVE ServerSide'
  BY <1>3 DEF D!Complete, D!Answer, D!ReplyOf
<1>4. ASSUME NEW c \in Calls, D!Timeout(c) PROVE ServerSide'
  BY <1>4 DEF D!Timeout, D!Answer, D!Cancel
<1>5. ASSUME NEW c \in Calls, D!Handle(c) PROVE ServerSide'
  BY <1>5 DEF D!Handle, D!EndTask
<1>6. ASSUME NEW c \in Calls, D!Feedback(c) PROVE ServerSide'
  BY <1>6 DEF D!Feedback, D!InService
<1>7. ASSUME NEW c \in Calls, D!InputCompletes(c) PROVE ServerSide'
  BY <1>7 DEF D!InputCompletes
<1>8. ASSUME NEW c \in Calls, D!ServiceReturns(c) PROVE ServerSide'
  <2>1. at[c] = "running" /\ lock = c
    BY <1>8 DEF D!ServiceReturns
  <2> QED
    BY <1>8, <2>1 DEF D!ServiceReturns, D!EndTask
<1>9. ASSUME NEW c \in Calls, D!ServiceInterrupted(c) PROVE ServerSide'
  BY <1>9 DEF D!ServiceInterrupted, D!EndTask
<1>10. ASSUME NEW c \in Calls, D!Unwind(c) PROVE ServerSide'
  BY <1>10 DEF D!Unwind
<1>11. CASE D!CancelClients
  BY <1>11 DEF D!CancelClients, D!Busy
<1>12. CASE UNCHANGED TaskVars /\ (stopped => stopped')
  BY <1>12 DEF TaskVars
<1> QED
  BY <1>1, <1>2, <1>3, <1>4, <1>5, <1>6, <1>7, <1>8, <1>9, <1>10, <1>11, <1>12, QuietStep, NoRepetition
     DEF D!ServerStep, D!CallStep, D!TaskStep

\* Doubt is about who held the lock, and nobody takes it afterwards.
LEMMA DoubtKept ==
  ASSUME BridgeInv, D!ServerStep PROVE DoubtStops'
<1> USE BridgeAssumption DEF BridgeInv, ServerTypes, ServerSide, DoubtStops, D!Ended
<1>1. ASSUME NEW c \in Calls, D!Acquire(c) PROVE DoubtStops'
  BY <1>1 DEF D!Acquire, D!Answer
<1>2. ASSUME NEW c \in Calls, D!QueueTimeout(c) PROVE DoubtStops'
  BY <1>2 DEF D!QueueTimeout, D!Answer
<1>3. ASSUME NEW c \in Calls, D!Complete(c) PROVE DoubtStops'
  <2>1. at[c] = "running" /\ lock = c /\ \A d \in Calls \ {c} : op[d] \in {"none", "over"}
    BY <1>3 DEF D!Complete
  <2>2. D!ReplyOf(c) = "unknown" => stopped'
    BY <1>3, <2>1 DEF D!Complete, D!ReplyOf
  <2> QED
    BY <1>3, <2>1, <2>2 DEF D!Complete, D!Answer
<1>4. ASSUME NEW c \in Calls, D!Timeout(c) PROVE DoubtStops'
  BY <1>4 DEF D!Timeout, D!Answer, D!Cancel
<1>5. ASSUME NEW c \in Calls, D!Handle(c) PROVE DoubtStops'
  BY <1>5 DEF D!Handle, D!EndTask
<1>6. ASSUME NEW c \in Calls, D!Feedback(c) PROVE DoubtStops'
  BY <1>6 DEF D!Feedback, D!InService
<1>7. ASSUME NEW c \in Calls, D!InputCompletes(c) PROVE DoubtStops'
  BY <1>7 DEF D!InputCompletes
<1>8. ASSUME NEW c \in Calls, D!ServiceReturns(c) PROVE DoubtStops'
  BY <1>8 DEF D!ServiceReturns, D!EndTask
<1>9. ASSUME NEW c \in Calls, D!ServiceInterrupted(c) PROVE DoubtStops'
  BY <1>9 DEF D!ServiceInterrupted, D!EndTask
<1>10. ASSUME NEW c \in Calls, D!Unwind(c) PROVE DoubtStops'
  BY <1>10 DEF D!Unwind
<1>11. CASE D!CancelClients
  <2>1. CASE \E r \in Calls : at[r] = "running"
    <3>1. PICK r \in Calls : at[r] = "running"
      BY <2>1
    <3>2. lock = r /\ \A d \in Calls \ {r} : at[d] # "running" /\ op[d] \in {"none", "over"}
      BY <3>1
    <3>3. stopped' /\ lock' = None /\ UNCHANGED <<req, ledger>>
      BY <1>11, <3>1 DEF D!CancelClients, D!Busy
    <3>4. \A d \in Calls \ {r} : op'[d] = op[d] /\ (reply'[d] = "unknown" => reply[d] = "unknown")
      BY <1>11, <3>2 DEF D!CancelClients, D!Busy
    <3>5. reply'[r] = "unknown" /\ op'[r] \in {"unwinding", "over"}
      BY <1>11, <3>1 DEF D!CancelClients, D!Busy
    <3>6. \A d \in Calls : reply[d] # "unknown"
      BY <3>1
    <3> QED
      BY <3>1, <3>2, <3>3, <3>4, <3>5, <3>6
  <2>2. CASE \A r \in Calls : at[r] # "running"
    <3>1. (stopped => stopped') /\ lock' = None /\ \A d \in Calls : op'[d] = op[d]
      BY <1>11, <2>2 DEF D!CancelClients, D!Busy
    <3>2. \A d \in Calls : reply'[d] = "unknown" <=> reply[d] = "unknown"
      BY <1>11, <2>2 DEF D!CancelClients, D!Busy
    <3> QED
      BY <3>1, <3>2
  <2> QED
    BY <2>1, <2>2
<1>12. CASE UNCHANGED TaskVars /\ (stopped => stopped')
  BY <1>12 DEF TaskVars
<1> QED
  BY <1>1, <1>2, <1>3, <1>4, <1>5, <1>6, <1>7, <1>8, <1>9, <1>10, <1>11, <1>12, QuietStep, NoRepetition
     DEF D!ServerStep, D!CallStep, D!TaskStep

-------------------------------------------------------------------------------
(* The invariant *)

\* Before the first call nothing is known.
LEMMA BridgeInitially == Init => BridgeInv
<1> SUFFICES ASSUME Init PROVE BridgeInv
  OBVIOUS
<1> USE BridgeAssumption DEF Init, C!ClientInit, D!ServerInit
<1>1. ClientSide
  BY DEF ClientSide, C!Places, C!Answers
<1>2. ServerTypes
  BY DEF ServerTypes, D!Places, D!Replies, D!Kinds, D!NoRequest, D!Request
<1>3. Joined /\ ServerSide /\ DoubtStops
  BY DEF Joined, ServerSide, DoubtStops
<1> QED
  BY <1>1, <1>2, <1>3 DEF BridgeInv

\* Every step of a client, of the socket and of the dispatcher keeps it.
LEMMA BridgeInductive == BridgeInv /\ [Next]_vars => BridgeInv'
<1> SUFFICES ASSUME BridgeInv, [Next]_vars PROVE BridgeInv'
  OBVIOUS
<1>1. CASE ClientStep
  BY <1>1, ClientStepKept
<1>2. CASE ServerStep
  <2>1. D!ServerStep
    BY <1>2 DEF ServerStep
  <2> QED
    BY <1>2, <2>1, JoinedKept, TypesKept, TasksKept, DoubtKept DEF BridgeInv
<1>3. ASSUME NEW c \in Calls, Receive(c) \/ Respond(c) PROVE BridgeInv'
  BY <1>3, ReceiveKept, RespondKept
<1>4. CASE UNCHANGED vars
  BY <1>4 DEF vars, clientVars, serverVars, BridgeInv, ClientSide, ServerTypes, Joined, ServerSide, DoubtStops
<1> QED
  BY <1>1, <1>2, <1>3, <1>4 DEF Next

\* Clients and dispatcher always agree on what became of a line, and a doubtful
\* outcome has stopped the session.
THEOREM BridgeInvariant == Spec => []BridgeInv
  BY BridgeInitially, BridgeInductive, PTL DEF Spec

-------------------------------------------------------------------------------
(* The promise to the callers *)

\* A client sends a line in two parts, or reports the outcome of one call.
LEMMA ClientReports ==
  ASSUME BridgeInv, ClientStep
  PROVE  \/ \E c \in Calls : /\ line[c] = "none" /\ result[c] = "none"
                             /\ line' = [line EXCEPT ![c] = "part"] /\ result' = result
         \/ \E c \in Calls : /\ line[c] = "part"
                             /\ line' = [line EXCEPT ![c] = "whole"] /\ result' = result
         \/ \E c \in Calls, r \in C!Answers \cup {"raised"} :
              result[c] = "none" /\ result' = [result EXCEPT ![c] = r] /\ line' = line
         \/ line' = line /\ result' = result
<1> DEFINE Reports(c) == \E r \in C!Answers \cup {"raised"} :
                           result[c] = "none" /\ result' = [result EXCEPT ![c] = r] /\ line' = line
<1> DEFINE Silent == line' = line /\ result' = result
<1> USE DEF BridgeInv, ClientSide, C!Answers
<1>1. ASSUME NEW c \in Calls, C!Submit(c) PROVE Reports(c) \/ Silent
  BY <1>1 DEF C!Submit, C!Return
<1>2. ASSUME NEW c \in Calls, C!ClientBusy(c) PROVE Reports(c)
  BY <1>2 DEF C!ClientBusy, C!Return
<1>3. ASSUME NEW c \in Calls, C!Check(c) PROVE Reports(c) \/ Silent
  BY <1>3 DEF C!Check, C!Release, C!Return
<1>4. ASSUME NEW c \in Calls, C!ConnectFails(c) PROVE Reports(c)
  BY <1>4 DEF C!ConnectFails, C!Release, C!Return
<1>5. ASSUME NEW c \in Calls, C!CheckAgain(c) PROVE Reports(c) \/ Silent
  BY <1>5 DEF C!CheckAgain, C!Release, C!Return
<1>6. ASSUME NEW c \in Calls, C!SendFails(c) PROVE Reports(c)
  BY <1>6 DEF C!SendFails, C!Release, C!Return
<1>7. ASSUME NEW c \in Calls, C!Read(c) PROVE Reports(c)
  <2>1. answer[c] \in C!Answers /\ result[c] = "none"
    BY <1>7 DEF C!Read
  <2> QED
    BY <1>7, <2>1 DEF C!Read, C!Release, C!Return
<1>8. ASSUME NEW c \in Calls, C!ReadFails(c) PROVE Reports(c)
  BY <1>8 DEF C!ReadFails, C!Release, C!Return
<1>9. ASSUME NEW c \in Calls, C!Raises(c) PROVE Reports(c)
  BY <1>9 DEF C!Raises, C!Release, C!Return
<1>10. ASSUME NEW c \in Calls, C!TakeLock(c) \/ C!Connect(c) PROVE Silent
  BY <1>10 DEF C!TakeLock, C!Connect
<1>11. ASSUME NEW c \in Calls, C!SendPart(c)
       PROVE  line[c] = "none" /\ result[c] = "none" /\ line' = [line EXCEPT ![c] = "part"] /\ result' = result
  BY <1>11 DEF C!SendPart
<1>12. ASSUME NEW c \in Calls, C!SendRest(c)
       PROVE  line[c] = "part" /\ line' = [line EXCEPT ![c] = "whole"] /\ result' = result
  BY <1>12 DEF C!SendRest
<1>13. ASSUME NEW o \in Clients, C!CloseFlag(o) \/ C!CloseSocket(o) PROVE Silent
  BY <1>13 DEF C!CloseFlag, C!CloseSocket
<1> QED
  BY <1>1, <1>2, <1>3, <1>4, <1>5, <1>6, <1>7, <1>8, <1>9, <1>10, <1>11, <1>12, <1>13
     DEF ClientStep, C!CallStep

\* Input is made by a task in the service, and by nothing else.
LEMMA InputMoves ==
  ASSUME BridgeInv, [Next]_vars
  PROVE  \/ input' = input
         \/ \E c \in Calls : /\ ServerStep
                             /\ op[c] \in {"executing", "unwinding"} /\ input[c] = "none"
                             /\ input' = [input EXCEPT ![c] = "begun"]
         \/ \E c \in Calls : /\ ServerStep
                             /\ input[c] = "begun" /\ input' = [input EXCEPT ![c] = "complete"]
<1>1. ASSUME NEW c \in Calls, D!Feedback(c)
      PROVE  /\ op[c] \in {"executing", "unwinding"} /\ input[c] = "none"
             /\ input' = [input EXCEPT ![c] = "begun"]
  BY <1>1 DEF D!Feedback, D!InService
<1>2. ASSUME NEW c \in Calls, D!InputCompletes(c)
      PROVE  input[c] = "begun" /\ input' = [input EXCEPT ![c] = "complete"]
  BY <1>2 DEF D!InputCompletes
<1>3. ASSUME NEW c \in Calls, D!CallStep(c) PROVE input' = input
  BY <1>3 DEF D!CallStep, D!DuplicateAnswered, D!DuplicateTimeout, D!Acquire, D!QueueTimeout, D!Complete, D!Timeout
<1>4. ASSUME NEW c \in Calls,
             D!Handle(c) \/ D!ServiceReturns(c) \/ D!ServiceInterrupted(c) \/ D!Unwind(c)
      PROVE  input' = input
  BY <1>4 DEF D!Handle, D!ServiceReturns, D!ServiceInterrupted, D!Unwind
<1>5. ASSUME D!RunStep PROVE input' = input
  BY <1>5, QuietStep DEF TaskVars, D!CancelClients
<1>6. CASE ServerStep
  BY <1>1, <1>2, <1>3, <1>4, <1>5, <1>6 DEF ServerStep, D!ServerStep, D!TaskStep
<1>7. ASSUME NEW c \in Calls, Receive(c) \/ Respond(c) PROVE input' = input
  BY <1>7 DEF Receive, Respond, D!Arrive, serverVars
<1>8. CASE ClientStep \/ UNCHANGED vars
  BY <1>8 DEF ClientStep, vars, serverVars
<1> QED
  BY <1>6, <1>7, <1>8 DEF Next

\* What the caller sees of the wire.
LEMMA WireNow ==
  \A c \in Calls : Wire[c] = IF input[c] # "none" THEN "executed"
                             ELSE IF result[c] = "not_sent" THEN "dropped"
                             ELSE IF line[c] = "none" THEN "none" ELSE "wire"
  BY DEF Wire

\* A call that began is on the wire, was not refused, and is input.
LEMMA BegunIsTap ==
  ASSUME BridgeInv, NEW c \in Calls, op[c] # "none"
  PROVE  line[c] = "whole" /\ result[c] # "not_sent" /\ (req[c].kind \in {"tap", "bad"} <=> c \in Taps)
<1>1. at[c] # "none" /\ reply[c] # "not_sent"
  BY DEF BridgeInv, ServerSide
<1>2. line[c] = "whole" /\ (req[c].kind \in {"tap", "bad"} <=> c \in Taps) /\ answer[c] # "not_sent"
  BY <1>1 DEF BridgeInv, Joined
<1> QED
  BY <1>2 DEF BridgeInv, ClientSide

\* Input of a call whose line was not sent, or which was refused, has not been made.
LEMMA UnsentNotBegun ==
  ASSUME BridgeInv, NEW c \in Calls, line[c] = "none" \/ answer[c] = "not_sent"
  PROVE  input[c] = "none"
  BY DEF BridgeInv, Joined, ServerSide

\* What was confirmed was executed.
LEMMA ConfirmedExecuted ==
  ASSUME BridgeInv, NEW c \in Taps, answer[c] = "ok"
  PROVE  input[c] = "complete"
<1>1. c \in Calls
  BY BridgeAssumption
<1>2. reply[c] = "ok"
  BY <1>1 DEF BridgeInv, Joined
<1>3. out[c] = "ok" /\ at[c] # "none"
  BY <1>1, <1>2 DEF BridgeInv, ServerSide
<1>4. req[c].kind \in {"tap", "bad"}
  BY <1>1, <1>3 DEF BridgeInv, Joined
<1> QED
  BY <1>1, <1>3, <1>4 DEF BridgeInv, ServerSide

\* A step of a client submits a call, lets it return, or changes nothing its
\* caller sees.
LEMMA ClientRefines ==
  ASSUME BridgeInv, ClientStep
  PROVE  CallPromise!Next \/ UNCHANGED <<Wire, result>>
<1>1. input' = input /\ ClientSide' /\ answer' = answer
  BY ClientKept DEF ClientStep, serverVars
<1>2. ASSUME NEW c \in Calls, line[c] = "none", result[c] = "none",
             line' = [line EXCEPT ![c] = "part"], result' = result
      PROVE  CallPromise!Submit(c)
  <2>1. input[c] = "none"
    BY <1>2, UnsentNotBegun
  <2>2. line'[c] = "part" /\ \A d \in Calls \ {c} : line'[d] = line[d]
    BY <1>2 DEF BridgeInv, ClientSide
  <2>3. Wire[c] = "none"
    BY <1>2, <2>1, WireNow
  <2>4. Wire' = [Wire EXCEPT ![c] = "wire"]
    BY <1>1, <1>2, <2>1, <2>2 DEF Wire
  <2> QED
    BY <1>2, <2>3, <2>4 DEF CallPromise!Submit
<1>3. ASSUME NEW c \in Calls, line[c] = "part", line' = [line EXCEPT ![c] = "whole"], result' = result
      PROVE  UNCHANGED <<Wire, result>>
  <2>1. line'[c] = "whole" /\ \A d \in Calls \ {c} : line'[d] = line[d]
    BY <1>3 DEF BridgeInv, ClientSide
  <2> QED
    BY <1>1, <1>3, <2>1 DEF Wire
<1>4. ASSUME NEW c \in Calls, NEW r \in C!Answers \cup {"raised"}, result[c] = "none",
             result' = [result EXCEPT ![c] = r], line' = line
      PROVE  CallPromise!Return(c)
  <2>1. result'[c] = r /\ \A d \in Calls \ {c} : result'[d] = result[d]
    BY <1>4 DEF BridgeInv, ClientSide
  <2>2. r = "ok" /\ c \in Taps => Wire[c] = "executed"
    <3>1. r = "ok" => answer[c] = "ok"
      BY <1>1, <2>1 DEF ClientSide
    <3> QED
      BY <3>1, ConfirmedExecuted, WireNow
  <2>3. r = "not_sent" => input[c] = "none"
    <3>1. r = "not_sent" => line[c] = "none" \/ answer[c] = "not_sent"
      BY <1>1, <1>4, <2>1 DEF ClientSide
    <3> QED
      BY <3>1, UnsentNotBegun
  <2>4. r = "not_sent" => Wire[c] # "executed"
    BY <1>4, <2>3, WireNow
  <2>5. Wire' = IF r = "not_sent" THEN [Wire EXCEPT ![c] = "dropped"] ELSE Wire
    <3>1. CASE r = "not_sent"
      BY <1>1, <1>4, <2>1, <2>3, <3>1 DEF Wire
    <3>2. CASE r # "not_sent"
      BY <1>1, <1>4, <2>1, <3>2 DEF Wire
    <3> QED
      BY <3>1, <3>2
  <2> QED
    BY <1>4, <2>2, <2>4, <2>5 DEF CallPromise!Return, C!Answers
<1>5. ASSUME line' = line /\ result' = result PROVE UNCHANGED <<Wire, result>>
  BY <1>1, <1>5 DEF Wire
<1> QED
  BY <1>2, <1>3, <1>4, <1>5, ClientReports DEF CallPromise!Next

\* A step of the dispatcher executes a call that is on the wire, or changes
\* nothing its caller sees.
LEMMA ServerRefines ==
  ASSUME BridgeInv, [Next]_vars, line' = line, result' = result
  PROVE  CallPromise!Next \/ UNCHANGED <<Wire, result>>
<1>1. ASSUME NEW c \in Calls, op[c] \in {"executing", "unwinding"}, input[c] = "none",
             input' = [input EXCEPT ![c] = "begun"]
      PROVE  CallPromise!Execute(c)
  <2>1. line[c] = "whole" /\ result[c] # "not_sent" /\ c \in Taps
    BY <1>1, BegunIsTap DEF BridgeInv, ServerSide
  <2>2. input'[c] = "begun" /\ \A d \in Calls \ {c} : input'[d] = input[d]
    BY <1>1 DEF BridgeInv, ServerTypes
  <2>3. Wire[c] = "wire"
    BY <1>1, <2>1, WireNow
  <2>4. Wire' = [Wire EXCEPT ![c] = "executed"]
    BY <2>2 DEF Wire
  <2> QED
    BY <2>1, <2>3, <2>4 DEF CallPromise!Execute
<1>2. ASSUME NEW c \in Calls, input[c] = "begun", input' = [input EXCEPT ![c] = "complete"]
      PROVE  UNCHANGED <<Wire, result>>
  <2>1. input'[c] = "complete" /\ \A d \in Calls \ {c} : input'[d] = input[d]
    BY <1>2 DEF BridgeInv, ServerTypes
  <2> QED
    BY <1>2, <2>1 DEF Wire
<1>3. ASSUME input' = input PROVE UNCHANGED <<Wire, result>>
  BY <1>3 DEF Wire
<1> QED
  BY <1>1, <1>2, <1>3, InputMoves DEF CallPromise!Next

\* Client, socket and dispatcher together do what the callers of controller.call
\* are promised: a command is executed at most once, "ok" only after it, and
\* "not_sent" only if it never will be, whoever gives up, closes or fails.
THEOREM BridgeKeepsPromise == Spec => KeepsCallPromise
<1>1. Init => CallPromise!Init
  BY DEF Init, C!ClientInit, D!ServerInit, CallPromise!Init, Wire
<1>2. BridgeInv /\ [Next]_vars => [CallPromise!Next]_<<Wire, result>>
  <2> SUFFICES ASSUME BridgeInv, [Next]_vars PROVE CallPromise!Next \/ UNCHANGED <<Wire, result>>
    OBVIOUS
  <2>1. CASE ClientStep
    BY <2>1, ClientRefines
  <2>2. CASE ServerStep \/ (\E c \in Calls : Receive(c) \/ Respond(c)) \/ UNCHANGED vars
    <3>1. line' = line /\ result' = result
      BY <2>2 DEF ServerStep, Receive, Respond, vars, clientVars
    <3> QED
      BY <3>1, ServerRefines
  <2> QED
    BY <2>1, <2>2 DEF Next
<1> QED
  BY <1>1, <1>2, BridgeInvariant, PTL DEF Spec, KeepsCallPromise, CallPromise!Spec

\* Once a client has been told that an outcome is unknown, no input of any
\* client begins that had not begun, wherever its line was at the time.
THEOREM SilentBehindDoubt == Spec => NoInputBehindDoubt
<1>1. BridgeInv /\ [Next]_vars
        => [\A c, d \in Calls :
              answer[c] = "unknown" /\ c # d /\ input[d] = "none" => input'[d] = "none"]_vars
  <2> SUFFICES ASSUME BridgeInv, [Next]_vars, NEW c \in Calls, NEW d \in Calls,
                      answer[c] = "unknown", c # d, input[d] = "none"
               PROVE  input'[d] = "none"
    OBVIOUS
  <2>1. reply[c] = "unknown"
    BY DEF BridgeInv, Joined
  <2>2. op[d] \in {"none", "over"}
    BY <2>1 DEF BridgeInv, DoubtStops
  <2> QED
    BY <2>2, InputMoves DEF BridgeInv, ServerTypes
<1> QED
  BY <1>1, BridgeInvariant, PTL DEF Spec, NoInputBehindDoubt

================================================================================
