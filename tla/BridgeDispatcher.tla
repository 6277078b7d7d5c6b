--------------------------- MODULE BridgeDispatcher ---------------------------
(***************************************************************************)
(* The owner of the controller: _CommandDispatcher and _run of             *)
(* scripts/warm_bridge.py with BridgeHealth of scripts/bridge_health.py.   *)
(* Several clients send commands with request ids over a socket; each      *)
(* dispatch is a coroutine, and a step here runs one of them to its next   *)
(* await.  Commands are deduplicated by id, serialized by a lock, cut off  *)
(* by a timeout, and refused for good once the session has stopped or the  *)
(* transport has failed.                                                   *)
(***************************************************************************)
EXTENDS Naturals, FiniteSets

CONSTANTS
  Calls,        \* dispatched command lines
  Ids,          \* request ids
  NoLine,         \* no call, no request
  MaxRequests,  \* max_requests: ids the ledger can hold
  IdleTimeout,  \* whether an idle client ends the session (--idle-timeout)
  WaitsForClients \* whether asyncio's Server.wait_closed waits until every
                  \* connection is closed, as it does from Python 3.12 on

\* The contents a line can have; a "bad" tap is refused by _handle, or by the
\* service, perhaps after some of its buttons were sent.
Kinds == {"tap", "bad", "status", "close"}

ASSUME DispatcherAssumption ==
  /\ NoLine \notin Calls /\ NoLine \notin Ids
  /\ IsFiniteSet(Calls) /\ IsFiniteSet(Ids)
  /\ MaxRequests \in Nat \ {0} /\ IdleTimeout \in BOOLEAN /\ WaitsForClients \in BOOLEAN

VARIABLES
  at,        \* where the coroutine of a call is
  req,       \* the id and the kind of its line
  ledger,    \* _requests: the call that admitted an id; its reply is the future
  reply,     \* the response of a call
  lock,      \* _lock: the call that holds it
  op,        \* the task of _handle
  out,       \* what that task ended with
  input,     \* how much of the input of a call reached the controller
  stopped,   \* dispatcher.stopped
  faulted,   \* dispatcher.faulted
  failed,    \* health.failed, with its latched error
  phase,     \* where _run is
  idle       \* whether a further client waits in _read_command for its user

serverVars == <<at, req, ledger, reply, lock, op, out, input, stopped, faulted, failed, phase, idle>>

Places == {"none", "dup", "queued", "running", "done"}
Replies == {"none", "ok", "not_sent", "unknown", "error"}

Request(i, k) == [id |-> i, kind |-> k]
NoRequest == Request(NoLine, "tap")

ServerInit ==
  /\ at = [c \in Calls |-> "none"]
  /\ req = [c \in Calls |-> NoRequest]
  /\ ledger = [i \in Ids |-> NoLine]
  /\ reply = [c \in Calls |-> "none"]
  /\ lock = NoLine
  /\ op = [c \in Calls |-> "none"]
  /\ out = [c \in Calls |-> "none"]
  /\ input = [c \in Calls |-> "none"]
  /\ stopped = FALSE /\ faulted = FALSE /\ failed = FALSE
  /\ phase = "serving" /\ idle = FALSE

-------------------------------------------------------------------------------
(* Admission *)

Admitted == {i \in Ids : ledger[i] # NoLine}
Ended == stopped \/ failed
Connected == phase \in {"serving", "stopping", "draining"}

Answer(c, r) ==
  /\ at' = [at EXCEPT ![c] = "done"]
  /\ reply' = [reply EXCEPT ![c] = r]

\* A line that is not admitted: a request id used before with other content, ...
Refusal(c, r) ==
  /\ Answer(c, r)
  /\ UNCHANGED ledger

Admit(c, i) ==
  /\ at' = [at EXCEPT ![c] = "queued"]
  /\ ledger' = [ledger EXCEPT ![i] = c]
  /\ UNCHANGED reply

\* Faulty variant: the state of the session is looked at before the ledger.
StopFirst(c, i, k) ==
  IF Ended THEN Refusal(c, "not_sent")
  ELSE IF ledger[i] # NoLine
  THEN IF req[ledger[i]].kind # k
       THEN Refusal(c, "error")
       ELSE at' = [at EXCEPT ![c] = "dup"] /\ UNCHANGED <<reply, ledger>>
  ELSE IF Cardinality(Admitted) >= MaxRequests THEN Refusal(c, "not_sent")
  ELSE Admit(c, i)

\* ... a repetition, a session that has ended, a full ledger, or a new id.
Admission(c, i, k) ==
  IF ledger[i] # NoLine
  THEN IF req[ledger[i]].kind # k
       THEN Refusal(c, "error")
       ELSE at' = [at EXCEPT ![c] = "dup"] /\ UNCHANGED <<reply, ledger>>
  ELSE IF Ended \/ Cardinality(Admitted) >= MaxRequests THEN Refusal(c, "not_sent")
  ELSE Admit(c, i)

\* _serve_client reads a line and dispatches it; no client reads after the
\* client tasks were gathered.
Arrive(c, i, k) ==
  /\ at[c] = "none" /\ Connected
  /\ req' = [req EXCEPT ![c] = Request(i, k)]
  /\ Admission(c, i, k)
  /\ UNCHANGED <<lock, op, out, input, stopped, faulted, failed, phase, idle>>

\* A repetition waits for the result of the first call, ...
DuplicateAnswered(c) ==
  /\ at[c] = "dup" /\ reply[ledger[req[c].id]] # "none"
  /\ Answer(c, reply[ledger[req[c].id]])
  /\ UNCHANGED <<req, ledger, lock, op, out, input, stopped, faulted, failed, phase, idle>>

\* ... but not longer than command_timeout.
DuplicateTimeout(c) ==
  /\ at[c] = "dup" /\ reply[ledger[req[c].id]] = "none"
  /\ Answer(c, "unknown")
  /\ UNCHANGED <<req, ledger, lock, op, out, input, stopped, faulted, failed, phase, idle>>

-------------------------------------------------------------------------------
(* The lock and the task *)

\* Faulty variant: the session is not looked at again once the lock is held.
LockTakenBlindly(c) ==
  /\ at[c] = "queued" /\ lock = NoLine
  /\ at' = [at EXCEPT ![c] = "running"]
  /\ op' = [op EXCEPT ![c] = "created"]
  /\ lock' = c
  /\ UNCHANGED <<req, ledger, reply, out, input, stopped, faulted, failed, phase, idle>>

\* The lock is acquired; the session is looked at again before the task starts.
Acquire(c) ==
  /\ at[c] = "queued" /\ lock = NoLine
  /\ IF Ended
     THEN Answer(c, "not_sent") /\ UNCHANGED <<lock, op>>
     ELSE /\ at' = [at EXCEPT ![c] = "running"]
          /\ op' = [op EXCEPT ![c] = "created"]
          /\ lock' = c
          /\ UNCHANGED reply
  /\ UNCHANGED <<req, ledger, out, input, stopped, faulted, failed, phase, idle>>

\* The time is over before the lock is acquired, or just after.
QueueTimeout(c) ==
  /\ at[c] = "queued"
  /\ Answer(c, "not_sent")
  /\ UNCHANGED <<req, ledger, lock, op, out, input, stopped, faulted, failed, phase, idle>>

EndTask(c, o) ==
  /\ op' = [op EXCEPT ![c] = "over"]
  /\ out' = [out EXCEPT ![c] = o]

InService == {c \in Calls : op[c] \in {"executing", "unwinding"}}

\* _handle: a status or an input needs a ready transport, and an input the
\* _command_lock of BridgeHealth.
Handle(c) ==
  /\ op[c] = "created"
  /\ \/ req[c].kind = "bad" /\ EndTask(c, "invalid")
     \/ req[c].kind = "close" /\ EndTask(c, "ok")
     \/ req[c].kind = "status" /\ EndTask(c, IF failed THEN "fault" ELSE "ok")
     \/ /\ req[c].kind \in {"tap", "bad"} /\ InService = {}
        /\ IF failed THEN EndTask(c, "fault")
           ELSE op' = [op EXCEPT ![c] = "executing"] /\ UNCHANGED out
  /\ UNCHANGED <<at, req, ledger, reply, lock, input, stopped, faulted, failed, phase, idle>>

\* The first button reaches the controller; every feedback packet asks first
\* whether the transport is ready.  A cancelled tap may get that far before
\* the cancellation reaches it.
Feedback(c) ==
  /\ c \in InService /\ input[c] = "none" /\ ~failed /\ phase \notin {"closing", "closed"}
  /\ input' = [input EXCEPT ![c] = "begun"]
  /\ UNCHANGED <<at, req, ledger, reply, lock, op, out, stopped, faulted, failed, phase, idle>>

\* The last button of a tap was sent.
InputCompletes(c) ==
  /\ op[c] = "executing" /\ input[c] = "begun" /\ req[c].kind = "tap" /\ ~failed
  /\ input' = [input EXCEPT ![c] = "complete"]
  /\ UNCHANGED <<at, req, ledger, reply, lock, op, out, stopped, faulted, failed, phase, idle>>

\* The service is done with a tap, or finds that it cannot go on with it.
ServiceReturns(c) ==
  /\ op[c] = "executing" /\ ~failed
  /\ \/ input[c] = "complete" /\ EndTask(c, "ok")
     \/ req[c].kind = "bad" /\ EndTask(c, "invalid")
  /\ UNCHANGED <<at, req, ledger, reply, lock, input, stopped, faulted, failed, phase, idle>>

\* The transport failed while the input was executing; the fault wins.
ServiceInterrupted(c) ==
  /\ op[c] = "executing" /\ failed
  /\ EndTask(c, "fault")
  /\ UNCHANGED <<at, req, ledger, reply, lock, input, stopped, faulted, failed, phase, idle>>

ReplyOf(c) ==
  CASE out[c] = "ok" -> "ok" [] out[c] = "invalid" -> "error" [] out[c] = "fault" -> "unknown"

\* The task is done in time: its result answers the call, a fault stops the
\* session, and the lock is released.
Complete(c) ==
  /\ at[c] = "running" /\ op[c] = "over"
  /\ Answer(c, ReplyOf(c))
  /\ faulted' = (faulted \/ out[c] = "fault")
  /\ stopped' = (stopped \/ out[c] = "fault" \/ (out[c] = "ok" /\ req[c].kind = "close"))
  /\ lock' = NoLine
  /\ UNCHANGED <<req, ledger, op, out, input, failed, phase, idle>>

\* The task is cancelled, but what it did to the controller is unknown.
Cancel(c) == op' = [op EXCEPT ![c] = IF @ = "executing" THEN "unwinding" ELSE "over"]

\* Faulty variant: a command that takes too long does not end the session.
TimeoutForgiven(c) ==
  /\ at[c] = "running" /\ op[c] # "over"
  /\ Answer(c, "unknown") /\ Cancel(c)
  /\ lock' = NoLine
  /\ UNCHANGED <<req, ledger, out, input, stopped, faulted, failed, phase, idle>>

\* Faulty variant: a command that is in the service is waited for.
TimeoutBeforeService(c) ==
  /\ at[c] = "running" /\ op[c] = "created"
  /\ Answer(c, "unknown") /\ Cancel(c)
  /\ faulted' = TRUE /\ stopped' = TRUE
  /\ lock' = NoLine
  /\ UNCHANGED <<req, ledger, out, input, failed, phase, idle>>

\* command_timeout passes first: the task is cancelled, the session stops and
\* the lock is released while the task still unwinds.
Timeout(c) ==
  /\ at[c] = "running" /\ op[c] # "over"
  /\ Answer(c, "unknown") /\ Cancel(c)
  /\ faulted' = TRUE /\ stopped' = TRUE
  /\ lock' = NoLine
  /\ UNCHANGED <<req, ledger, out, input, failed, phase, idle>>

Unwind(c) ==
  /\ op[c] = "unwinding"
  /\ op' = [op EXCEPT ![c] = "over"]
  /\ UNCHANGED <<at, req, ledger, reply, lock, out, input, stopped, faulted, failed, phase, idle>>

-------------------------------------------------------------------------------
(* The transport and the end of the session *)

\* BridgeHealth._fail: the transport fails, outside of close().
TransportFails ==
  /\ ~failed /\ Connected
  /\ failed' = TRUE
  /\ UNCHANGED <<at, req, ledger, reply, lock, op, out, input, stopped, faulted, phase, idle>>

\* A further client connects, and leaves when it wants to.
ClientConnects ==
  /\ ~idle /\ phase = "serving"
  /\ idle' = TRUE
  /\ UNCHANGED <<at, req, ledger, reply, lock, op, out, input, stopped, faulted, failed, phase>>

ClientLeaves ==
  /\ idle
  /\ idle' = FALSE
  /\ UNCHANGED <<at, req, ledger, reply, lock, op, out, input, stopped, faulted, failed, phase>>

\* _read_command of that client ends when the transport fails.
ReaderInterrupted ==
  /\ idle /\ failed
  /\ idle' = FALSE
  /\ UNCHANGED <<at, req, ledger, reply, lock, op, out, input, stopped, faulted, failed, phase>>

\* It sends nothing for idle_timeout: _serve_client stops the session.
ClientIdle ==
  /\ IdleTimeout /\ idle
  /\ idle' = FALSE /\ stopped' = TRUE
  /\ UNCHANGED <<at, req, ledger, reply, lock, op, out, input, faulted, failed, phase>>

\* _run: the server closes, ...
ServerCloses ==
  /\ phase = "serving" /\ Ended
  /\ phase' = "stopping"
  /\ UNCHANGED <<at, req, ledger, reply, lock, op, out, input, stopped, faulted, failed, idle>>

Busy == {c \in Calls : at[c] \in {"dup", "queued", "running"}}

\* ... wait_closed returns, at once or with the last connection, ...
ServerClosed ==
  /\ phase = "stopping" /\ (WaitsForClients => ~idle /\ Busy = {})
  /\ phase' = "draining"
  /\ UNCHANGED <<at, req, ledger, reply, lock, op, out, input, stopped, faulted, failed, idle>>

\* ... and the clients left after a second are cancelled together.  A call
\* that waited for the lock is known not to have started.
CancelClients ==
  LET Run == {c \in Busy : at[c] = "running"} IN
  /\ phase = "draining"
  /\ phase' = "closing"
  /\ at' = [c \in Calls |-> IF c \in Busy THEN "done" ELSE at[c]]
  /\ reply' = [c \in Calls |-> IF c \in Run THEN "unknown"
                               ELSE IF at[c] = "queued" THEN "not_sent" ELSE reply[c]]
  /\ op' = [c \in Calls |-> IF c \in Run
                            THEN IF op[c] = "executing" THEN "unwinding" ELSE "over" ELSE op[c]]
  /\ lock' = NoLine
  /\ faulted' = (faulted \/ Run # {}) /\ stopped' = (stopped \/ Run # {})
  /\ idle' = FALSE
  /\ UNCHANGED <<req, ledger, out, input, failed>>

\* BridgeHealth.close: all inputs are released and the service is closed.
Close ==
  /\ phase = "closing"
  /\ phase' = "closed"
  /\ UNCHANGED <<at, req, ledger, reply, lock, op, out, input, stopped, faulted, failed, idle>>

-------------------------------------------------------------------------------

CallStep(c) ==
  \/ DuplicateAnswered(c) \/ DuplicateTimeout(c)
  \/ Acquire(c) \/ QueueTimeout(c) \/ Complete(c) \/ Timeout(c)

TaskStep(c) ==
  \/ Handle(c) \/ Feedback(c) \/ InputCompletes(c) \/ ServiceReturns(c) \/ ServiceInterrupted(c) \/ Unwind(c)

RunStep ==
  \/ TransportFails
  \/ ClientConnects \/ ClientLeaves \/ ReaderInterrupted \/ ClientIdle
  \/ ServerCloses \/ ServerClosed \/ CancelClients \/ Close

ServerStep == RunStep \/ \E c \in Calls : CallStep(c) \/ TaskStep(c)

NextServer == ServerStep \/ \E c \in Calls, i \in Ids, k \in Kinds : Arrive(c, i, k)

SpecServer == ServerInit /\ [][NextServer]_serverVars

\* Coroutines that can run do run, timers go off, and close() returns; nobody
\* can count on the service, the transport or a client.
Fairness ==
  /\ WF_serverVars(ReaderInterrupted) /\ WF_serverVars(ClientIdle)
  /\ WF_serverVars(ServerCloses) /\ WF_serverVars(ServerClosed)
  /\ WF_serverVars(CancelClients) /\ WF_serverVars(Close)
  /\ \A c \in Calls : /\ WF_serverVars(DuplicateAnswered(c) \/ DuplicateTimeout(c))
                      /\ WF_serverVars(Acquire(c) \/ QueueTimeout(c))
                      /\ WF_serverVars(Complete(c) \/ Timeout(c))

FairServer == SpecServer /\ Fairness

-------------------------------------------------------------------------------
(* Properties *)

\* Every variable has its type.
ServerTypeOK ==
  /\ at \in [Calls -> Places]
  /\ req \in [Calls -> [id : Ids \cup {NoLine}, kind : Kinds]]
  /\ ledger \in [Ids -> Calls \cup {NoLine}]
  /\ reply \in [Calls -> Replies]
  /\ lock \in Calls \cup {NoLine}
  /\ op \in [Calls -> {"none", "created", "executing", "unwinding", "over"}]
  /\ out \in [Calls -> {"none", "ok", "invalid", "fault"}]
  /\ input \in [Calls -> {"none", "begun", "complete"}]
  /\ phase \in {"serving", "stopping", "draining", "closing", "closed"}
  /\ {stopped, faulted, failed, idle} \subseteq BOOLEAN

Sent(c) == input[c] # "none"
SameId(c, d) == req[c].id = req[d].id

\* "not_sent" is final: no button of a line with that id was sent before the
\* answer, by whichever call, or will be sent after it, so that the caller may
\* act as if it had never asked.
NotSentFinal ==
  \A c, d \in Calls : reply[c] = "not_sent" /\ SameId(c, d) => ~Sent(d)

\* "ok" for a tap, also one answered from the ledger, means that all of that
\* very tap was sent.
OkMeansExecuted ==
  \A c \in Calls :
    reply[c] = "ok" /\ req[c].kind = "tap" =>
      \E d \in Calls : SameId(c, d) /\ req[d].kind = "tap" /\ input[d] = "complete"

\* However often a line is repeated, over whatever connections, and however
\* full the ledger is, the controller receives the input of an id once
\* (_requests retains all ids).
AtMostOnce ==
  \A c, d \in Calls : Sent(c) /\ Sent(d) /\ SameId(c, d) => c = d

\* What a caller is told is true, and stays true, of the input it asked for, which
\* is made once.
AnswersAreTrue == ServerTypeOK /\ AtMostOnce /\ NotSentFinal /\ OkMeansExecuted

Unconfirmed(c) == reply[c] = "unknown" /\ ledger[req[c].id] = c

\* Once the outcome of a command is unknown, by a timeout, a fault or the end
\* of the session, no other input begins: what was queued behind it is refused.
NoInputAfterUnknown ==
  [][\A c, d \in Calls :
       Unconfirmed(c) /\ c # d /\ ~Sent(d) => ~Sent(d)']_serverVars

\* A session that is stopped, or whose transport failed, releases the
\* controller in the end, whatever the service and the clients do.
SessionEnds == Ended ~> phase = "closed"

\* Every line that was read is answered or cut off with its connection, and the
\* session comes to its end once it is stopped.
EveryCallEnds == SessionEnds /\ \A c \in Calls : at[c] # "none" ~> at[c] = "done"

===============================================================================
