----------------------------- MODULE BridgeClient -----------------------------
(***************************************************************************)
(* The caller's end of the bridge: BridgeClient of veda/bridge_client.py.  *)
(* Threads share client objects; a call takes the lock of its object,      *)
(* connects if need be, sends one line and reads one response.  close()    *)
(* may run beside a call, without the lock.  The server is whatever reads  *)
(* a line that was sent whole and answers it at most once.                 *)
(***************************************************************************)
EXTENDS Naturals, FiniteSets

CONSTANTS
  Calls,    \* calls of BridgeClient.call
  Clients,  \* client objects
  NoCall      \* no call

ASSUME ClientAssumption == NoCall \notin Calls /\ Calls # {} /\ Clients # {}

VARIABLES
  place,    \* where a call is
  owner,    \* the object it was made on
  result,   \* the status it returned
  holder,   \* _lock: the call that has it
  closing,  \* how far close() has come; _closed is set from "flagged" on
  doubt,    \* _uncertain
  sock,     \* _socket: the call that opened the connection
  broken,   \* connections that were shut down or closed at this end
  line,     \* how much of the line of a call was sent
  answer    \* the response of the server to that line

clientVars == <<place, owner, result, holder, closing, doubt, sock, broken, line, answer>>

Answers == {"ok", "not_sent", "unknown", "error"}
Places == {"idle", "waiting", "locked", "connecting", "connected", "sending", "reading", "returned"}

ClientInit ==
  /\ place = [c \in Calls |-> "idle"]
  /\ owner \in [Calls -> Clients]
  /\ result = [c \in Calls |-> "none"]
  /\ holder = [o \in Clients |-> NoCall]
  /\ closing = [o \in Clients |-> "no"]
  /\ doubt = [o \in Clients |-> FALSE]
  /\ sock = [o \in Clients |-> NoCall]
  /\ broken = {}
  /\ line = [c \in Calls |-> "none"]
  /\ answer = [c \in Calls |-> "none"]

Closed(o) == closing[o] # "no"

MoveTo(c, p) == place' = [place EXCEPT ![c] = p]

Return(c, r) ==
  /\ MoveTo(c, "returned")
  /\ result' = [result EXCEPT ![c] = r]

\* A return from inside the lock.
Release(c, r) ==
  /\ Return(c, r)
  /\ holder' = [holder EXCEPT ![owner[c]] = NoCall]

\* _disconnect: this end forgets its connection, if it still has one.
Disconnect(o) ==
  /\ broken' = IF sock[o] = NoCall THEN broken ELSE broken \cup {sock[o]}
  /\ sock' = [sock EXCEPT ![o] = NoCall]

-------------------------------------------------------------------------------
(* One call *)

\* The command is valid and fits, or is refused before anything else.
Submit(c) ==
  /\ place[c] = "idle"
  /\ \/ MoveTo(c, "waiting") /\ UNCHANGED result
     \/ Return(c, "not_sent")
  /\ UNCHANGED <<owner, holder, closing, doubt, sock, broken, line, answer>>

TakeLock(c) ==
  /\ place[c] = "waiting" /\ holder[owner[c]] = NoCall
  /\ holder' = [holder EXCEPT ![owner[c]] = c]
  /\ MoveTo(c, "locked")
  /\ UNCHANGED <<owner, result, closing, doubt, sock, broken, line, answer>>

\* The lock is not free within the three timeouts.
ClientBusy(c) ==
  /\ place[c] = "waiting" /\ holder[owner[c]] # NoCall
  /\ Return(c, "not_sent")
  /\ UNCHANGED <<owner, holder, closing, doubt, sock, broken, line, answer>>

\* Faulty variant: a fresh connection is thought to clear the doubt.
CheckUnlessFresh(c) ==
  LET o == owner[c] IN
  /\ place[c] = "locked"
  /\ IF Closed(o) \/ (doubt[o] /\ sock[o] # NoCall) THEN Release(c, "not_sent")
     ELSE /\ MoveTo(c, IF sock[o] = NoCall THEN "connecting" ELSE "connected")
          /\ UNCHANGED <<result, holder>>
  /\ UNCHANGED <<owner, closing, doubt, sock, broken, line, answer>>

\* A closed client and one with an unresolved outcome send nothing.
Check(c) ==
  LET o == owner[c] IN
  /\ place[c] = "locked"
  /\ IF Closed(o) \/ doubt[o] THEN Release(c, "not_sent")
     ELSE /\ MoveTo(c, IF sock[o] = NoCall THEN "connecting" ELSE "connected")
          /\ UNCHANGED <<result, holder>>
  /\ UNCHANGED <<owner, closing, doubt, sock, broken, line, answer>>

Connect(c) ==
  /\ place[c] = "connecting"
  /\ sock' = [sock EXCEPT ![owner[c]] = c]
  /\ MoveTo(c, "connected")
  /\ UNCHANGED <<owner, result, holder, closing, doubt, broken, line, answer>>

ConnectFails(c) ==
  /\ place[c] = "connecting"
  /\ Release(c, "not_sent")
  /\ UNCHANGED <<owner, closing, doubt, sock, broken, line, answer>>

\* close() may have come while the connection was made.
CheckAgain(c) ==
  /\ place[c] = "connected"
  /\ IF Closed(owner[c])
     THEN Disconnect(owner[c]) /\ Release(c, "not_sent")
     ELSE MoveTo(c, "sending") /\ UNCHANGED <<result, holder, sock, broken>>
  /\ UNCHANGED <<owner, closing, doubt, line, answer>>

\* sendall on the connection the call has at hand: a first part of the line
\* leaves, then the rest.
SendPart(c) ==
  /\ place[c] = "sending" /\ sock[owner[c]] # NoCall /\ line[c] = "none"
  /\ line' = [line EXCEPT ![c] = "part"]
  /\ UNCHANGED <<place, owner, result, holder, closing, doubt, sock, broken, answer>>

SendRest(c) ==
  /\ place[c] = "sending" /\ sock[owner[c]] # NoCall /\ line[c] = "part"
  /\ line' = [line EXCEPT ![c] = "whole"]
  /\ MoveTo(c, "reading")
  /\ UNCHANGED <<owner, result, holder, closing, doubt, sock, broken, answer>>

\* Faulty variant: a failed send is taken for one that sent nothing.
SendFailsUnsent(c) ==
  /\ place[c] = "sending"
  /\ Disconnect(owner[c])
  /\ Release(c, "not_sent")
  /\ UNCHANGED <<owner, closing, doubt, line, answer>>

\* sendall raises, or the socket has been closed under it.
SendFails(c) ==
  /\ place[c] = "sending"
  /\ Disconnect(owner[c])
  /\ doubt' = [doubt EXCEPT ![owner[c]] = TRUE]
  /\ Release(c, "unknown")
  /\ UNCHANGED <<owner, closing, line, answer>>

\* The response has come, if need be just before close() shut the socket down:
\* it is returned, and an unknown outcome latched.
Read(c) ==
  LET o == owner[c] IN
  /\ place[c] = "reading" /\ answer[c] # "none"
  /\ Release(c, answer[c])
  /\ IF answer[c] = "unknown"
     THEN Disconnect(o) /\ doubt' = [doubt EXCEPT ![o] = TRUE]
     ELSE UNCHANGED <<sock, broken, doubt>>
  /\ UNCHANGED <<owner, closing, line, answer>>

\* A timeout, the end of the stream, a response that is too long, followed by
\* another or not for this request, or a connection shut down by close().
ReadFails(c) ==
  /\ place[c] = "reading"
  /\ Disconnect(owner[c])
  /\ doubt' = [doubt EXCEPT ![owner[c]] = TRUE]
  /\ Release(c, "unknown")
  /\ UNCHANGED <<owner, closing, line, answer>>

\* _disconnect is not locked: close() can drop the socket between its test and
\* its use by the call, whose AttributeError then leaves call() in place of a
\* status, whether or not the doubt was latched before.
Raises(c) ==
  LET o == owner[c] IN
  /\ place[c] \in {"connected", "sending", "reading"} /\ closing[o] = "flagged" /\ sock[o] # NoCall
  /\ Disconnect(o)
  /\ doubt' \in {doubt, [doubt EXCEPT ![o] = TRUE]}
  /\ Release(c, "raised")
  /\ UNCHANGED <<owner, closing, line, answer>>

-------------------------------------------------------------------------------
(* close(), and the server *)

\* close() first sets _closed, ...
CloseFlag(o) ==
  /\ closing[o] = "no"
  /\ closing' = [closing EXCEPT ![o] = "flagged"]
  /\ UNCHANGED <<place, owner, result, holder, doubt, sock, broken, line, answer>>

\* ... then shuts down the connection it finds, if any.
CloseSocket(o) ==
  /\ closing[o] = "flagged"
  /\ Disconnect(o)
  /\ closing' = [closing EXCEPT ![o] = "closed"]
  /\ UNCHANGED <<place, owner, result, holder, doubt, line, answer>>

ServerAnswers(c) ==
  /\ line[c] = "whole" /\ answer[c] = "none"
  /\ \E r \in Answers : answer' = [answer EXCEPT ![c] = r]
  /\ UNCHANGED <<place, owner, result, holder, closing, doubt, sock, broken, line>>

CallStep(c) ==
  \/ Submit(c) \/ TakeLock(c) \/ ClientBusy(c) \/ Check(c)
  \/ Connect(c) \/ ConnectFails(c) \/ CheckAgain(c)
  \/ SendPart(c) \/ SendRest(c) \/ SendFails(c) \/ Read(c) \/ ReadFails(c) \/ Raises(c)

NextClient ==
  \/ \E c \in Calls : CallStep(c) \/ ServerAnswers(c)
  \/ \E o \in Clients : CloseFlag(o) \/ CloseSocket(o)

SpecClient == ClientInit /\ [][NextClient]_clientVars

-------------------------------------------------------------------------------
(* Properties *)

Inside == {"locked", "connecting", "connected", "sending", "reading"}

\* Every variable has its type, and the lock of an object is held exactly by
\* the call that is between its acquire and its finally.
ClientTypeOK ==
  /\ place \in [Calls -> Places]
  /\ owner \in [Calls -> Clients]
  /\ result \in [Calls -> Answers \cup {"none", "raised"}]
  /\ holder \in [Clients -> Calls \cup {NoCall}]
  /\ closing \in [Clients -> {"no", "flagged", "closed"}]
  /\ doubt \in [Clients -> BOOLEAN]
  /\ sock \in [Clients -> Calls \cup {NoCall}]
  /\ broken \subseteq Calls
  /\ line \in [Calls -> {"none", "part", "whole"}]
  /\ answer \in [Calls -> Answers \cup {"none"}]
  /\ \A c \in Calls : place[c] \in Inside <=> holder[owner[c]] = c

\* "not_sent" is the truth: the client says it only if no byte of the line has
\* left, or if the server that read the line said so.
UnsentIsTrue ==
  \A c \in Calls : result[c] = "not_sent" => line[c] = "none" \/ answer[c] = "not_sent"

\* "ok" is never made up at this end: it is the answer to that very line.
ConfirmedByServer ==
  \A c \in Calls : result[c] \in {"ok", "error"} => answer[c] = result[c]

\* A closed object without a call in it has no connection left open.
NothingLeaks ==
  \A o \in Clients : closing[o] = "closed" /\ holder[o] = NoCall => sock[o] = NoCall

\* A certain answer is right about the line it answers, whichever threads share
\* the object, and a closed object keeps no connection.
CallsAreTrue == ClientTypeOK /\ UnsentIsTrue /\ ConfirmedByServer /\ NothingLeaks

Doubtful(c) == result[c] \in {"unknown", "raised"}

\* After a call without a certain outcome its object sends nothing more, on no
\* connection, although an exception out of call() need not latch the doubt; and
\* once close() has returned, no byte leaves, also of a call that was inside the
\* lock, before or after its connect, when close() came.
NothingAfterDoubt ==
  [][/\ \A c, d \in Calls :
          Doubtful(c) /\ owner[c] = owner[d] /\ line[d] = "none" => line'[d] = "none"
     /\ \A c \in Calls : closing[owner[c]] = "closed" => UNCHANGED line[c]]_clientVars

===============================================================================
