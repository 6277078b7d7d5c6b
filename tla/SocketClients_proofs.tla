------------------------- MODULE SocketClients_proofs --------------------------
(***************************************************************************)
(* Proofs about the two programs that talk to a server on this machine:    *)
(* BridgeClient, for any calls, threads and client objects, and            *)
(* AdapterChannel, for any number of commands, packets, typed lines and    *)
(* restarts.                                                               *)
(***************************************************************************)
EXTENDS BridgeClient, AdapterChannel, FiniteSetTheorems, TLAPS

-------------------------------------------------------------------------------
(* BridgeClient *)

ClientTypes ==
  /\ place \in [Calls -> Places]
  /\ owner \in [Calls -> Clients]
  /\ result \in [Calls -> Answers \cup {"none", "raised"}]
  /\ holder \in [Clients -> Calls \cup {NoCall}]
  /\ closing \in [Clients -> {"no", "flagged", "closed"}]
  /\ doubt \in [Clients -> BOOLEAN]
  /\ sock \in [Clients -> Calls \cup {NoCall}]
  /\ broken \subseteq Calls
  /\ line \in [Calls -> {"none", "part", "whole"}]
  /\ answer \in [Calls -> Answers \cup {"none"}]

\* The lock of an object is held by the call that is inside.
LockHeld == \A c \in Calls : place[c] \in Inside <=> holder[owner[c]] = c

\* A call has no result before it returns, and sends nothing before it may.
LinesInOrder ==
  \A c \in Calls :
    /\ place[c] # "returned" => result[c] = "none"
    /\ place[c] \in {"idle", "waiting", "locked", "connecting", "connected"} => line[c] = "none"

\* After a doubtful outcome the next call finds the doubt or the closed flag, and
\* none is past that check.
DoubtLasts ==
  \A c \in Calls : Doubtful(c) =>
    /\ doubt[owner[c]] \/ Closed(owner[c])
    /\ \A d \in Calls : owner[d] = owner[c] =>
         place[d] \notin {"connecting", "connected", "sending", "reading"}

\* A closed object has a connection only between a connect and its check.
ClosedIsEmpty ==
  \A o \in Clients : closing[o] = "closed" /\ sock[o] # NoCall =>
    \E c \in Calls : holder[o] = c /\ owner[c] = o /\ place[c] = "connected"

ClientInv ==
  ClientTypes /\ LockHeld /\ LinesInOrder /\ UnsentIsTrue /\ ConfirmedByServer /\ DoubtLasts /\ ClosedIsEmpty

-------------------------------------------------------------------------------
(* Every action keeps each part *)

\* A client that has no call yet satisfies it.
LEMMA ClientInitially == ClientInit => ClientInv
<1> SUFFICES ASSUME ClientInit PROVE ClientInv
  OBVIOUS
<1> USE ClientAssumption DEF ClientInit
<1>1. ClientTypes
  BY DEF ClientTypes, Places
<1>2. LockHeld
  BY DEF LockHeld, Inside
<1>3. LinesInOrder /\ UnsentIsTrue /\ ConfirmedByServer /\ DoubtLasts /\ ClosedIsEmpty
  BY DEF LinesInOrder, UnsentIsTrue, ConfirmedByServer, DoubtLasts, Doubtful, ClosedIsEmpty
<1> QED
  BY <1>1, <1>2, <1>3 DEF ClientInv

\* Every step keeps the types.
LEMMA TypesKept ==
  ASSUME ClientInv, [NextClient]_clientVars PROVE ClientTypes'
<1> USE ClientAssumption DEF ClientInv, ClientTypes, Places, Answers
<1>1. ASSUME NEW c \in Calls, Submit(c) PROVE ClientTypes'
  BY <1>1 DEF Submit, MoveTo, Return
<1>2. ASSUME NEW c \in Calls, TakeLock(c) PROVE ClientTypes'
  BY <1>2 DEF TakeLock, MoveTo
<1>3. ASSUME NEW c \in Calls, ClientBusy(c) PROVE ClientTypes'
  BY <1>3 DEF ClientBusy, Return, MoveTo
<1>4. ASSUME NEW c \in Calls, Check(c) PROVE ClientTypes'
  BY <1>4 DEF Check, Release, Return, MoveTo, Closed
<1>5. ASSUME NEW c \in Calls, Connect(c) PROVE ClientTypes'
  BY <1>5 DEF Connect, MoveTo
<1>6. ASSUME NEW c \in Calls, ConnectFails(c) PROVE ClientTypes'
  BY <1>6 DEF ConnectFails, Release, Return, MoveTo
<1>7. ASSUME NEW c \in Calls, CheckAgain(c) PROVE ClientTypes'
  BY <1>7 DEF CheckAgain, Release, Return, MoveTo, Disconnect, Closed
<1>8. ASSUME NEW c \in Calls, SendPart(c) PROVE ClientTypes'
  BY <1>8 DEF SendPart
<1>9. ASSUME NEW c \in Calls, SendRest(c) PROVE ClientTypes'
  BY <1>9 DEF SendRest, MoveTo
<1>10. ASSUME NEW c \in Calls, SendFails(c) PROVE ClientTypes'
  BY <1>10 DEF SendFails, Disconnect, Release, Return, MoveTo
<1>11. ASSUME NEW c \in Calls, Read(c) PROVE ClientTypes'
  <2>1. answer[c] \in Answers /\ owner[c] \in Clients
    BY <1>11 DEF Read
  <2>2. place' \in [Calls -> Places] /\ result' \in [Calls -> Answers \cup {"none", "raised"}]
    BY <1>11, <2>1 DEF Read, Release, Return, MoveTo
  <2>3. \/ UNCHANGED <<sock, broken, doubt>>
        \/ Disconnect(owner[c]) /\ doubt' = [doubt EXCEPT ![owner[c]] = TRUE]
    BY <1>11 DEF Read
  <2>4. doubt' \in [Clients -> BOOLEAN]
    BY <2>1, <2>3
  <2>5. sock' \in [Clients -> Calls \cup {NoCall}] /\ broken' \subseteq Calls
    BY <2>1, <2>3 DEF Disconnect
  <2> QED
    BY <1>11, <2>1, <2>2, <2>4, <2>5 DEF Read, Release
<1>12. ASSUME NEW c \in Calls, ReadFails(c) PROVE ClientTypes'
  BY <1>12 DEF ReadFails, Disconnect, Release, Return, MoveTo
<1>13. ASSUME NEW c \in Calls, Raises(c) PROVE ClientTypes'
  BY <1>13 DEF Raises, Disconnect, Release, Return, MoveTo
<1>14. ASSUME NEW c \in Calls, ServerAnswers(c) PROVE ClientTypes'
  BY <1>14 DEF ServerAnswers
<1>15. ASSUME NEW o \in Clients, CloseFlag(o) PROVE ClientTypes'
  BY <1>15 DEF CloseFlag
<1>16. ASSUME NEW o \in Clients, CloseSocket(o) PROVE ClientTypes'
  BY <1>16 DEF CloseSocket, Disconnect
<1>17. CASE UNCHANGED clientVars
  BY <1>17 DEF clientVars
<1> QED
  BY <1>1, <1>2, <1>3, <1>4, <1>5, <1>6, <1>7, <1>8, <1>9, <1>10, <1>11, <1>12, <1>13, <1>14, <1>15, <1>16, <1>17 DEF NextClient, CallStep

\* The lock is released by who holds it.
LEMMA LockKept ==
  ASSUME ClientInv, [NextClient]_clientVars PROVE LockHeld'
<1> USE ClientAssumption DEF ClientInv, ClientTypes, LockHeld, Inside, Places
<1>1. ASSUME NEW c \in Calls, Submit(c) PROVE LockHeld'
  BY <1>1 DEF Submit, MoveTo, Return
<1>2. ASSUME NEW c \in Calls, TakeLock(c) PROVE LockHeld'
  BY <1>2 DEF TakeLock, MoveTo
<1>3. ASSUME NEW c \in Calls, ClientBusy(c) PROVE LockHeld'
  BY <1>3 DEF ClientBusy, Return, MoveTo
<1>4. ASSUME NEW c \in Calls, Check(c) PROVE LockHeld'
  BY <1>4 DEF Check, Release, Return, MoveTo, Closed
<1>5. ASSUME NEW c \in Calls, Connect(c) PROVE LockHeld'
  BY <1>5 DEF Connect, MoveTo
<1>6. ASSUME NEW c \in Calls, ConnectFails(c) PROVE LockHeld'
  BY <1>6 DEF ConnectFails, Release, Return, MoveTo
<1>7. ASSUME NEW c \in Calls, CheckAgain(c) PROVE LockHeld'
  BY <1>7 DEF CheckAgain, Release, Return, MoveTo, Disconnect, Closed
<1>8. ASSUME NEW c \in Calls, SendPart(c) PROVE LockHeld'
  BY <1>8 DEF SendPart
<1>9. ASSUME NEW c \in Calls, SendRest(c) PROVE LockHeld'
  BY <1>9 DEF SendRest, MoveTo
<1>10. ASSUME NEW c \in Calls, SendFails(c) PROVE LockHeld'
  BY <1>10 DEF SendFails, Disconnect, Release, Return, MoveTo
<1>11. ASSUME NEW c \in Calls, Read(c) PROVE LockHeld'
  BY <1>11 DEF Read, Disconnect, Release, Return, MoveTo
<1>12. ASSUME NEW c \in Calls, ReadFails(c) PROVE LockHeld'
  BY <1>12 DEF ReadFails, Disconnect, Release, Return, MoveTo
<1>13. ASSUME NEW c \in Calls, Raises(c) PROVE LockHeld'
  BY <1>13 DEF Raises, Disconnect, Release, Return, MoveTo
<1>14. ASSUME NEW c \in Calls, ServerAnswers(c) PROVE LockHeld'
  BY <1>14 DEF ServerAnswers
<1>15. ASSUME NEW o \in Clients, CloseFlag(o) PROVE LockHeld'
  BY <1>15 DEF CloseFlag
<1>16. ASSUME NEW o \in Clients, CloseSocket(o) PROVE LockHeld'
  BY <1>16 DEF CloseSocket, Disconnect
<1>17. CASE UNCHANGED clientVars
  BY <1>17 DEF clientVars
<1> QED
  BY <1>1, <1>2, <1>3, <1>4, <1>5, <1>6, <1>7, <1>8, <1>9, <1>10, <1>11, <1>12, <1>13, <1>14, <1>15, <1>16, <1>17 DEF NextClient, CallStep

\* A line is written only between the second check and the answer.
LEMMA OrderKept ==
  ASSUME ClientInv, [NextClient]_clientVars PROVE LinesInOrder'
<1> USE ClientAssumption DEF ClientInv, ClientTypes, LinesInOrder, LockHeld, Inside
<1>1. ASSUME NEW c \in Calls, Submit(c) PROVE LinesInOrder'
  BY <1>1 DEF Submit, MoveTo, Return
<1>2. ASSUME NEW c \in Calls, TakeLock(c) PROVE LinesInOrder'
  BY <1>2 DEF TakeLock, MoveTo
<1>3. ASSUME NEW c \in Calls, ClientBusy(c) PROVE LinesInOrder'
  BY <1>3 DEF ClientBusy, Return, MoveTo
<1>4. ASSUME NEW c \in Calls, Check(c) PROVE LinesInOrder'
  BY <1>4 DEF Check, Release, Return, MoveTo, Closed
<1>5. ASSUME NEW c \in Calls, Connect(c) PROVE LinesInOrder'
  BY <1>5 DEF Connect, MoveTo
<1>6. ASSUME NEW c \in Calls, ConnectFails(c) PROVE LinesInOrder'
  BY <1>6 DEF ConnectFails, Release, Return, MoveTo
<1>7. ASSUME NEW c \in Calls, CheckAgain(c) PROVE LinesInOrder'
  BY <1>7 DEF CheckAgain, Release, Return, MoveTo, Disconnect, Closed
<1>8. ASSUME NEW c \in Calls, SendPart(c) PROVE LinesInOrder'
  BY <1>8 DEF SendPart
<1>9. ASSUME NEW c \in Calls, SendRest(c) PROVE LinesInOrder'
  BY <1>9 DEF SendRest, MoveTo
<1>10. ASSUME NEW c \in Calls, SendFails(c) PROVE LinesInOrder'
  BY <1>10 DEF SendFails, Disconnect, Release, Return, MoveTo
<1>11. ASSUME NEW c \in Calls, Read(c) PROVE LinesInOrder'
  BY <1>11 DEF Read, Disconnect, Release, Return, MoveTo
<1>12. ASSUME NEW c \in Calls, ReadFails(c) PROVE LinesInOrder'
  BY <1>12 DEF ReadFails, Disconnect, Release, Return, MoveTo
<1>13. ASSUME NEW c \in Calls, Raises(c) PROVE LinesInOrder'
  BY <1>13 DEF Raises, Disconnect, Release, Return, MoveTo
<1>14. ASSUME NEW c \in Calls, ServerAnswers(c) PROVE LinesInOrder'
  BY <1>14 DEF ServerAnswers
<1>15. ASSUME NEW o \in Clients, CloseFlag(o) PROVE LinesInOrder'
  BY <1>15 DEF CloseFlag
<1>16. ASSUME NEW o \in Clients, CloseSocket(o) PROVE LinesInOrder'
  BY <1>16 DEF CloseSocket, Disconnect
<1>17. CASE UNCHANGED clientVars
  BY <1>17 DEF clientVars
<1> QED
  BY <1>1, <1>2, <1>3, <1>4, <1>5, <1>6, <1>7, <1>8, <1>9, <1>10, <1>11, <1>12, <1>13, <1>14, <1>15, <1>16, <1>17 DEF NextClient, CallStep

\* A call that says it sent nothing wrote nothing, or the server told it so.
LEMMA UnsentKept ==
  ASSUME ClientInv, [NextClient]_clientVars PROVE UnsentIsTrue'
<1> USE ClientAssumption DEF ClientInv, ClientTypes, UnsentIsTrue, LinesInOrder, Answers
<1>1. ASSUME NEW c \in Calls, Submit(c) PROVE UnsentIsTrue'
  BY <1>1 DEF Submit, MoveTo, Return
<1>2. ASSUME NEW c \in Calls, TakeLock(c) PROVE UnsentIsTrue'
  BY <1>2 DEF TakeLock, MoveTo
<1>3. ASSUME NEW c \in Calls, ClientBusy(c) PROVE UnsentIsTrue'
  BY <1>3 DEF ClientBusy, Return, MoveTo
<1>4. ASSUME NEW c \in Calls, Check(c) PROVE UnsentIsTrue'
  BY <1>4 DEF Check, Release, Return, MoveTo, Closed
<1>5. ASSUME NEW c \in Calls, Connect(c) PROVE UnsentIsTrue'
  BY <1>5 DEF Connect, MoveTo
<1>6. ASSUME NEW c \in Calls, ConnectFails(c) PROVE UnsentIsTrue'
  BY <1>6 DEF ConnectFails, Release, Return, MoveTo
<1>7. ASSUME NEW c \in Calls, CheckAgain(c) PROVE UnsentIsTrue'
  BY <1>7 DEF CheckAgain, Release, Return, MoveTo, Disconnect, Closed
<1>8. ASSUME NEW c \in Calls, SendPart(c) PROVE UnsentIsTrue'
  BY <1>8 DEF SendPart
<1>9. ASSUME NEW c \in Calls, SendRest(c) PROVE UnsentIsTrue'
  BY <1>9 DEF SendRest, MoveTo
<1>10. ASSUME NEW c \in Calls, SendFails(c) PROVE UnsentIsTrue'
  BY <1>10 DEF SendFails, Disconnect, Release, Return, MoveTo
<1>11. ASSUME NEW c \in Calls, Read(c) PROVE UnsentIsTrue'
  BY <1>11 DEF Read, Disconnect, Release, Return, MoveTo
<1>12. ASSUME NEW c \in Calls, ReadFails(c) PROVE UnsentIsTrue'
  BY <1>12 DEF ReadFails, Disconnect, Release, Return, MoveTo
<1>13. ASSUME NEW c \in Calls, Raises(c) PROVE UnsentIsTrue'
  BY <1>13 DEF Raises, Disconnect, Release, Return, MoveTo
<1>14. ASSUME NEW c \in Calls, ServerAnswers(c) PROVE UnsentIsTrue'
  BY <1>14 DEF ServerAnswers
<1>15. ASSUME NEW o \in Clients, CloseFlag(o) PROVE UnsentIsTrue'
  BY <1>15 DEF CloseFlag
<1>16. ASSUME NEW o \in Clients, CloseSocket(o) PROVE UnsentIsTrue'
  BY <1>16 DEF CloseSocket, Disconnect
<1>17. CASE UNCHANGED clientVars
  BY <1>17 DEF clientVars
<1> QED
  BY <1>1, <1>2, <1>3, <1>4, <1>5, <1>6, <1>7, <1>8, <1>9, <1>10, <1>11, <1>12, <1>13, <1>14, <1>15, <1>16, <1>17 DEF NextClient, CallStep

\* What is confirmed is what the server answered.
LEMMA ConfirmedKept ==
  ASSUME ClientInv, [NextClient]_clientVars PROVE ConfirmedByServer'
<1> USE ClientAssumption DEF ClientInv, ClientTypes, ConfirmedByServer, LinesInOrder, Answers
<1>1. ASSUME NEW c \in Calls, Submit(c) PROVE ConfirmedByServer'
  BY <1>1 DEF Submit, MoveTo, Return
<1>2. ASSUME NEW c \in Calls, TakeLock(c) PROVE ConfirmedByServer'
  BY <1>2 DEF TakeLock, MoveTo
<1>3. ASSUME NEW c \in Calls, ClientBusy(c) PROVE ConfirmedByServer'
  BY <1>3 DEF ClientBusy, Return, MoveTo
<1>4. ASSUME NEW c \in Calls, Check(c) PROVE ConfirmedByServer'
  BY <1>4 DEF Check, Release, Return, MoveTo, Closed
<1>5. ASSUME NEW c \in Calls, Connect(c) PROVE ConfirmedByServer'
  BY <1>5 DEF Connect, MoveTo
<1>6. ASSUME NEW c \in Calls, ConnectFails(c) PROVE ConfirmedByServer'
  BY <1>6 DEF ConnectFails, Release, Return, MoveTo
<1>7. ASSUME NEW c \in Calls, CheckAgain(c) PROVE ConfirmedByServer'
  BY <1>7 DEF CheckAgain, Release, Return, MoveTo, Disconnect, Closed
<1>8. ASSUME NEW c \in Calls, SendPart(c) PROVE ConfirmedByServer'
  BY <1>8 DEF SendPart
<1>9. ASSUME NEW c \in Calls, SendRest(c) PROVE ConfirmedByServer'
  BY <1>9 DEF SendRest, MoveTo
<1>10. ASSUME NEW c \in Calls, SendFails(c) PROVE ConfirmedByServer'
  BY <1>10 DEF SendFails, Disconnect, Release, Return, MoveTo
<1>11. ASSUME NEW c \in Calls, Read(c) PROVE ConfirmedByServer'
  BY <1>11 DEF Read, Disconnect, Release, Return, MoveTo
<1>12. ASSUME NEW c \in Calls, ReadFails(c) PROVE ConfirmedByServer'
  BY <1>12 DEF ReadFails, Disconnect, Release, Return, MoveTo
<1>13. ASSUME NEW c \in Calls, Raises(c) PROVE ConfirmedByServer'
  BY <1>13 DEF Raises, Disconnect, Release, Return, MoveTo
<1>14. ASSUME NEW c \in Calls, ServerAnswers(c) PROVE ConfirmedByServer'
  BY <1>14 DEF ServerAnswers
<1>15. ASSUME NEW o \in Clients, CloseFlag(o) PROVE ConfirmedByServer'
  BY <1>15 DEF CloseFlag
<1>16. ASSUME NEW o \in Clients, CloseSocket(o) PROVE ConfirmedByServer'
  BY <1>16 DEF CloseSocket, Disconnect
<1>17. CASE UNCHANGED clientVars
  BY <1>17 DEF clientVars
<1> QED
  BY <1>1, <1>2, <1>3, <1>4, <1>5, <1>6, <1>7, <1>8, <1>9, <1>10, <1>11, <1>12, <1>13, <1>14, <1>15, <1>16, <1>17 DEF NextClient, CallStep

\* A doubtful call was the only one inside, and the check stops those that follow.
LEMMA DoubtKept ==
  ASSUME ClientInv, [NextClient]_clientVars PROVE DoubtLasts'
<1> USE ClientAssumption DEF ClientInv, ClientTypes, DoubtLasts, Doubtful, LockHeld, Inside, LinesInOrder, Closed, Answers
<1>1. ASSUME NEW c \in Calls, Submit(c) PROVE DoubtLasts'
  BY <1>1 DEF Submit, MoveTo, Return
<1>2. ASSUME NEW c \in Calls, TakeLock(c) PROVE DoubtLasts'
  BY <1>2 DEF TakeLock, MoveTo
<1>3. ASSUME NEW c \in Calls, ClientBusy(c) PROVE DoubtLasts'
  BY <1>3 DEF ClientBusy, Return, MoveTo
<1>4. ASSUME NEW c \in Calls, Check(c) PROVE DoubtLasts'
  BY <1>4 DEF Check, Release, Return, MoveTo, Closed
<1>5. ASSUME NEW c \in Calls, Connect(c) PROVE DoubtLasts'
  BY <1>5 DEF Connect, MoveTo
<1>6. ASSUME NEW c \in Calls, ConnectFails(c) PROVE DoubtLasts'
  BY <1>6 DEF ConnectFails, Release, Return, MoveTo
<1>7. ASSUME NEW c \in Calls, CheckAgain(c) PROVE DoubtLasts'
  BY <1>7 DEF CheckAgain, Release, Return, MoveTo, Disconnect, Closed
<1>8. ASSUME NEW c \in Calls, SendPart(c) PROVE DoubtLasts'
  BY <1>8 DEF SendPart
<1>9. ASSUME NEW c \in Calls, SendRest(c) PROVE DoubtLasts'
  BY <1>9 DEF SendRest, MoveTo
<1>10. ASSUME NEW c \in Calls, SendFails(c) PROVE DoubtLasts'
  BY <1>10 DEF SendFails, Disconnect, Release, Return, MoveTo
<1>11. ASSUME NEW c \in Calls, Read(c) PROVE DoubtLasts'
  BY <1>11 DEF Read, Disconnect, Release, Return, MoveTo
<1>12. ASSUME NEW c \in Calls, ReadFails(c) PROVE DoubtLasts'
  BY <1>12 DEF ReadFails, Disconnect, Release, Return, MoveTo
<1>13. ASSUME NEW c \in Calls, Raises(c) PROVE DoubtLasts'
  BY <1>13 DEF Raises, Disconnect, Release, Return, MoveTo
<1>14. ASSUME NEW c \in Calls, ServerAnswers(c) PROVE DoubtLasts'
  BY <1>14 DEF ServerAnswers
<1>15. ASSUME NEW o \in Clients, CloseFlag(o) PROVE DoubtLasts'
  BY <1>15 DEF CloseFlag
<1>16. ASSUME NEW o \in Clients, CloseSocket(o) PROVE DoubtLasts'
  BY <1>16 DEF CloseSocket, Disconnect
<1>17. CASE UNCHANGED clientVars
  BY <1>17 DEF clientVars
<1> QED
  BY <1>1, <1>2, <1>3, <1>4, <1>5, <1>6, <1>7, <1>8, <1>9, <1>10, <1>11, <1>12, <1>13, <1>14, <1>15, <1>16, <1>17 DEF NextClient, CallStep

\* What is connected after a close is disconnected by the check that follows.
LEMMA EmptyKept ==
  ASSUME ClientInv, [NextClient]_clientVars PROVE ClosedIsEmpty'
<1> USE ClientAssumption DEF ClientInv, ClientTypes, ClosedIsEmpty, LockHeld, Inside
<1>1. ASSUME NEW c \in Calls, Submit(c) PROVE ClosedIsEmpty'
  BY <1>1 DEF Submit, MoveTo, Return
<1>2. ASSUME NEW c \in Calls, TakeLock(c) PROVE ClosedIsEmpty'
  BY <1>2 DEF TakeLock, MoveTo
<1>3. ASSUME NEW c \in Calls, ClientBusy(c) PROVE ClosedIsEmpty'
  BY <1>3 DEF ClientBusy, Return, MoveTo
<1>4. ASSUME NEW c \in Calls, Check(c) PROVE ClosedIsEmpty'
  BY <1>4 DEF Check, Release, Return, MoveTo, Closed
<1>5. ASSUME NEW c \in Calls, Connect(c) PROVE ClosedIsEmpty'
  BY <1>5 DEF Connect, MoveTo
<1>6. ASSUME NEW c \in Calls, ConnectFails(c) PROVE ClosedIsEmpty'
  BY <1>6 DEF ConnectFails, Release, Return, MoveTo
<1>7. ASSUME NEW c \in Calls, CheckAgain(c) PROVE ClosedIsEmpty'
  BY <1>7 DEF CheckAgain, Release, Return, MoveTo, Disconnect, Closed
<1>8. ASSUME NEW c \in Calls, SendPart(c) PROVE ClosedIsEmpty'
  BY <1>8 DEF SendPart
<1>9. ASSUME NEW c \in Calls, SendRest(c) PROVE ClosedIsEmpty'
  BY <1>9 DEF SendRest, MoveTo
<1>10. ASSUME NEW c \in Calls, SendFails(c) PROVE ClosedIsEmpty'
  BY <1>10 DEF SendFails, Disconnect, Release, Return, MoveTo
<1>11. ASSUME NEW c \in Calls, Read(c) PROVE ClosedIsEmpty'
  BY <1>11 DEF Read, Disconnect, Release, Return, MoveTo
<1>12. ASSUME NEW c \in Calls, ReadFails(c) PROVE ClosedIsEmpty'
  BY <1>12 DEF ReadFails, Disconnect, Release, Return, MoveTo
<1>13. ASSUME NEW c \in Calls, Raises(c) PROVE ClosedIsEmpty'
  BY <1>13 DEF Raises, Disconnect, Release, Return, MoveTo
<1>14. ASSUME NEW c \in Calls, ServerAnswers(c) PROVE ClosedIsEmpty'
  BY <1>14 DEF ServerAnswers
<1>15. ASSUME NEW o \in Clients, CloseFlag(o) PROVE ClosedIsEmpty'
  BY <1>15 DEF CloseFlag
<1>16. ASSUME NEW o \in Clients, CloseSocket(o) PROVE ClosedIsEmpty'
  BY <1>16 DEF CloseSocket, Disconnect
<1>17. CASE UNCHANGED clientVars
  BY <1>17 DEF clientVars
<1> QED
  BY <1>1, <1>2, <1>3, <1>4, <1>5, <1>6, <1>7, <1>8, <1>9, <1>10, <1>11, <1>12, <1>13, <1>14, <1>15, <1>16, <1>17 DEF NextClient, CallStep

\* Part by part, every step keeps the invariant.
LEMMA ClientInductive == ClientInv /\ [NextClient]_clientVars => ClientInv'
  BY TypesKept, LockKept, OrderKept, UnsentKept, ConfirmedKept, DoubtKept, EmptyKept DEF ClientInv

\* The invariant holds of every behaviour of the client's threads.
THEOREM ClientInvariant == SpecClient => []ClientInv
  BY ClientInitially, ClientInductive, PTL DEF SpecClient

\* What a call returns is right about its line, whichever threads share the object
\* and whenever it is closed (BridgeClient.call, close).
THEOREM CallsAlwaysTrue == SpecClient => []CallsAreTrue
<1>1. ClientInv => CallsAreTrue
  BY ClientAssumption DEF ClientInv, ClientTypes, LockHeld, ClosedIsEmpty, CallsAreTrue, ClientTypeOK, NothingLeaks
<1> QED
  BY <1>1, ClientInvariant, PTL

\* An object with a doubtful outcome, and one that is closed, sends nothing more
\* (_uncertain, _closed, _disconnect).
THEOREM SilentAfterDoubt == SpecClient => NothingAfterDoubt
<1> DEFINE Silent == /\ \A c, d \in Calls :
                         Doubtful(c) /\ owner[c] = owner[d] /\ line[d] = "none" => line'[d] = "none"
                     /\ \A c \in Calls : closing[owner[c]] = "closed" => UNCHANGED line[c]
<1>1. ClientInv /\ [NextClient]_clientVars => [Silent]_clientVars
  <2> SUFFICES ASSUME ClientInv, NextClient PROVE Silent
    OBVIOUS
  <2>1. CASE \E e \in Calls : SendPart(e) \/ SendRest(e)
    <3>1. PICK e \in Calls : SendPart(e) \/ SendRest(e)
      BY <2>1
    <3>2. place[e] = "sending" /\ sock[owner[e]] # NoCall
      BY <3>1 DEF SendPart, SendRest
    <3>3. holder[owner[e]] = e
      BY <3>2 DEF ClientInv, LockHeld, Inside
    <3>4. closing[owner[e]] # "closed"
      BY <3>2, <3>3 DEF ClientInv, ClientTypes, ClosedIsEmpty
    <3>5. \A c \in Calls : Doubtful(c) => owner[c] # owner[e]
      BY <3>2 DEF ClientInv, DoubtLasts
    <3>6. \A d \in Calls \ {e} : line'[d] = line[d]
      BY <3>1 DEF SendPart, SendRest, ClientInv, ClientTypes
    <3> QED
      BY <3>4, <3>5, <3>6
  <2>2. CASE UNCHANGED line
    BY <2>2
  <2> QED
    BY <2>1, <2>2 DEF NextClient, CallStep, Submit, TakeLock, ClientBusy, Check, Connect, ConnectFails,
       CheckAgain, SendFails, Read, ReadFails, Raises, ServerAnswers, CloseFlag, CloseSocket
<1> QED
  BY <1>1, ClientInvariant, PTL DEF SpecClient, NothingAfterDoubt

-------------------------------------------------------------------------------
(* AdapterChannel *)

\* A message that waits to be accepted, or is being handled.
Waits(c) ==
  \/ \E i \in DOMAIN channel.backlog : channel.backlog[i].from = c
  \/ channel.busy # Nil /\ channel.busy.from = c

\* Requests that open an input or send one.
Acting == {"prepare", "execute", "send"}

\* What a command that has a message under way knows of it.
Carries(m) ==
  /\ m.from \in Lost \/ (command[m.from].phase = "waiting" /\ m.ask = command[m.from].ask)
  /\ m.ask.op \in Acting => command[m.from].op \in Acting

\* A command has one message under way at most, and the terminal none in the backlog.
OneMessage ==
  /\ \A i \in DOMAIN channel.backlog :
       /\ channel.backlog[i].from \in Commands /\ Carries(channel.backlog[i])
       /\ channel.busy # Nil => channel.busy.from # channel.backlog[i].from
       /\ \A j \in DOMAIN channel.backlog : channel.backlog[i].from = channel.backlog[j].from => i = j
  /\ channel.busy # Nil /\ channel.busy.from \in Commands => Carries(channel.busy)
  /\ \A i \in DOMAIN channel.typed : channel.typed[i].from = Console
  /\ \A i \in DOMAIN channel.buffer : channel.buffer[i].from = Console

\* An inspection stands behind the messages whose replies were lost before it.
InspectionsBehind ==
  /\ \A c \in Commands : command[c].gone \subseteq Lost
  /\ \A i \in DOMAIN channel.backlog :
       /\ channel.backlog[i].gone \subseteq Lost
       /\ \A j \in DOMAIN channel.backlog : i <= j => channel.backlog[j].from \notin channel.backlog[i].gone
  /\ \A i \in DOMAIN channel.typed : channel.typed[i].gone \subseteq Lost
  /\ \A i \in DOMAIN channel.buffer : \A c \in channel.buffer[i].gone : c \in Lost /\ ~Waits(c)
  /\ channel.busy # Nil => \A c \in channel.busy.gone : c \in Lost /\ ~Waits(c)
  /\ \A c \in past.inspected : c \in Lost /\ ~Waits(c)

\* Nothing was done with an input of this name, nor sent on a request of its owner.
Untouched(i) ==
  /\ state # Nil => state.id # i
  /\ i \notin past.sent /\ i \notin past.senders /\ i \notin past.settled /\ past.auto[i] = 0
  /\ \A c \in Commands : command[c].action # i

\* A command's input exists from the time on that its request was handled, ...
CommandsFresh ==
  \A c \in Commands :
    Untouched(c) \/ (command[c].op \in Acting /\ command[c].phase \in {"waiting", "done"} /\ ~Waits(c))

ConsoleExecutes(m) == m.from = Console /\ m.ask.op \in Acting

\* ... and so does that of the terminal, which is asked for once.
ConsoleFresh ==
  LET typed == {i \in DOMAIN channel.typed : ConsoleExecutes(channel.typed[i])}
      read == {i \in DOMAIN channel.buffer : ConsoleExecutes(channel.buffer[i])}
      busy == channel.busy # Nil /\ ConsoleExecutes(channel.busy)
  IN /\ \A i, j \in typed : i = j
     /\ \A i, j \in read : i = j
     /\ typed # {} => read = {} /\ ~busy
     /\ read # {} => ~busy
     /\ typed # {} \/ read # {} \/ busy => Console \in past.executed /\ Untouched(Console)
     /\ Console \notin past.executed => Untouched(Console)

\* What a command is about to ask for settles the input it is about.
Settling(c) ==
  \/ /\ command[c].ask.op = "verify" /\ command[c].ask.packet \in DOMAIN packets
     /\ packets[command[c].ask.packet].action = command[c].action
  \/ /\ command[c].ask.op = "finalize"
     /\ \/ command[c].action \in past.settled
        \/ state # Nil /\ state.id = command[c].action /\ state.status = "verified_pending_log"

AsksRightly ==
  \A c \in Commands :
    /\ command[c].phase = "idle" => command[c].action = Nil
    /\ command[c].phase \in {"connecting", "waiting"} =>
         /\ command[c].ask \in Asked
         /\ IF command[c].action = Nil THEN command[c].ask.op = command[c].op
            ELSE command[c].op = "bridge_preflight" /\ Settling(c)

\* The terminal's one request that acts is still to be handled.
ConsoleAsks ==
  \/ \E i \in DOMAIN channel.typed : ConsoleExecutes(channel.typed[i])
  \/ \E i \in DOMAIN channel.buffer : ConsoleExecutes(channel.buffer[i])
  \/ channel.busy # Nil /\ ConsoleExecutes(channel.busy)

\* The request that may have opened an input of this name is past.
Over(i) ==
  IF i = Console THEN Console \in past.executed /\ ~ConsoleAsks
  ELSE /\ ~Waits(i)
       /\ command[i].phase = "done" \/ (command[i].phase = "waiting" /\ command[i].op \in Acting)

\* An input that was not sent, and that no request can send any more.
Unsendable(i) ==
  /\ Over(i) /\ i \notin past.sent
  /\ state # Nil /\ state.id = i => state.status # "prepared"

Unsent(p) == p.status \in {"prepared", "preparing_dispatch"} \/ p.response = "not_sent"

\* What state.json says of the pending input is so, ...
StateTrue ==
  state # Nil => /\ state.response = "ok" => state.id \in past.sent
                 /\ Unsent(state) => state.id \notin past.sent

\* ... and what was reported.
ReportTrue(c) ==
  LET r == command[c].report
  IN /\ command[c].phase # "done" => r = Printed(NoReport)
     /\ r.sent = "no" =>
          /\ c \notin past.senders /\ ~Waits(c)
          /\ \A i \in {c, r.of} \cap Ids : Unsendable(i) \/ (r.open /\ i = r.of)
     /\ r.sent = "yes" => r.of \in past.sent
     /\ r.status = "pending_recovered" => command[c].action \in past.settled

Told == StateTrue /\ \A c \in Commands : ReportTrue(c)

\* Commands about to submit a result for an input.
About(i) ==
  {c \in Commands : command[c].phase = "connecting" /\ command[c].ask.op = "verify" /\ command[c].action = i}

\* Each of them, and each submission, was paid for with one try.
Counted ==
  \A i \in Ids :
    /\ past.auto[i] + Cardinality(About(i)) <= RECOVERY_LIMIT
    /\ state # Nil /\ state.id = i => past.auto[i] + Cardinality(About(i)) <= state.tries

ChannelInv ==
  /\ ChannelTypeOK
  /\ OneMessage /\ InspectionsBehind /\ CommandsFresh /\ ConsoleFresh
  /\ AsksRightly /\ Told /\ Counted

-------------------------------------------------------------------------------
(* What a request can do *)

\* What becomes of the pending input: it stays, is opened, sent, settled or withdrawn.
Stays(e) == e.pending = state /\ e.sent = {} /\ e.settled = {}

Changes(e) ==
  /\ state # Nil /\ e.sent = {} /\ e.settled \subseteq {state.id}
  /\ e.pending \in Pendings /\ e.pending.id = state.id /\ e.pending.response = state.response
  /\ e.pending.tries >= state.tries
  /\ e.pending.status = state.status \/ e.pending.status = "verified_pending_log"

Dispatched(e, i) ==
  /\ e.pending \in Pendings /\ e.pending.id = i
  /\ e.sent \subseteq {i} /\ e.settled = {}
  /\ e.pending.response = "ok" => e.sent = {i}
  /\ Unsent(e.pending) => e.sent = {}

Opens(e, c, ask) == ask.op \in {"prepare", "execute"} /\ state = Nil /\ Dispatched(e, c)

Sends(e, ask) ==
  /\ ask.op = "send" /\ state # Nil /\ state.status = "prepared"
  /\ Dispatched(e, state.id) /\ e.pending.tries >= state.tries

Settles(e, ask) ==
  /\ state # Nil /\ e.pending = Nil /\ e.sent = {} /\ e.settled = {state.id}
  /\ \/ ask.op = "verify" /\ packets[ask.packet].action = state.id
     \/ ask.op = "finalize" /\ state.status = "verified_pending_log"
     \/ ask.op = "not_performed"

Withdraws(e) ==
  /\ state # Nil /\ state.status \in {"prepared", "preparing_dispatch"}
  /\ e.pending = Nil /\ e.sent = {} /\ e.settled = {}

Moves(e, c, ask) ==
  Stays(e) \/ Changes(e) \/ Opens(e, c, ask) \/ Sends(e, ask) \/ Settles(e, ask) \/ Withdraws(e)

\* What the answer says of it.
AnswerHolds(e, c, ask) ==
  LET a == e.answer IN
  /\ a.sent \in {"absent", "no", "yes", "unknown"}
  /\ a.pending = Nil \/ (/\ e.pending # Nil
                         /\ a.pending = [id |-> e.pending.id, status |-> e.pending.status])
  /\ a.sent = "no" => e.sent = {} /\ (e.pending # Nil => a.pending # Nil /\ Unsent(e.pending))
  /\ a.sent = "yes" => a.pending # Nil /\ e.pending.response = "ok"
  /\ ask.op = "bridge_preflight" /\ a.pending # Nil /\ a.status \in {"recoverable_review", "bridge_access_blocked"} =>
       /\ state # Nil /\ e.pending = [state EXCEPT !.tries = @ + 1] /\ e.pending.tries <= RECOVERY_LIMIT
  /\ a.status = "verified" => Settles(e, ask)
  /\ a.status = "awaiting_fresh_review" => Opens(e, c, ask) \/ Sends(e, ask)
  /\ a.status \notin {"pending_recovered", "reply_unknown"}

\* A refusal spends one try of the input that is pending, if there is one.
Retries(e, p) ==
  /\ p = Nil => e.pending = Nil /\ e.answer.pending = Nil
  /\ p # Nil => /\ e.pending \in Pendings /\ e.pending # Nil
                /\ e.pending.id = p.id /\ e.pending.status = p.status
                /\ e.pending.response = p.response /\ e.pending.tries >= p.tries
                /\ e.answer.pending = [id |-> p.id, status |-> p.status]
  /\ e.sent = {} /\ e.settled = {} /\ e.up = TRUE /\ e.armed = adapter.armed
  /\ e.answer.sent \in {"no", "yes", "unknown"}
  /\ e.answer.sent = "yes" => p # Nil /\ p.response = "ok"
  /\ e.answer.sent = "no" /\ p # Nil => Unsent(p)
  /\ e.answer.status \in {"recoverable_review", "recovery_budget_exceeded"}
  /\ e.answer.status = "recoverable_review" /\ p # Nil =>
       e.pending = [p EXCEPT !.tries = @ + 1] /\ e.pending.tries <= RECOVERY_LIMIT

LEMMA RefusedHolds ==
  ASSUME NEW p, p \in Pendings \/ p = Nil
  PROVE  Retries(Refused(p), p)
<1> DEFINE e == Refused(p)
<1>1. CASE p = Nil
  <2>1. e = Effect(Nil, TRUE, adapter.armed, Answer("recoverable_review", "no", Nil), {}, {})
    BY <1>1 DEF Refused, Delivery, BudgetExceeded
  <2> HIDE DEF e
  <2>2. Retries(e, p)
    BY <1>1, <2>1 DEF Effect, Answer, Retries
  <2> QED
    BY <2>2 DEF e
<1>2. CASE p # Nil
  <2> DEFINE q == IF BudgetExceeded(p) THEN p ELSE [p EXCEPT !.tries = @ + 1]
  <2>1. p \in Pendings
    BY <1>2
  <2>2. /\ q \in Pendings /\ q.id = p.id /\ q.status = p.status /\ q.response = p.response /\ q.tries >= p.tries
        /\ q.late = p.late
    BY <2>1 DEF Pendings
  <2>3. q # Nil
    BY <2>2, ChannelAssumption
  <2>4. e = Effect(q, TRUE, adapter.armed,
                   Answer(IF BudgetExceeded(q) THEN "recovery_budget_exceeded" ELSE "recoverable_review", Delivery(q), q), {}, {})
    BY <1>2 DEF Refused
  <2>5. /\ Delivery(q) \in {"no", "yes", "unknown"} /\ (Delivery(q) = "yes" => q.response = "ok")
        /\ Delivery(q) = "no" => Unsent(q)
    BY <2>2, <2>3 DEF Delivery, Unsent, Pendings, Statuses
  <2>6. ~BudgetExceeded(q) => q = [p EXCEPT !.tries = @ + 1] /\ q.tries <= RECOVERY_LIMIT
    BY <2>2, <2>3, ChannelAssumption DEF BudgetExceeded, Pendings
  <2> HIDE DEF q
  <2>7. /\ e.pending = q /\ e.sent = {} /\ e.settled = {} /\ e.up = TRUE /\ e.armed = adapter.armed
        /\ e.answer.sent = Delivery(q) /\ e.answer.pending = [id |-> q.id, status |-> q.status]
        /\ e.answer.status = IF BudgetExceeded(q) THEN "recovery_budget_exceeded" ELSE "recoverable_review"
    BY <2>3, <2>4 DEF Effect, Answer
  <2> HIDE DEF e
  <2>9. Unsent(q) => Unsent(p)
    BY <2>2 DEF Unsent
  <2>8. Retries(e, p)
    BY <1>2, <2>2, <2>3, <2>5, <2>6, <2>7, <2>9 DEF Retries
  <2> QED
    BY <2>8 DEF e
<1> QED
  BY <1>1, <1>2

\* An answer that refuses a request tells of the input that stays pending.
LEMMA RefusalHolds ==
  ASSUME NEW p, p \in Pendings \/ p = Nil, NEW e, e = Refused(p), NEW c, NEW ask,
         p = state \/ ask.op # "bridge_preflight"
  PROVE  Retries(e, p) /\ AnswerHolds(e, c, ask)
<1>1. Retries(e, p)
  BY RefusedHolds
<1>2. CASE p = Nil
  BY <1>1, <1>2 DEF Retries, AnswerHolds
<1>3. CASE p # Nil
  <2>1. e.answer.pending = Nil \/
          (e.pending # Nil /\ e.answer.pending = [id |-> e.pending.id, status |-> e.pending.status])
    BY <1>1, <1>3 DEF Retries
  <2>2. e.answer.sent = "yes" => e.answer.pending # Nil /\ e.pending.response = "ok"
    <3>1. p.id \in Ids /\ p.status \in Statuses
      BY <1>3 DEF Pendings
    <3>2. [id |-> p.id, status |-> p.status] \in [id : Ids, status : Statuses]
      BY <3>1
    <3> QED
      BY <1>1, <1>3, <3>2, ChannelAssumption DEF Retries
  <2>3. ask.op = "bridge_preflight" /\ e.answer.status \in {"recoverable_review", "bridge_access_blocked"} =>
          state # Nil /\ e.pending = [state EXCEPT !.tries = @ + 1] /\ e.pending.tries <= RECOVERY_LIMIT
    BY <1>1, <1>3 DEF Retries
  <2>4. /\ e.answer.sent \in {"no", "yes", "unknown"} /\ e.sent = {}
        /\ e.answer.status \in {"recoverable_review", "recovery_budget_exceeded"}
    BY <1>1 DEF Retries
  <2>5. /\ e.answer.status \notin {"verified", "awaiting_fresh_review"}
        /\ e.answer.status \notin {"pending_recovered", "reply_unknown"}
    BY <2>4
  <2>6. e.answer.sent \in {"absent", "no", "yes", "unknown"}
    BY <2>4
  <2>9. e.answer.sent = "no" => e.sent = {} /\ (e.pending # Nil => e.answer.pending # Nil /\ Unsent(e.pending))
    <3>1. p.id \in Ids /\ p.status \in Statuses
      BY <1>3 DEF Pendings
    <3>2. [id |-> p.id, status |-> p.status] # Nil
      BY <3>1, ChannelAssumption
    <3>3. Unsent(p) => Unsent(e.pending)
      BY <1>1, <1>3 DEF Retries, Unsent
    <3> QED
      BY <1>1, <1>3, <3>2, <3>3 DEF Retries
  <2>7. e.answer.sent = "yes" => e.answer.pending # Nil /\ e.pending.response = "ok"
    BY <2>2
  <2>8. ask.op = "bridge_preflight" /\ e.answer.pending # Nil
          /\ e.answer.status \in {"recoverable_review", "bridge_access_blocked"} =>
          state # Nil /\ e.pending = [state EXCEPT !.tries = @ + 1] /\ e.pending.tries <= RECOVERY_LIMIT
    BY <2>3
  <2> QED
    BY <1>1, <2>1, <2>5, <2>6, <2>7, <2>8, <2>9 DEF AnswerHolds
<1> QED
  BY <1>2, <1>3

\* What a request comes to.
Holds(e, c, ask) ==
  /\ Moves(e, c, ask) /\ AnswerHolds(e, c, ask)
  /\ e.up \in BOOLEAN /\ e.armed \in BOOLEAN

\* The pending input stays, or is tried once more.
LEMMA RefusalMoves ==
  ASSUME ChannelTypeOK, NEW e, e = Refused(state), NEW c, NEW ask
  PROVE  Holds(e, c, ask)
<1>1. (state \in Pendings \/ state = Nil) /\ adapter.armed \in BOOLEAN
  BY DEF ChannelTypeOK
<1>2. Retries(e, state) /\ AnswerHolds(e, c, ask)
  BY <1>1, RefusalHolds
<1>3. state = Nil => Stays(e)
  BY <1>2 DEF Stays, Retries
<1>4. state # Nil => Changes(e)
  BY <1>2 DEF Changes, Retries
<1>5. e.up \in BOOLEAN /\ e.armed \in BOOLEAN
  BY <1>1, <1>2 DEF Retries
<1> QED
  BY <1>2, <1>3, <1>4, <1>5 DEF Moves, Holds

\* send: what may come of an input that is still prepared.
LEMMA SentHolds ==
  ASSUME ChannelTypeOK, NEW c \in Ids, NEW ask, NEW p \in Pendings, p.status = "prepared",
         \/ ask.op = "execute" /\ state = Nil /\ p.id = c /\ p.response = Nil
         \/ ask.op = "send" /\ state = p,
         NEW e \in Sent(p)
  PROVE  Holds(e, c, ask)
<1> DEFINE as(status, response) == [p EXCEPT !.status = status, !.response = response]
<1>0. p # Nil /\ p.id \in Ids
  BY ChannelAssumption DEF Pendings
<1>1. \A s \in Statuses, r \in {Nil, "ok", "not_sent"} :
        /\ as(s, r) \in Pendings /\ as(s, r) # Nil /\ as(s, r).id = p.id /\ as(s, r).response = r
        /\ as(s, r).status = s /\ as(s, r).tries = p.tries
  <2> SUFFICES ASSUME NEW s \in Statuses, NEW r \in {Nil, "ok", "not_sent"}
               PROVE  /\ as(s, r) \in Pendings /\ as(s, r) # Nil /\ as(s, r).id = p.id /\ as(s, r).response = r
                      /\ as(s, r).status = s /\ as(s, r).tries = p.tries
    OBVIOUS
  <2>1. as(s, r) \in Pendings /\ as(s, r).id = p.id /\ as(s, r).response = r
        /\ as(s, r).status = s /\ as(s, r).tries = p.tries
    BY DEF Pendings
  <2> QED
    BY <2>1, ChannelAssumption
<1>2. ASSUME Dispatched(e, p.id), e.pending.tries >= p.tries
      PROVE  Moves(e, c, ask) /\ (Opens(e, c, ask) \/ Sends(e, ask))
  BY <1>0, <1>2 DEF Moves, Opens, Sends
\* It is refused, ...
<1>3. ASSUME NEW q, q \in Pendings, q.id = p.id, q.status \in {"prepared", "preparing_dispatch"},
             q.response = Nil, q.tries = p.tries, e = Refused(q)
      PROVE  Holds(e, c, ask)
  <2>1. Retries(e, q) /\ AnswerHolds(e, c, ask)
    BY <1>3, RefusalHolds
  <2>2. q # Nil
    BY <1>3, ChannelAssumption
  <2>3. /\ e.pending \in Pendings /\ e.pending.id = p.id /\ e.pending.response = Nil /\ e.pending.tries >= p.tries
        /\ e.sent = {} /\ e.settled = {} /\ e.up = TRUE /\ e.armed = adapter.armed
    BY <1>3, <2>1, <2>2 DEF Retries
  <2>4. Dispatched(e, p.id)
    BY <2>3, ChannelAssumption DEF Dispatched
  <2>5. e.armed \in BOOLEAN
    BY <2>3 DEF ChannelTypeOK
  <2> QED
    BY <1>2, <2>1, <2>3, <2>4, <2>5 DEF Holds
\* ... or the bridge is lost, or it is sent.
<1>4. ASSUME NEW q \in Pendings, q.id = p.id, q.status \in {"prepared", "attempted"}, q.tries = p.tries,
             q.status = "prepared" => q.response = Nil, NEW S \in SUBSET {p.id}, NEW up \in BOOLEAN, NEW a,
             e = Effect(q, up, up, a, S, {}),
             q.response = "ok" => S = {p.id}, q.status = "prepared" \/ q.response = "not_sent" => S = {},
             \/ a = Answer("awaiting_fresh_review", "yes", q) /\ q.response = "ok"
             \/ a = Answer("transport_stopped", Delivery(q), q) /\ q.response # "ok"
      PROVE  Holds(e, c, ask)
  <2>1. q # Nil /\ q.response \in {Nil, "ok", "not_sent"}
    BY ChannelAssumption DEF Pendings
  <2>2. q.response # "ok" =>
          Delivery(q) = IF q.status = "prepared" \/ q.response = "not_sent" THEN "no" ELSE "unknown"
    BY <1>4, <2>1, ChannelAssumption DEF Delivery
  <2>3. /\ e.pending = q /\ e.up = up /\ e.armed = up /\ e.answer = a /\ e.sent = S /\ e.settled = {}
    BY <1>4 DEF Effect
  <2>6. p.tries \in Nat
    BY DEF Pendings
  <2>4. Dispatched(e, p.id) /\ e.pending.tries >= p.tries
    <3>1. Unsent(q) => S = {}
      BY <1>4, ChannelAssumption DEF Unsent
    <3> QED
      BY <1>4, <2>3, <2>6, <3>1 DEF Dispatched
  <2>5. Moves(e, c, ask) /\ (Opens(e, c, ask) \/ Sends(e, ask))
    BY <1>2, <2>4
  <2>7. [id |-> q.id, status |-> q.status] # Nil
    BY <1>0, <1>4, ChannelAssumption DEF Statuses
  <2>8. ask.op # "bridge_preflight"
    OBVIOUS
  <2>9. CASE q.response = "ok"
    <3>1. a.status = "awaiting_fresh_review" /\ a.sent = "yes" /\ a.pending = [id |-> q.id, status |-> q.status]
      BY <1>4, <2>1, <2>9 DEF Answer
    <3>2. AnswerHolds(e, c, ask)
      BY <2>1, <2>3, <2>5, <2>7, <2>8, <2>9, <3>1 DEF AnswerHolds
    <3> QED
      BY <2>3, <2>5, <3>2 DEF Holds
  <2>10. CASE q.response # "ok"
    <3>1. /\ a.status = "transport_stopped" /\ a.pending = [id |-> q.id, status |-> q.status]
          /\ a.sent = IF q.status = "prepared" \/ q.response = "not_sent" THEN "no" ELSE "unknown"
      BY <1>4, <2>1, <2>2, <2>10 DEF Answer
    <3>3. q.status = "prepared" \/ q.response = "not_sent" => Unsent(q) /\ S = {}
      BY <1>4 DEF Unsent
    <3>2. AnswerHolds(e, c, ask)
      BY <2>1, <2>3, <2>7, <2>8, <3>1, <3>3 DEF AnswerHolds
    <3> QED
      BY <2>3, <2>5, <3>2 DEF Holds
  <2> QED
    BY <2>1, <2>9, <2>10
<1>5. CASE e = Refused(p)
  <2>1. CASE state = p
    BY <1>5, <2>1, RefusalMoves
  <2>2. CASE p.response = Nil
    BY <1>3, <1>5, <2>2
  <2> QED
    BY <2>1, <2>2
<1>6. CASE e = Refused(as("preparing_dispatch", Nil))
  <2>1. /\ as("preparing_dispatch", Nil) \in Pendings /\ as("preparing_dispatch", Nil).id = p.id
        /\ as("preparing_dispatch", Nil).response = Nil /\ as("preparing_dispatch", Nil).tries = p.tries
        /\ as("preparing_dispatch", Nil).status = "preparing_dispatch"
    BY <1>1 DEF Statuses
  <2> HIDE DEF as
  <2> QED
    BY <1>3, <1>6, <2>1
<1>7. CASE e = Effect(as("attempted", "ok"), TRUE, TRUE,
                      Answer("awaiting_fresh_review", "yes", as("attempted", "ok")), {p.id}, {})
  <2>1. /\ as("attempted", "ok") \in Pendings /\ as("attempted", "ok").id = p.id
        /\ as("attempted", "ok").response = "ok" /\ as("attempted", "ok").tries = p.tries
        /\ as("attempted", "ok").status = "attempted"
    BY <1>1 DEF Statuses
  <2> HIDE DEF as
  <2> QED
    BY <1>4, <1>7, <2>1
<1>8. ASSUME NEW q \in Pendings, q.id = p.id, q.status = "attempted", q.tries = p.tries,
             q.response \in {Nil, "not_sent"}, NEW S \in SUBSET {p.id}, q.response = "not_sent" => S = {},
             e = Stopped(q, S)
      PROVE  Holds(e, c, ask)
  <2>1. q.response # "ok"
    BY <1>8, ChannelAssumption
  <2>2. e = Effect(q, FALSE, FALSE, Answer("transport_stopped", Delivery(q), q), S, {})
    BY <1>8 DEF Stopped
  <2> QED
    BY <1>4, <1>8, <2>1, <2>2
<1>9. CASE e = Stopped(p, {}) /\ state = p
  <2>1. e = Effect(state, FALSE, FALSE, Answer("transport_stopped", "no", p), {}, {})
    BY <1>9 DEF Stopped, Delivery
  <2>2. [id |-> p.id, status |-> p.status] # Nil
    BY <1>0, ChannelAssumption DEF Statuses
  <2>3. /\ e.pending = p /\ e.up = FALSE /\ e.armed = FALSE /\ e.sent = {} /\ e.settled = {}
        /\ e.answer = [status |-> "transport_stopped", sent |-> "no", pending |-> [id |-> p.id, status |-> p.status]]
    BY <1>0, <1>9, <2>1 DEF Effect, Answer
  <2>4. AnswerHolds(e, c, ask)
    BY <1>0, <1>9, <2>2, <2>3 DEF AnswerHolds, Unsent
  <2> QED
    BY <1>9, <2>3, <2>4 DEF Moves, Stays, Holds
<1>10. CASE e = Stopped(p, {}) /\ state # p
  <2>1. p = as("prepared", Nil)
    BY <1>10 DEF Pendings
  <2> HIDE DEF as
  <2>2. e = Effect(as("prepared", Nil), FALSE, FALSE,
                   Answer("transport_stopped", Delivery(as("prepared", Nil)), as("prepared", Nil)), {}, {})
    BY <1>10, <2>1 DEF Stopped
  <2>3. /\ as("prepared", Nil) \in Pendings /\ as("prepared", Nil).id = p.id
        /\ as("prepared", Nil).response = Nil /\ as("prepared", Nil).tries = p.tries
        /\ as("prepared", Nil).status = "prepared"
    BY <1>1 DEF Statuses
  <2> QED
    BY <1>4, <2>2, <2>3, ChannelAssumption
<1> QED
  <2>1. e \in Sent(p)
    OBVIOUS
  <2>2. \/ e = Refused(p) \/ e = Stopped(p, {}) \/ e = Refused(as("preparing_dispatch", Nil))
        \/ e = Effect(as("attempted", "ok"), TRUE, TRUE,
                      Answer("awaiting_fresh_review", "yes", as("attempted", "ok")), {p.id}, {})
        \/ e = Stopped(as("attempted", "not_sent"), {})
        \/ e = Stopped(as("attempted", Nil), {}) \/ e = Stopped(as("attempted", Nil), {p.id})
    BY <2>1 DEF Sent
  <2>3. /\ as("attempted", "not_sent") \in Pendings /\ as("attempted", "not_sent").id = p.id
        /\ as("attempted", "not_sent").response = "not_sent" /\ as("attempted", "not_sent").tries = p.tries
        /\ as("attempted", "not_sent").status = "attempted"
    BY <1>1 DEF Statuses
  <2>4. /\ as("attempted", Nil) \in Pendings /\ as("attempted", Nil).id = p.id
        /\ as("attempted", Nil).response = Nil /\ as("attempted", Nil).tries = p.tries
        /\ as("attempted", Nil).status = "attempted"
    BY <1>1 DEF Statuses
  <2> HIDE DEF as
  <2>5. CASE e = Stopped(as("attempted", "not_sent"), {})
    <3> DEFINE q == as("attempted", "not_sent")
    <3>1. q \in Pendings /\ q.id = p.id /\ q.status = "attempted" /\ q.tries = p.tries /\ q.response = "not_sent"
      BY <2>3
    <3>2. e = Stopped(q, {})
      BY <2>5
    <3> HIDE DEF q
    <3>3. {} \in SUBSET {p.id} /\ q.response \in {Nil, "not_sent"}
      BY <3>1
    <3> QED
      BY <1>8, <3>1, <3>2, <3>3
  <2>6. CASE e = Stopped(as("attempted", Nil), {}) \/ e = Stopped(as("attempted", Nil), {p.id})
    BY <1>8, <2>4, <2>6, ChannelAssumption
  <2> QED
    BY <1>5, <1>6, <1>7, <1>9, <1>10, <2>2, <2>5, <2>6

LEMMA OpenInputIs ==
  ASSUME NEW c \in Ids
  PROVE  LET p == OpenInput(c, "prepared", Nil)
         IN p \in Pendings /\ p # Nil /\ p.id = c /\ p.status = "prepared" /\ p.response = Nil
<1>1. OpenInput(c, "prepared", Nil) \in Pendings
  BY DEF OpenInput, Pendings, Statuses
<1> QED
  BY <1>1, ChannelAssumption DEF OpenInput

\* execute, and prepare alone.
LEMMA ExecutedHolds ==
  ASSUME ChannelTypeOK, NEW c \in Ids, NEW ask \in Asked, state = Nil, NEW e,
         \/ ask.op = "execute" /\ e \in Executed(c)
         \/ ask.op = "prepare" /\ e \in Prepared(c)
  PROVE  Holds(e, c, ask)
<1> DEFINE p == OpenInput(c, "prepared", Nil)
<1>1. p \in Pendings /\ p # Nil /\ p.id = c /\ p.status = "prepared" /\ p.response = Nil
  BY OpenInputIs
<1> HIDE DEF p
<1>2. CASE e = Refused(Nil)
  BY <1>2, RefusalMoves
<1>3. CASE ask.op = "execute" /\ e \in Sent(p)
  BY <1>1, <1>3, SentHolds
<1>4. CASE ask.op = "prepare" /\ e = Effect(p, TRUE, adapter.armed, Answer("prepared", "no", p), {}, {})
  <2>1. /\ e.pending = p /\ e.up = TRUE /\ e.armed = adapter.armed /\ e.sent = {} /\ e.settled = {}
        /\ e.answer.status = "prepared" /\ e.answer.sent = "no"
        /\ e.answer.pending = [id |-> p.id, status |-> p.status]
    BY <1>1, <1>4 DEF Effect, Answer
  <2>2. [id |-> p.id, status |-> p.status] # Nil
    BY <1>1, ChannelAssumption DEF Statuses
  <2>3. Opens(e, c, ask)
    BY <1>1, <1>4, <2>1, ChannelAssumption DEF Opens, Dispatched
  <2>4. Unsent(e.pending)
    BY <1>1, <2>1 DEF Unsent
  <2>5. AnswerHolds(e, c, ask)
    BY <1>1, <1>4, <2>1, <2>2, <2>4 DEF AnswerHolds
  <2> QED
    BY <2>1, <2>3, <2>5 DEF Moves, Holds, ChannelTypeOK
<1> QED
  BY <1>2, <1>3, <1>4 DEF Executed, Prepared, p

\* finalize.
LEMMA FinalizedHolds ==
  ASSUME ChannelTypeOK, NEW c, NEW ask, state # Nil, NEW e \in Finalized(state),
         \/ ask.op = "verify" /\ state.status = "attempted" /\ packets[ask.packet].action = state.id
         \/ ask.op = "finalize" /\ state.status = "verified_pending_log"
         \/ ask.op = "not_performed"
  PROVE  Holds(e, c, ask)
<1>1. state \in Pendings /\ adapter.armed \in BOOLEAN
  BY DEF ChannelTypeOK
<1>2. ASSUME NEW up \in BOOLEAN, NEW armed \in BOOLEAN,
             NEW a \in {Answer("verified", "absent", Nil), Answer("run_complete", "no", Nil)},
             e = Effect(Nil, up, armed, a, {}, {state.id})
      PROVE  Holds(e, c, ask)
  <2>1. /\ e.pending = Nil /\ e.up = up /\ e.armed = armed /\ e.sent = {} /\ e.settled = {state.id}
        /\ e.answer.sent \in {"absent", "no"} /\ e.answer.pending = Nil
        /\ e.answer.status \in {"verified", "run_complete"}
    BY <1>2 DEF Effect, Answer
  <2>2. Settles(e, ask)
    BY <2>1 DEF Settles
  <2>3. AnswerHolds(e, c, ask)
    BY <2>1, <2>2 DEF AnswerHolds
  <2>4. e.up \in BOOLEAN /\ e.armed \in BOOLEAN
    BY <2>1
  <2> QED
    BY <2>2, <2>3, <2>4 DEF Moves, Holds
<1>3. ASSUME e = Refused([state EXCEPT !.status = "verified_pending_log"])
      PROVE  Holds(e, c, ask)
  <2> DEFINE p == [state EXCEPT !.status = "verified_pending_log"]
  <2>1. /\ p \in Pendings /\ p.id = state.id /\ p.response = state.response /\ p.tries = state.tries
        /\ p.status = "verified_pending_log"
    BY <1>1 DEF Pendings, Statuses
  <2>2. p # Nil
    BY <2>1, ChannelAssumption
  <2>3. Retries(e, p) /\ AnswerHolds(e, c, ask)
    BY <1>3, <2>1, RefusalHolds
  <2> HIDE DEF p
  <2>4. Changes(e)
    <3>1. e.pending.status = "verified_pending_log" /\ e.pending.id = state.id
      BY <2>1, <2>2, <2>3 DEF Retries
    <3> QED
      BY <2>1, <2>2, <2>3, <3>1 DEF Retries, Changes
  <2>5. e.up \in BOOLEAN /\ e.armed \in BOOLEAN
    BY <1>1, <2>3 DEF Retries
  <2> QED
    BY <2>3, <2>4, <2>5 DEF Moves, Holds
<1> QED
  BY <1>1, <1>2, <1>3 DEF Finalized

\* An answer that changes nothing.
LEMMA SayingHolds ==
  ASSUME ChannelTypeOK, NEW armed \in BOOLEAN, NEW up \in BOOLEAN, NEW status, NEW sent \in {"absent", "no"},
         NEW p \in {state, Nil}, sent = "no" => state = Nil,
         status \in {"summary", "bridge_access_ready", "bridge_access_blocked", "armed_codex_reviewed",
                    "unresolved", "stopped", "transport_stopped"},
         NEW e, e = Effect(state, up, armed, Answer(status, sent, p), {}, {}), NEW c, NEW ask,
         p = Nil \/ ask.op # "bridge_preflight"
  PROVE  Holds(e, c, ask)
<1>1. /\ e.pending = state /\ e.up = up /\ e.armed = armed /\ e.sent = {} /\ e.settled = {}
      /\ e.answer.status = status /\ e.answer.sent = sent
      /\ p = Nil => e.answer.pending = Nil
      /\ p # Nil => state # Nil /\ e.answer.pending = [id |-> state.id, status |-> state.status]
  BY DEF Effect, Answer
<1>2. AnswerHolds(e, c, ask)
  BY <1>1 DEF AnswerHolds
<1> QED
  BY <1>1, <1>2 DEF Moves, Stays, Holds

\* What _handle does, operation by operation.
LEMMA HandledHolds ==
  ASSUME ChannelTypeOK, NEW c \in Ids, NEW ask \in Asked, NEW e \in Handled(c, ask)
  PROVE  Holds(e, c, ask)
<1>1. (state \in Pendings \/ state = Nil) /\ adapter.armed \in BOOLEAN
  BY DEF ChannelTypeOK
<1>2. CASE e = Refused(state)
  BY <1>2, RefusalMoves
<1>3. CASE ask.op = "summary"
  <2>1. e = Effect(state, TRUE, adapter.armed, Answer("summary", "absent", state), {}, {})
    BY <1>3 DEF Handled, Summary, Saying
  <2> QED
    BY <1>1, <1>3, <2>1, SayingHolds
<1>4. CASE ask.op = "bridge_preflight"
  <2> SUFFICES ASSUME e # Refused(state)
               PROVE  Holds(e, c, ask)
    BY <1>2
  <2>1. PICK s \in {"bridge_access_ready", "bridge_access_blocked"} :
          e = Effect(state, TRUE, adapter.armed, Answer(s, "no", Nil), {}, {})
    BY <1>4 DEF Handled, BridgePreflight, Saying
  <2>2. state = Nil
    BY <1>4, <2>1 DEF Handled, BridgePreflight, Idle
  <2> QED
    BY <1>1, <2>1, <2>2, SayingHolds
<1>5. CASE ask.op = "arm"
  <2> SUFFICES ASSUME e # Refused(state)
               PROVE  Holds(e, c, ask)
    BY <1>2
  <2>1. Idle /\ (\/ e = [Saying(Answer("armed_codex_reviewed", "absent", Nil)) EXCEPT !.armed = TRUE]
                 \/ e = Stopped(Nil, {}))
    BY <1>5 DEF Handled, Armed
  <2>2. CASE e = [Saying(Answer("armed_codex_reviewed", "absent", Nil)) EXCEPT !.armed = TRUE]
    <3>1. e = Effect(state, TRUE, TRUE, Answer("armed_codex_reviewed", "absent", Nil), {}, {})
      BY <2>2 DEF Saying, Effect
    <3> QED
      BY <3>1, SayingHolds
  <2>3. CASE e = Stopped(Nil, {})
    <3>1. state = Nil
      BY <2>1 DEF Idle
    <3>2. e = Effect(state, FALSE, FALSE, Answer("transport_stopped", "no", Nil), {}, {})
      BY <2>3, <3>1 DEF Stopped, Delivery
    <3> QED
      BY <3>1, <3>2, SayingHolds
  <2> QED
    BY <2>1, <2>2, <2>3
<1>6. CASE ask.op \in {"execute", "prepare"}
  <2> SUFFICES ASSUME e # Refused(state)
               PROVE  Holds(e, c, ask)
    BY <1>2
  <2>1. CASE ask.op = "execute"
    <3>1. state = Nil /\ e \in Executed(c)
      BY <2>1 DEF Handled
    <3> QED
      BY <2>1, <3>1, ExecutedHolds
  <2>2. CASE ask.op = "prepare"
    <3>1. state = Nil /\ e \in Prepared(c)
      BY <2>2 DEF Handled
    <3> QED
      BY <2>2, <3>1, ExecutedHolds
  <2> QED
    BY <1>6, <2>1, <2>2
<1>10. CASE ask.op = "send"
  <2> SUFFICES ASSUME e # Refused(state)
               PROVE  Holds(e, c, ask)
    BY <1>2
  <2>1. state # Nil /\ state.status = "prepared" /\ e \in Sent(state)
    BY <1>10 DEF Handled
  <2> QED
    BY <1>1, <1>10, <2>1, SentHolds
<1>7. CASE ask.op = "verify"
  <2> SUFFICES ASSUME e # Refused(state)
               PROVE  Holds(e, c, ask)
    BY <1>2
  <2>1. state # Nil /\ state.status = "attempted" /\ packets[ask.packet].action = state.id /\ e \in Finalized(state)
    BY <1>7 DEF Handled
  <2> QED
    BY <1>7, <2>1, FinalizedHolds
<1>8. CASE ask.op = "finalize"
  <2> SUFFICES ASSUME e # Refused(state)
               PROVE  Holds(e, c, ask)
    BY <1>2
  <2>1. state # Nil /\ state.status = "verified_pending_log" /\ e \in Finalized(state)
    BY <1>8 DEF Handled
  <2> QED
    BY <1>8, <2>1, FinalizedHolds
<1>9. CASE ask.op \in {"cancel_prepared", "recover_unsent"}
  <2> SUFFICES ASSUME e # Refused(state)
               PROVE  Holds(e, c, ask)
    BY <1>2
  <2>1. PICK a \in {Answer("cancelled_without_input", "absent", Nil), Answer("reconciled_unsent", "no", Nil)} :
          /\ state # Nil /\ state.status \in {"prepared", "preparing_dispatch"}
          /\ e = [Saying(a) EXCEPT !.pending = Nil]
    BY <1>9 DEF Handled, Withdrawn
  <2>2. /\ e.pending = Nil /\ e.up = TRUE /\ e.armed = adapter.armed /\ e.sent = {} /\ e.settled = {}
        /\ e.answer.status \in {"cancelled_without_input", "reconciled_unsent"}
        /\ e.answer.sent \in {"absent", "no"} /\ e.answer.pending = Nil
    BY <2>1 DEF Saying, Effect, Answer
  <2>3. AnswerHolds(e, c, ask)
    BY <2>2 DEF AnswerHolds
  <2> QED
    BY <1>1, <2>1, <2>2, <2>3 DEF Moves, Withdraws, Holds
<1>11. CASE ask.op = "reconcile"
  <2> SUFFICES ASSUME e # Refused(state)
               PROVE  Holds(e, c, ask)
    BY <1>2
  <2>1. e = Effect(state, TRUE, adapter.armed, Answer("unresolved", "absent", Nil), {}, {})
    BY <1>11 DEF Handled, Saying
  <2> QED
    BY <1>1, <2>1, SayingHolds
<1>12. CASE ask.op = "not_performed"
  <2> SUFFICES ASSUME e # Refused(state)
               PROVE  Holds(e, c, ask)
    BY <1>2
  <2>1. state # Nil /\ e \in Finalized(state)
    BY <1>12 DEF Handled
  <2> QED
    BY <1>12, <2>1, FinalizedHolds
<1>13. CASE ask.op = "stop"
  <2>1. e = Effect(state, FALSE, FALSE, Answer("stopped", "absent", Nil), {}, {})
    BY <1>13 DEF Handled
  <2>2. /\ e.pending = state /\ e.up = FALSE /\ e.armed = FALSE /\ e.sent = {} /\ e.settled = {}
        /\ e.answer = [status |-> "stopped", sent |-> "absent", pending |-> Nil]
    BY <2>1 DEF Effect, Answer
  <2>3. AnswerHolds(e, c, ask)
    BY <2>2 DEF AnswerHolds
  <2> QED
    BY <2>2, <2>3 DEF Moves, Stays, Holds
<1> QED
  BY <1>3, <1>4, <1>5, <1>6, <1>7, <1>8, <1>9, <1>10, <1>11, <1>12, <1>13 DEF Asked, Operations, Naming

\* And what is left of it when the process dies.
LEMMA CutShortMoves ==
  ASSUME ChannelTypeOK, NEW c \in Ids, NEW ask \in Asked, NEW e \in CutShort(c, ask)
  PROVE  Moves(e, c, ask)
<1>1. CASE e \in Handled(c, ask)
  BY <1>1, HandledHolds DEF Holds
<1>2. CASE e = Saved(state, {})
  BY <1>2 DEF Saved, Effect, Moves, Stays
\* Before the input was sent, it was saved as prepared, and as about to be sent.
<1>3. ASSUME NEW x \in Handled(c, ask), x.answer.status = "awaiting_fresh_review",
             NEW s \in {"prepared", "preparing_dispatch"}, e = SavedUnsent(x.pending, s)
      PROVE  Moves(e, c, ask)
  <2>1. Opens(x, c, ask) \/ Sends(x, ask)
    BY <1>3, HandledHolds DEF Holds, AnswerHolds
  <2>2. x.pending \in Pendings
    BY <2>1 DEF Opens, Sends, Dispatched
  <2> DEFINE p == [x.pending EXCEPT !.status = s, !.response = Nil]
  <2>3. p \in Pendings /\ p.id = x.pending.id /\ p.response = Nil /\ p.tries = x.pending.tries
    BY <2>2 DEF Pendings, Statuses
  <2>4. e.pending = p /\ e.sent = {} /\ e.settled = {}
    BY <1>3 DEF SavedUnsent, Saved, Effect
  <2> HIDE DEF p
  <2>5. Dispatched(e, x.pending.id)
    BY <2>3, <2>4, ChannelAssumption DEF Dispatched
  <2> QED
    BY <2>1, <2>3, <2>4, <2>5 DEF Opens, Sends, Dispatched, Moves
\* Before the result was stored, it was saved as verified.
<1>4. ASSUME NEW x \in Handled(c, ask), x.settled # {}, e \in {SavedVerified({}), SavedVerified(x.settled)}
      PROVE  Moves(e, c, ask)
  <2>1. Moves(x, c, ask)
    BY HandledHolds DEF Holds
  <2>2. state # Nil /\ x.settled \subseteq {state.id}
    BY <1>4, <2>1 DEF Moves, Stays, Changes, Opens, Sends, Dispatched, Settles, Withdraws
  <2>3. state \in Pendings
    BY <2>2 DEF ChannelTypeOK
  <2> DEFINE p == [state EXCEPT !.status = "verified_pending_log"]
  <2>4. /\ p \in Pendings /\ p.id = state.id /\ p.response = state.response /\ p.tries = state.tries
        /\ p.status = "verified_pending_log" /\ state.tries \in Nat
    BY <2>3 DEF Pendings, Statuses
  <2>5. e.pending = p /\ e.sent = {} /\ e.settled \subseteq x.settled
    BY <1>4 DEF SavedVerified, Saved, Effect
  <2> HIDE DEF p
  <2>6. Changes(e)
    BY <2>2, <2>4, <2>5 DEF Changes
  <2> QED
    BY <2>6 DEF Moves
<1>5. \/ e \in Handled(c, ask)
      \/ e = Saved(state, {})
      \/ \E x \in Handled(c, ask), s \in {"prepared", "preparing_dispatch"} :
           x.answer.status = "awaiting_fresh_review" /\ e = SavedUnsent(x.pending, s)
      \/ \E x \in Handled(c, ask) :
           x.settled # {} /\ e \in {SavedVerified({}), SavedVerified(x.settled)}
  BY SMT DEF CutShort
<1> QED
  BY <1>1, <1>2, <1>3, <1>4, <1>5

-------------------------------------------------------------------------------
(* What a command makes of its answer *)

\* The packet that is found was written for the input.
LEMMA NewestFound ==
  ASSUME ChannelTypeOK, NEW action, NewestPacket(action) # Nil
  PROVE  NewestPacket(action) \in DOMAIN packets /\ packets[NewestPacket(action)].action = action
<1> DEFINE found == {i \in DOMAIN packets : packets[i].action = action}
           n == Len(packets)
           above == {x..n : x \in found}
<1>1. found # {} /\ NewestPacket(action) = Max(found)
  BY DEF NewestPacket
<1>2. n \in Nat /\ DOMAIN packets = 1..n /\ found \subseteq 1..n
  BY DEF ChannelTypeOK
<1> HIDE DEF n
<1>3. above \subseteq FiniteSubsetsOf(1..n)
  <2> SUFFICES ASSUME NEW x \in found
               PROVE  x..n \in FiniteSubsetsOf(1..n)
    OBVIOUS
  <2>1. x \in 1..n /\ x..n \subseteq 1..n
    BY <1>2
  <2>2. IsFiniteSet(x..n)
    BY <1>2, <2>1, FS_Interval
  <2> QED
    BY <2>1, <2>2 DEF FiniteSubsetsOf
<1>4. PICK s \in above : \A t \in above : <<t, s>> \notin StrictSubsetOrdering(1..n)
  <2>1. above # {}
    BY <1>1
  <2>2. IsWellFoundedOn(StrictSubsetOrdering(1..n), FiniteSubsetsOf(1..n))
    BY FS_StrictSubsetOrderingWellFounded
  <2> QED
    BY <1>3, <2>1, <2>2, WFMin
<1>5. PICK x \in found : s = x..n
  BY <1>4
<1>6. ASSUME NEW y \in found, ~(x >= y)
      PROVE  FALSE
  <2>1. x \in 1..n /\ y \in 1..n /\ x < y
    BY <1>2, <1>6
  <2>2. y..n \subseteq x..n /\ x \in x..n /\ x \notin y..n
    BY <1>2, <2>1
  <2>3. x..n \subseteq 1..n
    BY <1>2, <2>1
  <2>4. <<y..n, x..n>> \in StrictSubsetOrdering(1..n)
    BY <2>2, <2>3 DEF StrictSubsetOrdering
  <2> QED
    BY <1>4, <1>5, <1>6, <2>4
<1>7. Max(found) \in found
  BY <1>5, <1>6 DEF Max
<1> QED
  BY <1>1, <1>7

\* A command that is given an answer to print.
LEMMA EndsHolds ==
  ASSUME ChannelTypeOK, NEW c \in Commands, NEW said,
         said.sent \in {"absent", "no", "yes", "unknown"}, said.pending = Nil \/ said.pending.id \in Ids
  PROVE  LET r == Ends(c, said)
         IN /\ r \in Submitters /\ r.phase = "done" /\ r.op = command[c].op /\ r.action = command[c].action
            /\ r.gone = {} /\ r.report = Printed(said)
<1>1. command[c] \in Submitters
  BY DEF ChannelTypeOK
<1>2. Printed(said) \in Reports
  BY DEF Printed, Reports
<1> QED
  BY <1>1, <1>2 DEF Ends, Submitters

LEMMA AsksHolds ==
  ASSUME ChannelTypeOK, NEW c \in Commands, NEW ask \in Asked, NEW action \in Ids
  PROVE  LET r == Asks(c, ask, action)
         IN /\ r \in Submitters /\ r.phase = "connecting" /\ r.op = command[c].op /\ r.action = action
            /\ r.gone = command[c].gone /\ r.report = command[c].report /\ r.ask = ask
<1>1. command[c] \in Submitters
  BY DEF ChannelTypeOK
<1> QED
  BY <1>1 DEF Asks, Submitters

\* Once it is answered, a command is done and reports what the answer says, ...
Reported(r, e, c, ask) ==
  /\ r.phase = "done" /\ r.action = command[c].action /\ r.gone = {}
  /\ r.report.status # "reply_unknown"
  /\ r.report.sent = "no" =>
       /\ e.sent = {}
       /\ IF r.report.of = Nil THEN e.pending = Nil \/ ask.op \notin Acting
          ELSE /\ e.pending # Nil /\ r.report.of = e.pending.id /\ Unsent(e.pending)
               /\ e.pending.status = "prepared" => r.report.open
  /\ r.report.sent = "yes" => e.pending # Nil /\ e.pending.response = "ok" /\ r.report.of = e.pending.id
  /\ r.report.status = "pending_recovered" => command[c].action # Nil /\ Settles(e, ask)

\* ... or goes on to settle the input that was found pending, which was tried once more.
Recovers(r, e, c) ==
  /\ r.phase = "connecting" /\ command[c].op = "bridge_preflight" /\ command[c].action = Nil
  /\ r.report = command[c].report /\ r.gone = command[c].gone
  /\ state # Nil /\ e.pending = [state EXCEPT !.tries = @ + 1] /\ e.pending.tries <= RECOVERY_LIMIT
  /\ r.action = state.id /\ r.ask \in Asked
  /\ \/ /\ r.ask.op = "verify" /\ r.ask.packet \in DOMAIN packets
        /\ packets[r.ask.packet].action = state.id
     \/ r.ask.op = "finalize" /\ e.pending.status = "verified_pending_log"

\* Only the requests that act can send an input.
LEMMA SentByActing ==
  ASSUME NEW e, NEW c, NEW ask, Moves(e, c, ask), ask.op \notin Acting
  PROVE  e.sent = {}
BY DEF Moves, Stays, Changes, Opens, Sends, Settles, Withdraws, Acting

\* The answer's pending input has a name.
LEMMA AnswerNames ==
  ASSUME ChannelTypeOK, NEW e, NEW c \in Ids, NEW ask, Holds(e, c, ask)
  PROVE  /\ e.pending \in Pendings \/ e.pending = Nil
         /\ e.answer.pending = Nil \/ (/\ e.answer.pending.id \in Ids
                                       /\ e.pending # Nil
                                       /\ e.answer.pending.id = e.pending.id
                                       /\ e.answer.pending.status = e.pending.status)
<1>1. e.pending \in Pendings \/ e.pending = Nil
  BY DEF Holds, Moves, Stays, Changes, Opens, Sends, Dispatched, Settles, Withdraws, ChannelTypeOK
<1>2. e.answer.pending = Nil \/
        (e.pending # Nil /\ e.answer.pending = [id |-> e.pending.id, status |-> e.pending.status])
  BY DEF Holds, AnswerHolds
<1> QED
  BY <1>1, <1>2 DEF Pendings

LEMMA ReceivedHolds ==
  ASSUME ChannelTypeOK, AsksRightly, NEW c \in Commands, command[c].phase = "waiting",
         NEW e, Holds(e, c, command[c].ask)
  PROVE  LET r == Received(c, e.answer)
         IN /\ r \in Submitters /\ r.op = command[c].op
            /\ Reported(r, e, c, command[c].ask) \/ Recovers(r, e, c)
<1> DEFINE r == Received(c, e.answer)
           ask == command[c].ask
           said == e.answer
<1>0. Holds(e, c, ask) /\ c \in Ids
  BY DEF Ids
<1>1. /\ IF command[c].action = Nil THEN ask.op = command[c].op
         ELSE command[c].op = "bridge_preflight" /\ ask.op \in {"verify", "finalize"}
  BY DEF AsksRightly, Settling
<1>2. /\ e.pending \in Pendings \/ e.pending = Nil
      /\ said.pending = Nil \/ (/\ said.pending.id \in Ids /\ e.pending # Nil
                                  /\ said.pending.id = e.pending.id /\ said.pending.status = e.pending.status)
  BY <1>0, AnswerNames
<1>3. /\ said.sent \in {"absent", "no", "yes", "unknown"}
      /\ said.sent = "no" => e.sent = {} /\ (e.pending # Nil => said.pending # Nil /\ Unsent(e.pending))
      /\ said.sent = "yes" => said.pending # Nil /\ e.pending.response = "ok"
      /\ said.status \notin {"pending_recovered", "reply_unknown"}
      /\ said.status = "verified" => Settles(e, ask)
      /\ ask.op = "bridge_preflight" /\ said.pending # Nil
           /\ said.status \in {"recoverable_review", "bridge_access_blocked"} =>
           state # Nil /\ e.pending = [state EXCEPT !.tries = @ + 1] /\ e.pending.tries <= RECOVERY_LIMIT
  BY <1>0 DEF Holds, AnswerHolds
<1>4. ask.op \notin Acting => e.sent = {}
  BY <1>0, SentByActing DEF Holds
<1> HIDE DEF ask, said
<1> DEFINE Goal(x) == x \in Submitters /\ x.op = command[c].op /\ (Reported(x, e, c, ask) \/ Recovers(x, e, c))
\* It prints the answer, ...
<1>5. Goal(Ends(c, said))
  <2> DEFINE x == Ends(c, said)
  <2>1. /\ x \in Submitters /\ x.phase = "done" /\ x.op = command[c].op /\ x.action = command[c].action
        /\ x.gone = {} /\ x.report = Printed(said)
    BY <1>2, <1>3, EndsHolds
  <2> HIDE DEF x
  <2>2. /\ x.report.status \notin {"pending_recovered", "reply_unknown"} /\ x.report.sent = said.sent
        /\ said.sent \in {"no", "yes"} /\ said.pending # Nil =>
             x.report.of = said.pending.id /\ (said.pending.status = "prepared" => x.report.open)
        /\ said.pending = Nil => x.report.of = Nil
    <3> DEFINE told == said.sent \in {"no", "yes"} /\ said.pending # Nil
               of == IF told THEN said.pending.id ELSE Nil
               status == IF said.status \in {"reply_unknown", "pending_recovered"} THEN said.status ELSE "answered"
               open == told /\ said.pending.status = "prepared"
    <3>1. x.report = [status |-> status, sent |-> said.sent, of |-> of, open |-> open]
      BY <2>1 DEF Printed
    <3>2. status = "answered" /\ (told => of = said.pending.id) /\ (~told => of = Nil)
      BY <1>3
    <3> HIDE DEF of, status, open
    <3>3. x.report.status = status /\ x.report.sent = said.sent /\ x.report.of = of /\ x.report.open = open
      BY <3>1
    <3>4. said.pending.status = "prepared" /\ told => x.report.open
      BY <3>3 DEF open
    <3> QED
      BY <3>2, <3>3, <3>4
  <2>3. x.report.sent = "yes" => e.pending # Nil /\ e.pending.response = "ok" /\ x.report.of = e.pending.id
    BY <1>2, <1>3, <2>2
  <2>5. x.report.sent = "no" =>
          /\ e.sent = {}
          /\ IF x.report.of = Nil THEN e.pending = Nil
             ELSE /\ e.pending # Nil /\ x.report.of = e.pending.id /\ Unsent(e.pending)
                  /\ e.pending.status = "prepared" => x.report.open
    BY <1>2, <1>3, <2>2, ChannelAssumption
  <2>4. Reported(x, e, c, ask)
    BY <1>3, <2>1, <2>2, <2>3, <2>5 DEF Reported
  <2> QED
    BY <2>1, <2>4 DEF x
\* ... or that the input was or was not settled, ...
<1>6. ASSUME ask.op \notin Acting, NEW s, s \notin {"reply_unknown"},
             s = "pending_recovered" => command[c].action # Nil /\ Settles(e, ask)
      PROVE  Goal(Ends(c, Said(s)))
  <2> DEFINE x == Ends(c, Said(s))
  <2>1. Said(s).sent = "no" /\ Said(s).pending = Nil /\ Said(s).status = s
    BY DEF Said, Answer
  <2>2. /\ x \in Submitters /\ x.phase = "done" /\ x.op = command[c].op /\ x.action = command[c].action
        /\ x.gone = {} /\ x.report = Printed(Said(s))
    BY <2>1, EndsHolds
  <2> HIDE DEF x
  <2>3. x.report.sent = "no" /\ x.report.of = Nil /\ x.report.status # "reply_unknown" /\ (x.report.status = "pending_recovered" => s = "pending_recovered")
    BY <1>6, <2>1, <2>2 DEF Printed
  <2>4. Reported(x, e, c, ask)
    BY <1>4, <1>6, <2>2, <2>3 DEF Reported
  <2> QED
    BY <2>2, <2>4 DEF x
\* ... or it asks for the settling of the input that was found pending.
<1>7. ASSUME NEW a \in Asked, command[c].op = "bridge_preflight", command[c].action = Nil,
             said.pending # Nil, said.status \in {"recoverable_review", "bridge_access_blocked"},
             \/ /\ a.op = "verify" /\ a.packet \in DOMAIN packets
                /\ packets[a.packet].action = said.pending.id
             \/ a.op = "finalize" /\ said.pending.status = "verified_pending_log"
      PROVE  Goal(Asks(c, a, said.pending.id))
  <2> DEFINE x == Asks(c, a, said.pending.id)
  <2>1. /\ x \in Submitters /\ x.phase = "connecting" /\ x.op = command[c].op /\ x.action = said.pending.id
        /\ x.gone = command[c].gone /\ x.report = command[c].report /\ x.ask = a
    BY <1>2, <1>7, AsksHolds
  <2> HIDE DEF x
  <2>2. state # Nil /\ e.pending = [state EXCEPT !.tries = @ + 1] /\ e.pending.tries <= RECOVERY_LIMIT
    BY <1>1, <1>3, <1>7
  <2>3. said.pending.id = state.id /\ said.pending.status = e.pending.status
    <3>1. state \in Pendings
      BY <2>2 DEF ChannelTypeOK
    <3> QED
      BY <1>2, <1>7, <2>2, <3>1 DEF Pendings
  <2>4. Recovers(x, e, c)
    BY <1>7, <2>1, <2>2, <2>3 DEF Recovers
  <2> QED
    BY <2>1, <2>4 DEF x
<1>8. CASE command[c].action # Nil
  <2>1. PICK w \in {"run_complete", "pending_recovered", "pending_reconciliation_required"} :
          SettledBy(said) = Said(w) /\ (w = "pending_recovered" => said.status = "verified")
    BY DEF SettledBy
  <2>2. r = Ends(c, Said(w))
    <3>1. r = Ends(c, SettledBy(said))
      BY <1>8 DEF Received, said
    <3> QED
      BY <2>1, <3>1
  <2>3. Goal(Ends(c, Said(w)))
    BY <1>1, <1>3, <1>6, <1>8, <2>1 DEF Acting
  <2> QED
    BY <2>2, <2>3 DEF ask
<1>9. CASE command[c].action = Nil /\ command[c].op # "bridge_preflight"
  <2>1. r = Ends(c, said)
    BY <1>9 DEF Received, said
  <2> QED
    BY <1>5, <2>1 DEF ask
<1>10. CASE command[c].action = Nil /\ command[c].op = "bridge_preflight"
  <2>1. r = Recovering(c, said)
    BY <1>10 DEF Received, said
  <2>2. CASE r = Ends(c, said)
    BY <1>5, <2>2 DEF ask
  <2>3. CASE r # Ends(c, said)
    <3>1. /\ said.status \in {"recoverable_review", "bridge_access_blocked"} /\ said.pending # Nil
          /\ \/ /\ said.pending.status = "verified_pending_log"
                /\ r = Asks(c, Ask("finalize"), said.pending.id)
             \/ /\ said.pending.status = "attempted" /\ NewestPacket(said.pending.id) = Nil
                /\ r = Ends(c, Said("pending_reconciliation_required"))
             \/ /\ said.pending.status = "attempted" /\ NewestPacket(said.pending.id) # Nil
                /\ r = Asks(c, [Ask("verify") EXCEPT !.packet = NewestPacket(said.pending.id)], said.pending.id)
      BY <2>1, <2>3 DEF Recovering
    <3>2. CASE said.pending.status = "verified_pending_log" /\ r = Asks(c, Ask("finalize"), said.pending.id)
      <4>1. Ask("finalize") \in Asked /\ Ask("finalize").op = "finalize"
        BY DEF Ask, Asked, Operations, Naming
      <4>2. Goal(Asks(c, Ask("finalize"), said.pending.id))
        BY <1>7, <1>10, <3>1, <3>2, <4>1
      <4> QED
        BY <3>2, <4>2 DEF ask
    <3>3. CASE r = Ends(c, Said("pending_reconciliation_required"))
      <4>1. Goal(Ends(c, Said("pending_reconciliation_required")))
        BY <1>1, <1>6, <1>10 DEF Acting
      <4> QED
        BY <3>3, <4>1 DEF ask
    <3>4. CASE /\ NewestPacket(said.pending.id) # Nil
               /\ r = Asks(c, [Ask("verify") EXCEPT !.packet = NewestPacket(said.pending.id)], said.pending.id)
      <4> DEFINE i == NewestPacket(said.pending.id)
                 a == [Ask("verify") EXCEPT !.packet = i]
      <4>1. i \in DOMAIN packets /\ packets[i].action = said.pending.id
        BY <3>4, NewestFound
      <4>2. i \in Nat
        BY <4>1 DEF ChannelTypeOK
      <4> HIDE DEF i
      <4>3. a \in Asked /\ a.op = "verify" /\ a.packet = i
        BY <4>2 DEF Ask, Asked, Operations, Naming
      <4> HIDE DEF a
      <4>4. Goal(Asks(c, a, said.pending.id))
        BY <1>7, <1>10, <3>1, <4>1, <4>3
      <4> QED
        BY <3>4, <4>4 DEF ask, a, i
    <3> QED
      BY <3>1, <3>2, <3>3, <3>4
  <2> QED
    BY <2>2, <2>3
<1> QED
  BY <1>8, <1>9, <1>10

-------------------------------------------------------------------------------
(* The steps of a command *)

\* A command that is not waiting for its answer, nor lost it, has no message under way.
LEMMA QuietHasNone ==
  ASSUME ChannelInv, NEW c \in Commands, command[c].phase \in {"idle", "connecting"}
  PROVE  c \notin Lost /\ ~Waits(c) /\ command[c].report = Printed(NoReport) /\ Untouched(c)
<1>1. command[c].report = Printed(NoReport)
  BY DEF ChannelInv, Told, ReportTrue
<1>2. c \notin Lost
  BY <1>1 DEF Lost, Printed, NoReport, Answer
<1>3. ~Waits(c)
  BY <1>2 DEF Waits, ChannelInv, OneMessage, Carries
<1>4. Untouched(c)
  BY DEF ChannelInv, CommandsFresh
<1> QED
  BY <1>1, <1>2, <1>3, <1>4

\* A step that gives one command a report that is no lost reply.
LEMMA NoneLost ==
  ASSUME ChannelTypeOK, NEW c \in Commands, NEW r \in Submitters, command' = [command EXCEPT ![c] = r],
         c \notin Lost, r.report.status # "reply_unknown"
  PROVE  /\ Lost' = Lost /\ command' \in [Commands -> Submitters]
         /\ \A x \in Commands : command'[x] = IF x = c THEN r ELSE command[x]
<1>1. command \in [Commands -> Submitters]
  BY DEF ChannelTypeOK
<1>2. /\ command' \in [Commands -> Submitters]
      /\ \A x \in Commands : command'[x] = IF x = c THEN r ELSE command[x]
  BY <1>1
<1> QED
  BY <1>2 DEF Lost

\* The number of commands about to submit a result.
LEMMA AboutFinite ==
  ASSUME NEW i
  PROVE  IsFiniteSet(About(i)) /\ Cardinality(About(i)) \in Nat
<1>1. About(i) \in SUBSET Commands
  BY DEF About
<1> QED
  BY <1>1, FS_Subset, FS_CardinalityType, ChannelAssumption

LEMMA AboutKept ==
  ASSUME NEW i, About(i)' \subseteq About(i)
  PROVE  Cardinality(About(i)') \in Nat /\ Cardinality(About(i)') <= Cardinality(About(i))
<1>1. IsFiniteSet(About(i)) /\ About(i)' \in SUBSET About(i)
  BY AboutFinite
<1> QED
  BY <1>1, FS_Subset, FS_CardinalityType

\* A report that was printed before stays true.
LEMMA TellsOn ==
  ASSUME NEW x \in Commands, ReportTrue(x),
         command'[x].report = command[x].report, command'[x].action = command[x].action,
         command'[x].phase = "done" <=> command[x].phase = "done",
         x \in past'.senders => x \in past.senders \/ Waits(x), Waits(x)' => Waits(x),
         \A i \in Ids : Unsendable(i) => Unsendable(i)',
         past.sent \subseteq past'.sent, past.settled \subseteq past'.settled
  PROVE  ReportTrue(x)'
<1> DEFINE r == command[x].report
<1>1. command'[x].phase # "done" => r = Printed(NoReport)
  BY DEF ReportTrue
<1>2. r.sent = "no" =>
        /\ x \notin past'.senders /\ ~Waits(x)'
        /\ \A i \in {x, r.of} \cap Ids : Unsendable(i)' \/ (r.open /\ i = r.of)
  BY DEF ReportTrue
<1>3. /\ r.sent = "yes" => r.of \in past'.sent
      /\ r.status = "pending_recovered" => command'[x].action \in past'.settled
  BY DEF ReportTrue
<1> QED
  BY <1>1, <1>2, <1>3 DEF ReportTrue

\* What is over stays so when a command that was not done, nor waiting, moves.
LEMMA OverStays ==
  ASSUME NEW c \in Commands, command[c].phase \in {"idle", "connecting"},
         \A x \in Commands \ {c} : command'[x] = command[x] /\ (Waits(x)' => Waits(x)),
         channel'.typed = channel.typed, channel'.buffer = channel.buffer, channel'.busy = channel.busy,
         past'.executed = past.executed, past'.sent = past.sent, state' = state, Console \notin Commands
  PROVE  \A i \in Ids : Unsendable(i) => Unsendable(i)'
<1>1. ConsoleAsks' <=> ConsoleAsks
  BY DEF ConsoleAsks
<1>2. \A i \in Ids : Over(i) => Over(i)'
  BY <1>1 DEF Over, Ids
<1> QED
  BY <1>2 DEF Unsendable

\* A command whose request was never handled may say that nothing was sent.
LEMMA NothingSent ==
  ASSUME NEW c \in Commands, Untouched(c), ~Waits(c)', command'[c].phase = "done",
         past'.sent = past.sent, past'.senders = past.senders, state' = state, Console \notin Commands
  PROVE  Unsendable(c)' /\ c \notin past'.senders
BY DEF Unsendable, Over, Untouched

LEMMA BeginKeeps ==
  ASSUME ChannelInv, NEW c \in Commands, BeginCommand(c)
  PROVE  ChannelInv'
<1>1. PICK op \in Operations, i \in DOMAIN packets \cup {Nil}, of \in Ids \cup {Nil} :
        command' = [command EXCEPT ![c] =
            [phase |-> IF op = "finalize" /\ state = Nil THEN "done" ELSE "connecting",
             op |-> op, ask |-> [op |-> op, packet |-> i, of |-> of], action |-> Nil, gone |-> Lost,
             report |-> Printed(IF op = "finalize" /\ state = Nil THEN Said("no_pending_action") ELSE NoReport)]]
  BY DEF BeginCommand
<1> DEFINE none == op = "finalize" /\ state = Nil
           r == [phase |-> IF none THEN "done" ELSE "connecting",
                 op |-> op, ask |-> [op |-> op, packet |-> i, of |-> of], action |-> Nil, gone |-> Lost,
                 report |-> Printed(IF none THEN Said("no_pending_action") ELSE NoReport)]
<1>2. command[c].phase = "idle" /\ UNCHANGED <<adapter, state, channel, packets, past>>
  BY DEF BeginCommand
<1>3. c \notin Lost /\ ~Waits(c) /\ Untouched(c) /\ command[c].report = Printed(NoReport)
  BY <1>2, QuietHasNone
<1>4. ChannelTypeOK /\ OneMessage /\ InspectionsBehind /\ CommandsFresh /\ ConsoleFresh /\ AsksRightly /\ Told /\ Counted
  BY DEF ChannelInv
<1>5. i \in Nat \cup {Nil}
  BY <1>4 DEF ChannelTypeOK
<1>6. /\ Printed(Said("no_pending_action")) =
           [status |-> "answered", sent |-> "no", of |-> Nil, open |-> FALSE]
      /\ Printed(NoReport) = [status |-> "answered", sent |-> "absent", of |-> Nil, open |-> FALSE]
  BY DEF Printed, Said, Answer, NoReport
<1>21. r.report = [status |-> "answered", sent |-> IF none THEN "no" ELSE "absent", of |-> Nil, open |-> FALSE]
  BY <1>6
<1>7. /\ r.phase \in {"done", "connecting"} /\ r.ask.op = r.op /\ r.ask \in Asked /\ r.action = Nil /\ r.gone = Lost
      /\ r.phase = "connecting" => r.report = Printed(NoReport)
      /\ r.report.status = "answered" /\ r.report.sent \in {"no", "absent"}
  <2>1. [op |-> op, packet |-> i, of |-> of] \in Asked
    BY <1>5 DEF Asked
  <2>2. /\ r.phase \in {"done", "connecting"} /\ r.ask = [op |-> op, packet |-> i, of |-> of] /\ r.op = op
        /\ r.action = Nil /\ r.gone = Lost
        /\ r.phase = "connecting" => r.report = Printed(NoReport)
    OBVIOUS
  <2>3. r.report.status = "answered" /\ r.report.sent \in {"no", "absent"}
    BY <1>21
  <2> HIDE DEF r
  <2> QED
    BY <2>1, <2>2, <2>3
<1>8. r \in Submitters
  <2>1. r.report \in Reports
    <3>1. \A s \in {"no", "absent"} : [status |-> "answered", sent |-> s, of |-> Nil, open |-> FALSE] \in Reports
      BY DEF Reports
    <3> HIDE DEF r
    <3> QED
      BY <1>21, <3>1
  <2>2. Lost \in SUBSET Commands
    BY DEF Lost
  <2> QED
    BY <1>7, <2>1, <2>2 DEF Submitters
<1>9. command' = [command EXCEPT ![c] = r]
  BY <1>1
<1> HIDE DEF r
<1>10. /\ Lost' = Lost /\ command' \in [Commands -> Submitters]
       /\ \A x \in Commands : command'[x] = IF x = c THEN r ELSE command[x]
  BY <1>3, <1>4, <1>7, <1>8, <1>9, NoneLost
<1>11. ChannelTypeOK'
  BY <1>2, <1>4, <1>10 DEF ChannelTypeOK
<1>12. \A x : Waits(x)' <=> Waits(x)
  BY <1>2 DEF Waits
<1>13. OneMessage'
  <2>1. ASSUME NEW m, m.from \in Commands, m.from # c, Carries(m)
        PROVE  Carries(m)'
    BY <1>10, <2>1 DEF Carries
  <2> QED
    BY <1>2, <1>3, <1>4, <2>1 DEF OneMessage, Waits, Carries
<1>14. InspectionsBehind'
  BY <1>2, <1>4, <1>7, <1>10, <1>12 DEF InspectionsBehind
<1>15. \A x \in Ids : Untouched(x) => Untouched(x)'
  BY <1>2, <1>7, <1>10, ChannelAssumption DEF Untouched, Ids
<1>16. CommandsFresh'
  BY <1>3, <1>4, <1>10, <1>12, <1>15 DEF CommandsFresh, Ids
<1>17. ConsoleFresh'
  BY <1>2, <1>4, <1>15 DEF ConsoleFresh, Ids
<1>18. AsksRightly'
  <2>1. \A x \in Commands \ {c} : Settling(x)' <=> Settling(x)
    BY <1>2, <1>10 DEF Settling
  <2> QED
    BY <1>4, <1>7, <1>10, <2>1 DEF AsksRightly
<1>19. Told'
  <2>1. \A x \in Ids : Unsendable(x) => Unsendable(x)'
    BY <1>2, <1>10, <1>12, OverStays, ChannelAssumption
  <2>2. ASSUME NEW x \in Commands, x # c
        PROVE  ReportTrue(x)'
    BY <1>2, <1>4, <1>10, <1>12, <2>1, <2>2, TellsOn DEF Told
  <2>3. r.phase = "done" => Unsendable(c)' /\ c \notin past'.senders
    BY <1>2, <1>3, <1>10, <1>12, NothingSent, ChannelAssumption
  <2>4. /\ r.report.sent \in {"no", "absent"} /\ r.report.of = Nil /\ r.report.status = "answered"
        /\ r.phase # "done" => r.report = Printed(NoReport) /\ r.report.sent = "absent"
    BY <1>6, <1>7 DEF r
  <2>5. ReportTrue(c)'
    BY <1>3, <1>10, <1>12, <2>3, <2>4, ChannelAssumption DEF ReportTrue
  <2>6. StateTrue'
    BY <1>2, <1>4 DEF Told, StateTrue
  <2> QED
    BY <2>2, <2>5, <2>6 DEF Told
<1>20. Counted'
  <2>1. \A x \in Ids : About(x)' = About(x)
    BY <1>2, <1>7, <1>10, ChannelAssumption DEF About
  <2> QED
    BY <1>2, <1>4, <2>1 DEF Counted
<1> QED
  BY <1>11, <1>13, <1>14, <1>16, <1>17, <1>18, <1>19, <1>20 DEF ChannelInv

\* What a command asks for is one of the requests of its operation.
LEMMA AsksOwn ==
  ASSUME ChannelInv, NEW c \in Commands, command[c].phase \in {"connecting", "waiting"}
  PROVE  /\ command[c].ask \in Asked
         /\ command[c].ask.op \in Acting => command[c].op \in Acting
         /\ command[c].action # Nil => command[c].op = "bridge_preflight"
BY DEF ChannelInv, AsksRightly, Settling, Acting

\* There is nobody to connect to.
LEMMA SendingFails ==
  ASSUME ChannelInv, NEW c \in Commands, command[c].phase = "connecting",
         command' = [command EXCEPT ![c] = Ends(c, Said("submission_not_sent"))],
         UNCHANGED <<adapter, state, channel, packets, past>>
  PROVE  ChannelInv'
<1> DEFINE r == Ends(c, Said("submission_not_sent"))
<1>1. c \notin Lost /\ ~Waits(c) /\ Untouched(c) /\ command[c].report = Printed(NoReport)
  BY QuietHasNone
<1>2. ChannelTypeOK /\ OneMessage /\ InspectionsBehind /\ CommandsFresh /\ ConsoleFresh /\ AsksRightly /\ Told /\ Counted
  BY DEF ChannelInv
<1>3. Printed(Said("submission_not_sent")) = [status |-> "answered", sent |-> "no", of |-> Nil, open |-> FALSE]
  BY DEF Printed, Said, Answer
<1>4. /\ r \in Submitters /\ r.phase = "done" /\ r.op = command[c].op /\ r.action = command[c].action
      /\ r.gone = {} /\ r.report = Printed(Said("submission_not_sent"))
  <2>1. Said("submission_not_sent").sent = "no" /\ Said("submission_not_sent").pending = Nil
    BY DEF Said, Answer
  <2> QED
    BY <1>2, <2>1, EndsHolds
<1>5. command' = [command EXCEPT ![c] = r] /\ r.report.status # "reply_unknown"
  BY <1>3, <1>4
<1> HIDE DEF r
<1>6. /\ Lost' = Lost /\ command' \in [Commands -> Submitters]
      /\ \A x \in Commands : command'[x] = IF x = c THEN r ELSE command[x]
  BY <1>1, <1>2, <1>3, <1>4, <1>5, NoneLost
<1>7. ChannelTypeOK'
  BY <1>2, <1>6 DEF ChannelTypeOK
<1>8. \A x : Waits(x)' <=> Waits(x)
  BY DEF Waits
<1>9. OneMessage'
  <2>1. ASSUME NEW m, m.from \in Commands, m.from # c, Carries(m)
        PROVE  Carries(m)'
    BY <1>6, <2>1 DEF Carries
  <2> QED
    BY <1>1, <1>2, <2>1 DEF OneMessage, Waits, Carries
<1>10. InspectionsBehind'
  BY <1>2, <1>4, <1>6, <1>8 DEF InspectionsBehind
<1>11. \A x \in Ids : Untouched(x) => Untouched(x)'
  BY <1>4, <1>6 DEF Untouched
<1>12. CommandsFresh'
  BY <1>1, <1>2, <1>6, <1>8, <1>11 DEF CommandsFresh, Ids
<1>13. ConsoleFresh'
  BY <1>2, <1>11 DEF ConsoleFresh, Ids
<1>14. AsksRightly'
  <2>1. \A x \in Commands \ {c} : Settling(x)' <=> Settling(x)
    BY <1>6 DEF Settling
  <2> QED
    BY <1>2, <1>4, <1>6, <2>1 DEF AsksRightly
<1>15. Told'
  <2>1. \A x \in Ids : Unsendable(x) => Unsendable(x)'
    BY <1>6, <1>8, OverStays, ChannelAssumption
  <2>2. ASSUME NEW x \in Commands, x # c
        PROVE  ReportTrue(x)'
    BY <1>2, <1>6, <1>8, <2>1, <2>2, TellsOn DEF Told
  <2>3. Unsendable(c)' /\ c \notin past'.senders
    BY <1>1, <1>4, <1>6, <1>8, NothingSent, ChannelAssumption
  <2>4. r.report.of = Nil /\ r.report.sent = "no" /\ r.report.status = "answered"
    BY <1>3, <1>4
  <2>5. ReportTrue(c)'
    BY <1>1, <1>4, <1>6, <1>8, <2>3, <2>4, ChannelAssumption DEF ReportTrue
  <2>6. StateTrue'
    BY <1>2 DEF Told, StateTrue
  <2> QED
    BY <2>2, <2>5, <2>6 DEF Told
<1>16. Counted'
  <2>1. \A x \in Ids : Cardinality(About(x)') \in Nat /\ Cardinality(About(x)') <= Cardinality(About(x))
    <3>1. \A x \in Ids : About(x)' \subseteq About(x)
      BY <1>4, <1>6 DEF About
    <3> QED
      BY <3>1, AboutKept
  <2>2. \A x \in Ids : past.auto[x] \in Nat /\ Cardinality(About(x)) \in Nat
    BY <1>2, AboutFinite DEF ChannelTypeOK
  <2>3. state \in Pendings \/ state = Nil
    BY <1>2 DEF ChannelTypeOK
  <2> QED
    BY <1>2, <2>1, <2>2, <2>3, ChannelAssumption DEF Counted, Pendings
<1> QED
  BY <1>7, <1>9, <1>10, <1>12, <1>13, <1>14, <1>15, <1>16 DEF ChannelInv

LEMMA SendKeeps ==
  ASSUME ChannelInv, NEW c \in Commands, SendRequest(c)
  PROVE  ChannelInv'
<1> DEFINE open == adapter.up /\ Len(channel.backlog) < LISTEN
           auto == command[c].ask.op = "verify" /\ command[c].action # Nil
           r == [command[c] EXCEPT !.phase = "waiting"]
<1>1. command[c].phase = "connecting" /\ UNCHANGED <<adapter, state, packets>>
  BY DEF SendRequest
<1>2. c \notin Lost /\ ~Waits(c) /\ Untouched(c) /\ command[c].report = Printed(NoReport)
  BY <1>1, QuietHasNone
<1>3. ChannelTypeOK /\ OneMessage /\ InspectionsBehind /\ CommandsFresh /\ ConsoleFresh /\ AsksRightly /\ Told /\ Counted
  BY DEF ChannelInv
<1>4. CASE ~open
  <2>1. command' = [command EXCEPT ![c] = Ends(c, Said("submission_not_sent"))] /\ UNCHANGED <<channel, past>>
    BY <1>4 DEF SendRequest
  <2> QED
    BY <1>1, <2>1, SendingFails
<1>5. CASE open
  <2>27. PICK m : m = Message(c, command[c].ask, command[c].gone)
    OBVIOUS
  <2>1. /\ command' = [command EXCEPT ![c] = r]
        /\ channel' = [channel EXCEPT !.backlog = Append(@, m)]
        /\ past' = IF ~auto THEN past ELSE [past EXCEPT !.auto[command[c].action] = @ + 1]
    BY <1>5, <2>27 DEF SendRequest
  <2>2. command[c] \in Submitters
    BY <1>3 DEF ChannelTypeOK
  <2>3. /\ r \in Submitters /\ r.phase = "waiting" /\ r.op = command[c].op /\ r.ask = command[c].ask
        /\ r.action = command[c].action /\ r.gone = command[c].gone /\ r.report = command[c].report
    BY <2>2 DEF Submitters
  <2>4. r.report.status # "reply_unknown"
    BY <1>2, <2>3 DEF Lost
  <2> HIDE DEF r
  <2>5. /\ Lost' = Lost /\ command' \in [Commands -> Submitters]
        /\ \A x \in Commands : command'[x] = IF x = c THEN r ELSE command[x]
    BY <1>2, <1>3, <2>1, <2>3, <2>4, NoneLost
  <2>6. /\ command[c].ask \in Asked
        /\ command[c].ask.op \in Acting => command[c].op \in Acting
    BY <1>1, AsksOwn
  <2>7. m \in Messages /\ m.from = c /\ m.ask = command[c].ask /\ m.gone = command[c].gone
    BY <2>2, <2>6, <2>27 DEF Message, Messages, Submitters, Ids
  <2> DEFINE n == Len(channel.backlog)
  <2>24. /\ channel.backlog \in Seq(Messages) /\ channel.typed \in Seq(Messages) /\ channel.buffer \in Seq(Messages)
         /\ channel.busy \in Messages \cup {Nil}
         /\ channel = [backlog |-> channel.backlog, typed |-> channel.typed, buffer |-> channel.buffer,
                       busy |-> channel.busy]
    BY <1>3 DEF ChannelTypeOK
  <2>25. channel' = [backlog |-> Append(channel.backlog, m), typed |-> channel.typed, buffer |-> channel.buffer,
                     busy |-> channel.busy]
    BY <2>1, <2>24
  <2>26. /\ Append(channel.backlog, m) \in Seq(Messages) /\ n \in Nat /\ DOMAIN channel.backlog = 1..n
         /\ DOMAIN Append(channel.backlog, m) = 1..(n + 1)
         /\ \A i \in 1..n : Append(channel.backlog, m)[i] = channel.backlog[i]
         /\ Append(channel.backlog, m)[n + 1] = m
    BY <2>7, <2>24
  <2>8. /\ channel'.backlog \in Seq(Messages) /\ n \in Nat /\ DOMAIN channel.backlog = 1..n
        /\ DOMAIN channel'.backlog = 1..(n + 1)
        /\ \A i \in 1..n : channel'.backlog[i] = channel.backlog[i]
        /\ channel'.backlog[n + 1] = m
        /\ channel'.busy = channel.busy /\ channel'.typed = channel.typed /\ channel'.buffer = channel.buffer
        /\ channel' \in [backlog : Seq(Messages), typed : Seq(Messages), buffer : Seq(Messages),
                         busy : Messages \cup {Nil}]
    BY <2>24, <2>25, <2>26
  <2> HIDE DEF n
  <2>9. /\ past' \in [sent : SUBSET Ids, senders : SUBSET Ids, settled : SUBSET Ids, inspected : SUBSET Commands, typed : Nat,
                      executed : SUBSET Ids, auto : [Ids -> Nat]]
        /\ past'.sent = past.sent /\ past'.settled = past.settled /\ past'.inspected = past.inspected
        /\ past'.senders = past.senders /\ past'.executed = past.executed
        /\ \A x \in Ids : past'.auto[x] = IF auto /\ x = command[c].action THEN past.auto[x] + 1 ELSE past.auto[x]
    <3>1. past \in [sent : SUBSET Ids, senders : SUBSET Ids, settled : SUBSET Ids, inspected : SUBSET Commands, typed : Nat,
                    executed : SUBSET Ids, auto : [Ids -> Nat]]
      BY <1>3 DEF ChannelTypeOK
    <3>2. auto => command[c].action \in Ids
      BY <2>2 DEF Submitters
    <3>3. CASE auto
      <4> DEFINE a == [past.auto EXCEPT ![command[c].action] = @ + 1]
      <4>1. /\ a \in [Ids -> Nat]
            /\ \A x \in Ids : a[x] = IF x = command[c].action THEN past.auto[x] + 1 ELSE past.auto[x]
        BY <3>1, <3>2, <3>3
      <4>2. past' = [past EXCEPT !.auto = a]
        BY <2>1, <3>3
      <4> HIDE DEF a
      <4> QED
        BY <3>1, <3>3, <4>1, <4>2
    <3>4. CASE ~auto
      BY <2>1, <3>1, <3>4
    <3> QED
      BY <3>3, <3>4
  <2> HIDE DEF auto
  <2>10. ChannelTypeOK'
    BY <1>1, <1>3, <2>5, <2>8, <2>9 DEF ChannelTypeOK
  <2>11. \A x : x # c => (Waits(x)' <=> Waits(x))
    <3> SUFFICES ASSUME NEW x, x # c
                 PROVE  (\E i \in DOMAIN channel'.backlog : channel'.backlog[i].from = x)
                          <=> \E i \in DOMAIN channel.backlog : channel.backlog[i].from = x
      BY <2>8 DEF Waits
    <3>1. ASSUME NEW i \in DOMAIN channel.backlog, channel.backlog[i].from = x
          PROVE  i \in DOMAIN channel'.backlog /\ channel'.backlog[i].from = x
      BY <2>8, <3>1
    <3>2. ASSUME NEW i \in DOMAIN channel'.backlog, channel'.backlog[i].from = x
          PROVE  i \in DOMAIN channel.backlog /\ channel.backlog[i].from = x
      BY <2>7, <2>8, <3>2
    <3> QED
      BY <3>1, <3>2
  <2>12. OneMessage'
    <3>1. ASSUME NEW k, k.from \in Commands, k.from # c, Carries(k)
          PROVE  Carries(k)'
      BY <2>5, <3>1 DEF Carries
    <3>2. Carries(m)'
      BY <2>3, <2>5, <2>6, <2>7 DEF Carries
    <3>3. \A i \in 1..n : channel.backlog[i].from # c
      BY <1>2, <2>8 DEF Waits
    <3>4. channel.busy # Nil => channel.busy.from # c
      BY <1>2 DEF Waits
    <3>5. \A i \in DOMAIN channel'.backlog :
            /\ channel'.backlog[i].from \in Commands /\ Carries(channel.backlog[i])'
            /\ channel'.busy # Nil => channel'.busy.from # channel'.backlog[i].from
            /\ \A j \in DOMAIN channel'.backlog : channel'.backlog[i].from = channel'.backlog[j].from => i = j
      <4> TAKE i \in DOMAIN channel'.backlog
      <4>1. CASE i \in 1..n
        <5>1. /\ channel.backlog[i].from \in Commands /\ Carries(channel.backlog[i])
              /\ channel.busy # Nil => channel.busy.from # channel.backlog[i].from
              /\ \A j \in 1..n : channel.backlog[i].from = channel.backlog[j].from => i = j
          BY <1>3, <2>8, <4>1 DEF OneMessage
        <5>2. PICK k : k = channel.backlog[i]
          OBVIOUS
        <5>3. Carries(k)'
          BY <3>1, <3>3, <4>1, <5>1, <5>2
        <5>4. Carries(channel.backlog[i])'
          BY <2>8, <4>1, <5>2, <5>3
        <5>5. channel'.backlog[i].from \in Commands
          BY <2>8, <4>1, <5>1
        <5>6. channel'.busy # Nil => channel'.busy.from # channel'.backlog[i].from
          BY <2>8, <4>1, <5>1
        <5>7. \A j \in DOMAIN channel'.backlog : channel'.backlog[i].from = channel'.backlog[j].from => i = j
          BY <2>7, <2>8, <3>3, <4>1, <5>1
        <5> QED
          BY <5>4, <5>5, <5>6, <5>7
      <4>2. CASE i = n + 1
        <5>1. Carries(channel.backlog[i])'
          BY <2>8, <3>2, <4>2
        <5>2. channel'.backlog[i].from \in Commands
          BY <2>7, <2>8, <4>2
        <5>3. channel'.busy # Nil => channel'.busy.from # channel'.backlog[i].from
          BY <2>7, <2>8, <3>4, <4>2
        <5>4. \A j \in DOMAIN channel'.backlog : channel'.backlog[i].from = channel'.backlog[j].from => i = j
          BY <2>7, <2>8, <3>3, <4>2
        <5> QED
          BY <5>1, <5>2, <5>3, <5>4
      <4> QED
        BY <2>8, <4>1, <4>2
    <3>6. channel'.busy # Nil /\ channel'.busy.from \in Commands => Carries(channel.busy)'
      <4>1. PICK k : k = channel.busy
        OBVIOUS
      <4>2. k # Nil /\ k.from \in Commands => Carries(k)'
        BY <1>3, <3>1, <3>4, <4>1 DEF OneMessage
      <4> QED
        BY <2>8, <4>1, <4>2
    <3> QED
      BY <1>3, <2>8, <3>5, <3>6 DEF OneMessage
  <2>13. InspectionsBehind'
    <3>1. \A x \in Commands : command'[x].gone \subseteq Lost'
      BY <1>3, <2>3, <2>5 DEF InspectionsBehind
    <3>2. \A i \in DOMAIN channel'.backlog :
            /\ channel'.backlog[i].gone \subseteq Lost'
            /\ \A j \in DOMAIN channel'.backlog : i <= j => channel'.backlog[j].from \notin channel'.backlog[i].gone
      <4> TAKE i \in DOMAIN channel'.backlog
      <4>1. channel'.backlog[i].gone \subseteq Lost'
        <5>1. i \in 1..n => channel.backlog[i].gone \subseteq Lost
          BY <1>3, <2>8 DEF InspectionsBehind
        <5>2. command[c].gone \subseteq Lost
          BY <1>3 DEF InspectionsBehind
        <5> QED
          BY <2>5, <2>7, <2>8, <5>1, <5>2
      <4>2. ASSUME NEW j \in DOMAIN channel'.backlog, i <= j
            PROVE  channel'.backlog[j].from \notin channel'.backlog[i].gone
        <5>1. CASE j = n + 1
          BY <1>2, <2>5, <2>7, <2>8, <4>1, <5>1
        <5>2. CASE j \in 1..n
          <6>1. i \in 1..n
            BY <2>8, <4>2, <5>2
          <6> QED
            BY <1>3, <2>8, <4>2, <5>2, <6>1 DEF InspectionsBehind
        <5> QED
          BY <2>8, <5>1, <5>2
      <4> QED
        BY <4>1, <4>2
    <3>3. \A x \in Lost : x # c
      BY <1>2
    <3> QED
      BY <1>3, <2>5, <2>8, <2>9, <2>11, <3>1, <3>2, <3>3 DEF InspectionsBehind
  <2>14. ASSUME NEW x \in Ids, Untouched(x)
         PROVE  Untouched(x)'
    <3>1. command[c].action # x
      BY <2>14 DEF Untouched
    <3> QED
      BY <1>1, <2>3, <2>5, <2>9, <2>14, <3>1 DEF Untouched
  <2>15. CommandsFresh'
    BY <1>2, <1>3, <2>5, <2>11, <2>14 DEF CommandsFresh, Ids
  <2>16. ConsoleFresh'
    BY <1>3, <2>8, <2>9, <2>14 DEF ConsoleFresh, Ids
  <2>17. AsksRightly'
    <3>1. \A x \in Commands : Settling(x)' <=> Settling(x)
      BY <1>1, <2>3, <2>5, <2>9 DEF Settling
    <3> QED
      BY <1>1, <1>3, <2>3, <2>5, <2>6, <3>1 DEF AsksRightly
  <2>18. Told'
    <3>1. \A x \in Ids : Unsendable(x) => Unsendable(x)'
      BY <1>1, <2>5, <2>8, <2>9, <2>11, OverStays, ChannelAssumption
    <3>2. ASSUME NEW x \in Commands, x # c
          PROVE  ReportTrue(x)'
      BY <1>1, <1>3, <2>5, <2>9, <2>11, <3>1, <3>2, TellsOn DEF Told
    <3>3. command'[c].report = Printed(NoReport) /\ command'[c].report.sent = "absent"
            /\ command'[c].report.status = "answered"
      BY <1>2, <2>3, <2>5 DEF Printed, NoReport, Answer
    <3>4. ReportTrue(c)'
      BY <2>3, <2>5, <3>3 DEF ReportTrue
    <3>5. StateTrue'
      BY <1>1, <1>3, <2>9 DEF Told, StateTrue
    <3> QED
      BY <3>2, <3>4, <3>5 DEF Told
  <2>19. Counted'
    <3> SUFFICES ASSUME NEW x \in Ids
                 PROVE  /\ past'.auto[x] + Cardinality(About(x)') <= RECOVERY_LIMIT
                        /\ state' # Nil /\ state'.id = x => past'.auto[x] + Cardinality(About(x)') <= state'.tries
      BY DEF Counted
    <3>1. past'.auto[x] \in Nat /\ past.auto[x] \in Nat /\ IsFiniteSet(About(x)) /\ Cardinality(About(x)) \in Nat
      BY <1>3, <2>10, AboutFinite DEF ChannelTypeOK
    <3>2. About(x)' = About(x) \ {c}
      BY <2>3, <2>5 DEF About
    <3>3. c \in About(x) <=> auto /\ x = command[c].action
      BY <1>1, ChannelAssumption DEF About, auto, Ids
    <3>4. past'.auto[x] + Cardinality(About(x)') = past.auto[x] + Cardinality(About(x))
      <4>1. Cardinality(About(x) \ {c}) = IF c \in About(x) THEN Cardinality(About(x)) - 1 ELSE Cardinality(About(x))
        BY <3>1, FS_RemoveElement
      <4> QED
        BY <2>9, <3>1, <3>2, <3>3, <4>1
    <3> QED
      BY <1>1, <1>3, <3>4 DEF Counted
  <2> QED
    BY <2>10, <2>12, <2>13, <2>15, <2>16, <2>17, <2>18, <2>19 DEF ChannelInv
<1> QED
  BY <1>4, <1>5

LEMMA GiveUpKeeps ==
  ASSUME ChannelInv, NEW c \in Commands, GiveUp(c)
  PROVE  ChannelInv'
<1> DEFINE r == Ends(c, Unanswered)
<1>1. command[c].phase = "waiting" /\ UNCHANGED <<adapter, state, channel, packets, past>>
  BY DEF GiveUp
<1>2. ChannelTypeOK /\ OneMessage /\ InspectionsBehind /\ CommandsFresh /\ ConsoleFresh /\ AsksRightly /\ Told /\ Counted
  BY DEF ChannelInv
<1>3. Printed(Unanswered) = [status |-> "reply_unknown", sent |-> "unknown", of |-> Nil, open |-> FALSE]
  BY DEF Printed, Unanswered, Answer
<1>4. /\ r \in Submitters /\ r.phase = "done" /\ r.op = command[c].op /\ r.action = command[c].action
      /\ r.gone = {} /\ r.report = Printed(Unanswered)
  <2>1. Unanswered.sent = "unknown" /\ Unanswered.pending = Nil
    BY DEF Unanswered, Answer
  <2> QED
    BY <1>2, <2>1, EndsHolds
<1>5. command' = [command EXCEPT ![c] = r]
  BY DEF GiveUp
<1> HIDE DEF r
<1>6. /\ command' \in [Commands -> Submitters]
      /\ \A x \in Commands : command'[x] = IF x = c THEN r ELSE command[x]
  BY <1>2, <1>4, <1>5 DEF ChannelTypeOK
<1>7. Lost' = Lost \cup {c}
  BY <1>3, <1>4, <1>6 DEF Lost
<1>8. ChannelTypeOK'
  BY <1>1, <1>2, <1>6 DEF ChannelTypeOK
<1>9. \A x : Waits(x)' <=> Waits(x)
  BY <1>1 DEF Waits
<1>10. OneMessage'
  <2>1. ASSUME NEW m, m.from \in Commands, Carries(m)
        PROVE  Carries(m)'
    BY <1>4, <1>6, <1>7, <2>1 DEF Carries
  <2> QED
    BY <1>1, <1>2, <2>1 DEF OneMessage
<1>11. InspectionsBehind'
  BY <1>1, <1>2, <1>4, <1>6, <1>7, <1>9 DEF InspectionsBehind
<1>12. \A x \in Ids : Untouched(x) => Untouched(x)'
  BY <1>1, <1>4, <1>6 DEF Untouched
<1>13. CommandsFresh'
  BY <1>1, <1>2, <1>4, <1>6, <1>9, <1>12 DEF CommandsFresh, Ids
<1>14. ConsoleFresh'
  BY <1>1, <1>2, <1>12 DEF ConsoleFresh, Ids
<1>15. AsksRightly'
  <2>1. \A x \in Commands \ {c} : Settling(x)' <=> Settling(x)
    BY <1>1, <1>6 DEF Settling
  <2> QED
    BY <1>2, <1>4, <1>6, <2>1 DEF AsksRightly
<1>16. Told'
  <2>1. ConsoleAsks' <=> ConsoleAsks
    BY <1>1 DEF ConsoleAsks
  <2>2. \A x \in Ids : Over(x) => Over(x)'
    BY <1>1, <1>4, <1>6, <1>9, <2>1 DEF Over, Ids
  <2>3. \A x \in Ids : Unsendable(x) => Unsendable(x)'
    BY <1>1, <2>2 DEF Unsendable
  <2>4. ASSUME NEW x \in Commands, x # c
        PROVE  ReportTrue(x)'
    BY <1>1, <1>2, <1>6, <1>9, <2>3, <2>4, TellsOn DEF Told
  <2>5. r.report.sent = "unknown" /\ r.report.status = "reply_unknown"
    BY <1>3, <1>4
  <2>6. ReportTrue(c)'
    BY <1>4, <1>6, <2>5 DEF ReportTrue
  <2>7. StateTrue'
    BY <1>1, <1>2 DEF Told, StateTrue
  <2> QED
    BY <2>4, <2>6, <2>7 DEF Told
<1>17. Counted'
  <2>1. \A x \in Ids : About(x)' = About(x)
    BY <1>1, <1>4, <1>6 DEF About
  <2> QED
    BY <1>1, <1>2, <2>1 DEF Counted
<1> QED
  BY <1>8, <1>10, <1>11, <1>13, <1>14, <1>15, <1>16, <1>17 DEF ChannelInv

-------------------------------------------------------------------------------
(* The steps of the adapter over its channel *)

\* Messages are moved, and none is added to those of the commands.
LEMMA MessagesMove ==
  ASSUME ChannelInv, UNCHANGED <<state, command, packets>>,
         past'.sent = past.sent, past'.settled = past.settled, past'.inspected = past.inspected,
         past'.senders = past.senders, past'.auto = past.auto,
         \A x \in Commands : Waits(x)' => Waits(x), Over(Console) => Over(Console)'
  PROVE  /\ Lost' = Lost /\ CommandsFresh' /\ AsksRightly' /\ Told' /\ Counted'
         /\ \A x \in Ids : Untouched(x)' <=> Untouched(x)
         /\ \A m : Carries(m)' <=> Carries(m)
<1>1. ChannelTypeOK /\ OneMessage /\ InspectionsBehind /\ CommandsFresh /\ ConsoleFresh /\ AsksRightly /\ Told /\ Counted
  BY DEF ChannelInv
<1>2. Lost' = Lost
  BY DEF Lost
<1>3. \A x \in Ids : Untouched(x)' <=> Untouched(x)
  BY DEF Untouched
<1>4. \A m : Carries(m)' <=> Carries(m)
  BY <1>2 DEF Carries
<1>5. CommandsFresh'
  BY <1>1, <1>3 DEF CommandsFresh, Ids
<1>6. AsksRightly'
  BY <1>1 DEF AsksRightly, Settling
<1>7. Told'
  <2>1. \A x \in Ids : Over(x) => Over(x)'
    BY ChannelAssumption DEF Over, Ids
  <2>2. \A x \in Ids : Unsendable(x) => Unsendable(x)'
    BY <2>1 DEF Unsendable
  <2>3. \A x \in Commands : ReportTrue(x)'
    BY <1>1, <2>2, TellsOn DEF Told
  <2>4. StateTrue'
    BY <1>1 DEF Told, StateTrue
  <2> QED
    BY <2>3, <2>4 DEF Told
<1>8. Counted'
  <2>1. \A x \in Ids : About(x)' = About(x)
    BY DEF About
  <2> QED
    BY <1>1, <2>1 DEF Counted
<1> QED
  BY <1>2, <1>3, <1>4, <1>5, <1>6, <1>7, <1>8

LEMMA OpenKeeps ==
  ASSUME ChannelInv, OpenAdapter
  PROVE  ChannelInv'
<1>1. UNCHANGED <<state, channel, command, packets, past>>
  BY DEF OpenAdapter
<1>2. ChannelTypeOK /\ OneMessage /\ InspectionsBehind /\ ConsoleFresh
  BY DEF ChannelInv
<1>3. \A x : Waits(x)' <=> Waits(x)
  BY <1>1 DEF Waits
<1>4. /\ Lost' = Lost /\ CommandsFresh' /\ AsksRightly' /\ Told' /\ Counted'
      /\ \A x \in Ids : Untouched(x)' <=> Untouched(x)
      /\ \A m : Carries(m)' <=> Carries(m)
  <2>1. Over(Console) => Over(Console)'
    BY <1>1 DEF Over, ConsoleAsks
  <2> QED
    BY <1>1, <1>3, <2>1, MessagesMove
<1>5. ChannelTypeOK'
  <2>1. adapter' \in [up : BOOLEAN, opened : Nat, armed : BOOLEAN]
    BY <1>2 DEF OpenAdapter, ChannelTypeOK
  <2> QED
    BY <1>1, <1>2, <2>1 DEF ChannelTypeOK
<1>6. OneMessage'
  BY <1>1, <1>2, <1>4 DEF OneMessage
<1>7. InspectionsBehind'
  BY <1>1, <1>2, <1>3, <1>4 DEF InspectionsBehind
<1>8. ConsoleFresh'
  BY <1>1, <1>2, <1>4 DEF ConsoleFresh, Ids
<1> QED
  BY <1>4, <1>5, <1>6, <1>7, <1>8 DEF ChannelInv

LEMMA TypeKeeps ==
  ASSUME ChannelInv, TypeLine
  PROVE  ChannelInv'
<1>1. PICK op \in {"arm", "summary"} \cup (IF Console \in past.executed THEN {} ELSE {"execute"}) :
        /\ channel' = [channel EXCEPT !.typed = Append(@, Message(Console, Ask(op), Lost))]
        /\ past' = [past EXCEPT !.typed = @ + 1,
                         !.executed = IF op = "execute" THEN @ \cup {Console} ELSE @]
  BY DEF TypeLine
<1>2. UNCHANGED <<adapter, state, command, packets>>
  BY DEF TypeLine
<1>3. ChannelTypeOK /\ OneMessage /\ InspectionsBehind /\ ConsoleFresh
  BY DEF ChannelInv
<1>4. PICK m : m = Message(Console, Ask(op), Lost)
  OBVIOUS
<1>5. m \in Messages /\ m.from = Console /\ m.ask.op = op /\ m.gone = Lost
  <2>1. Ask(op) \in Asked /\ Lost \in SUBSET Commands
    BY DEF Ask, Asked, Operations, Naming, Lost
  <2> QED
    BY <1>4, <2>1 DEF Message, Messages, Ids, Ask
<1> DEFINE n == Len(channel.typed)
<1>6. /\ channel.backlog \in Seq(Messages) /\ channel.typed \in Seq(Messages) /\ channel.buffer \in Seq(Messages)
      /\ channel.busy \in Messages \cup {Nil}
      /\ channel = [backlog |-> channel.backlog, typed |-> channel.typed, buffer |-> channel.buffer,
                    busy |-> channel.busy]
  BY <1>3 DEF ChannelTypeOK
<1>7. channel' = [backlog |-> channel.backlog, typed |-> Append(channel.typed, m), buffer |-> channel.buffer,
                  busy |-> channel.busy]
  BY <1>1, <1>4, <1>6
<1>8. /\ Append(channel.typed, m) \in Seq(Messages) /\ n \in Nat /\ DOMAIN channel.typed = 1..n
      /\ DOMAIN Append(channel.typed, m) = 1..(n + 1)
      /\ \A i \in 1..n : Append(channel.typed, m)[i] = channel.typed[i]
      /\ Append(channel.typed, m)[n + 1] = m
  BY <1>5, <1>6
<1>9. /\ channel'.typed \in Seq(Messages) /\ DOMAIN channel'.typed = 1..(n + 1)
      /\ \A i \in 1..n : channel'.typed[i] = channel.typed[i]
      /\ channel'.typed[n + 1] = m
      /\ channel'.busy = channel.busy /\ channel'.backlog = channel.backlog /\ channel'.buffer = channel.buffer
      /\ channel' \in [backlog : Seq(Messages), typed : Seq(Messages), buffer : Seq(Messages),
                       busy : Messages \cup {Nil}]
  BY <1>6, <1>7, <1>8
<1> HIDE DEF n
<1>10. /\ past' \in [sent : SUBSET Ids, senders : SUBSET Ids, settled : SUBSET Ids, inspected : SUBSET Commands, typed : Nat,
                     executed : SUBSET Ids, auto : [Ids -> Nat]]
       /\ past'.sent = past.sent /\ past'.settled = past.settled /\ past'.inspected = past.inspected
       /\ past'.senders = past.senders /\ past'.auto = past.auto
       /\ past'.executed = IF op = "execute" THEN past.executed \cup {Console} ELSE past.executed
  <2>1. past \in [sent : SUBSET Ids, senders : SUBSET Ids, settled : SUBSET Ids, inspected : SUBSET Commands, typed : Nat,
                  executed : SUBSET Ids, auto : [Ids -> Nat]]
    BY <1>3 DEF ChannelTypeOK
  <2>2. PICK x : x = IF op = "execute" THEN past.executed \cup {Console} ELSE past.executed
    OBVIOUS
  <2>3. x \in SUBSET Ids
    BY <2>1, <2>2 DEF Ids
  <2>4. past' = [past EXCEPT !.typed = @ + 1, !.executed = x]
    BY <1>1, <2>2
  <2>5. past' = [sent |-> past.sent, senders |-> past.senders, settled |-> past.settled, inspected |-> past.inspected,
                 typed |-> past.typed + 1, executed |-> x, auto |-> past.auto]
    BY <2>1, <2>4
  <2> QED
    BY <2>1, <2>2, <2>3, <2>5
<1>11. ChannelTypeOK'
  BY <1>2, <1>3, <1>9, <1>10 DEF ChannelTypeOK
<1>12. \A x : Waits(x)' <=> Waits(x)
  BY <1>9 DEF Waits
<1>13. /\ Lost' = Lost /\ CommandsFresh' /\ AsksRightly' /\ Told' /\ Counted'
       /\ \A x \in Ids : Untouched(x)' <=> Untouched(x)
       /\ \A k : Carries(k)' <=> Carries(k)
  <2>1. ASSUME Over(Console)
        PROVE  Over(Console)'
    <3>1. Console \in past.executed /\ ~ConsoleAsks
      BY <2>1 DEF Over
    <3>2. op \notin Acting
      BY <1>1, <3>1 DEF Acting
    <3>3. ~ConsoleExecutes(m)
      BY <1>5, <3>2 DEF ConsoleExecutes
    <3>4. \A i \in DOMAIN channel'.typed : ~ConsoleExecutes(channel'.typed[i])
      BY <1>8, <1>9, <3>1, <3>3 DEF ConsoleAsks
    <3>5. ~ConsoleAsks'
      BY <1>9, <3>1, <3>4 DEF ConsoleAsks
    <3> QED
      BY <1>10, <3>1, <3>5 DEF Over
  <2> QED
    BY <1>2, <1>10, <1>12, <2>1, MessagesMove
<1>14. OneMessage'
  <2>1. \A i \in DOMAIN channel'.typed : channel'.typed[i].from = Console
    BY <1>3, <1>5, <1>8, <1>9 DEF OneMessage
  <2> QED
    BY <1>3, <1>9, <1>13, <2>1 DEF OneMessage
<1>15. InspectionsBehind'
  <2>1. \A i \in DOMAIN channel'.typed : channel'.typed[i].gone \subseteq Lost'
    <3>1. \A i \in 1..n : channel.typed[i].gone \subseteq Lost
      BY <1>3, <1>8 DEF InspectionsBehind
    <3> QED
      BY <1>5, <1>8, <1>9, <1>13, <3>1
  <2> QED
    BY <1>2, <1>3, <1>9, <1>10, <1>12, <1>13, <2>1 DEF InspectionsBehind
<1>16. ConsoleFresh'
  <2>1. Console \in Ids
    BY DEF Ids
  <2>2. CASE op = "execute"
    <3>1. Console \notin past.executed
      BY <1>1, <2>2
    <3>2. /\ Untouched(Console) /\ ~(channel.busy # Nil /\ ConsoleExecutes(channel.busy))
          /\ \A i \in DOMAIN channel.typed : ~ConsoleExecutes(channel.typed[i])
          /\ \A i \in DOMAIN channel.buffer : ~ConsoleExecutes(channel.buffer[i])
      BY <1>3, <3>1 DEF ConsoleFresh
    <3>3. \A i \in DOMAIN channel'.typed : ConsoleExecutes(channel'.typed[i]) => i = n + 1
      BY <1>8, <1>9, <3>2
    <3>4. \A i \in DOMAIN channel'.buffer : ~ConsoleExecutes(channel'.buffer[i])
      BY <1>9, <3>2
    <3>5. ~(channel'.busy # Nil /\ ConsoleExecutes(channel'.busy))
      BY <1>9, <3>2
    <3>6. Console \in past'.executed /\ Untouched(Console)'
      BY <1>10, <1>13, <2>1, <2>2, <3>2
    <3> QED
      BY <3>3, <3>4, <3>5, <3>6 DEF ConsoleFresh
  <2>3. CASE op # "execute"
    <3>1. ~ConsoleExecutes(m)
      BY <1>1, <1>5, <2>3 DEF ConsoleExecutes, Acting
    <3>2. {i \in DOMAIN channel'.typed : ConsoleExecutes(channel'.typed[i])}
            = {i \in DOMAIN channel.typed : ConsoleExecutes(channel.typed[i])}
      BY <1>8, <1>9, <3>1
    <3>3. past'.executed = past.executed /\ (Untouched(Console)' <=> Untouched(Console))
      BY <1>10, <1>13, <2>1, <2>3
    <3> QED
      BY <1>3, <1>9, <3>2, <3>3 DEF ConsoleFresh
  <2> QED
    BY <2>2, <2>3
<1> QED
  BY <1>11, <1>13, <1>14, <1>15, <1>16 DEF ChannelInv

LEMMA WriteKeeps ==
  ASSUME ChannelInv, WritePacket
  PROVE  ChannelInv'
<1>1. UNCHANGED <<adapter, state, channel, command, past>>
  BY DEF WritePacket
<1>2. ChannelTypeOK /\ OneMessage /\ InspectionsBehind /\ CommandsFresh /\ ConsoleFresh /\ AsksRightly /\ Told /\ Counted
  BY DEF ChannelInv
<1>3. /\ packets' \in Seq([action : Ids, right : BOOLEAN])
      /\ \A i \in DOMAIN packets : i \in DOMAIN packets' /\ packets'[i] = packets[i]
  <2>1. state \in Pendings /\ packets \in Seq([action : Ids, right : BOOLEAN])
    BY <1>2 DEF ChannelTypeOK, WritePacket
  <2>2. PICK right \in BOOLEAN : packets' = Append(packets, [action |-> state.id, right |-> right])
    BY DEF WritePacket
  <2>3. [action |-> state.id, right |-> right] \in [action : Ids, right : BOOLEAN]
    BY <2>1 DEF Pendings
  <2> QED
    BY <2>1, <2>2, <2>3
<1>4. ChannelTypeOK'
  BY <1>1, <1>2, <1>3 DEF ChannelTypeOK
<1>5. /\ OneMessage' /\ InspectionsBehind' /\ CommandsFresh' /\ ConsoleFresh' /\ Told' /\ Counted'
  BY <1>1, <1>2 DEF OneMessage, InspectionsBehind, CommandsFresh, ConsoleFresh, Told, Counted,
                    Carries, Waits, Lost, Untouched, About, StateTrue, ReportTrue, Unsendable, Over, ConsoleAsks
<1>6. AsksRightly'
  BY <1>1, <1>2, <1>3 DEF AsksRightly, Settling
<1> QED
  BY <1>4, <1>5, <1>6 DEF ChannelInv

LEMMA LateKeeps ==
  ASSUME ChannelInv, TimeRunsOut
  PROVE  ChannelInv'
<1>1. UNCHANGED <<adapter, channel, command, packets, past>>
  BY DEF TimeRunsOut
<1>2. ChannelTypeOK /\ OneMessage /\ InspectionsBehind /\ CommandsFresh /\ ConsoleFresh /\ AsksRightly /\ Told /\ Counted
  BY DEF ChannelInv
<1>3. /\ state \in Pendings /\ state # Nil
      /\ state' \in Pendings /\ state'.id = state.id /\ state'.status = state.status
      /\ state'.response = state.response /\ state'.tries = state.tries
  BY <1>2 DEF TimeRunsOut, ChannelTypeOK, Pendings
<1>4. ChannelTypeOK'
  BY <1>1, <1>2, <1>3 DEF ChannelTypeOK
<1>5. /\ OneMessage' /\ InspectionsBehind'
  BY <1>1, <1>2 DEF OneMessage, InspectionsBehind, Carries, Waits, Lost
<1>6. \A x : Untouched(x) => Untouched(x)'
  BY <1>1, <1>3 DEF Untouched
<1>7. CommandsFresh' /\ ConsoleFresh'
  BY <1>1, <1>2, <1>6 DEF CommandsFresh, ConsoleFresh, Waits
<1>8. AsksRightly'
  BY <1>1, <1>2, <1>3, ChannelAssumption DEF AsksRightly, Settling
<1>10. Told'
  <2>1. \A x \in Ids : Unsendable(x) => Unsendable(x)'
    BY <1>1, <1>3 DEF Unsendable, Over, ConsoleAsks, Waits
  <2>2. \A x \in Commands : ReportTrue(x)'
    BY <1>1, <1>2, <2>1, TellsOn DEF Told, Waits
  <2>3. StateTrue'
    BY <1>1, <1>2, <1>3 DEF Told, StateTrue, Unsent
  <2> QED
    BY <2>2, <2>3 DEF Told
<1>9. Counted'
  BY <1>1, <1>2, <1>3 DEF Counted, About
<1> QED
  BY <1>4, <1>5, <1>7, <1>8, <1>9, <1>10 DEF ChannelInv

LEMMA AcceptKeeps ==
  ASSUME ChannelInv, Accept
  PROVE  ChannelInv'
<1>1. /\ UNCHANGED <<adapter, state, command, packets, past>>
      /\ channel.busy = Nil /\ channel.backlog # <<>> /\ channel.buffer = <<>>
  BY DEF Accept, Free
<1>2. ChannelTypeOK /\ OneMessage /\ InspectionsBehind /\ ConsoleFresh
  BY DEF ChannelInv
<1>3. PICK taken \in BOOLEAN :
        channel' = [channel EXCEPT !.backlog = Tail(@), !.busy = IF taken THEN Head(channel.backlog) ELSE Nil]
  BY DEF Accept
<1>4. PICK n : n = Len(channel.backlog)
  OBVIOUS
<1>5. PICK h : h = Head(channel.backlog)
  OBVIOUS
<1>6. /\ channel.backlog \in Seq(Messages) /\ channel.typed \in Seq(Messages) /\ channel.buffer \in Seq(Messages)
      /\ channel.busy \in Messages \cup {Nil}
      /\ channel = [backlog |-> channel.backlog, typed |-> channel.typed, buffer |-> channel.buffer,
                    busy |-> channel.busy]
  BY <1>2 DEF ChannelTypeOK
<1>7. /\ n \in Nat \ {0} /\ DOMAIN channel.backlog = 1..n /\ h = channel.backlog[1] /\ h \in Messages
      /\ Tail(channel.backlog) \in Seq(Messages) /\ DOMAIN Tail(channel.backlog) = 1..(n - 1)
      /\ \A i \in 1..(n - 1) : Tail(channel.backlog)[i] = channel.backlog[i + 1]
  BY <1>1, <1>4, <1>5, <1>6
<1>8. channel' = [backlog |-> Tail(channel.backlog), typed |-> channel.typed, buffer |-> channel.buffer,
                  busy |-> IF taken THEN h ELSE Nil]
  BY <1>3, <1>5, <1>6
<1>9. /\ DOMAIN channel'.backlog = 1..(n - 1)
      /\ \A i \in 1..(n - 1) : channel'.backlog[i] = channel.backlog[i + 1]
      /\ channel'.typed = channel.typed /\ channel'.buffer = channel.buffer
      /\ channel'.busy \in {h, Nil}
      /\ channel' \in [backlog : Seq(Messages), typed : Seq(Messages), buffer : Seq(Messages),
                       busy : Messages \cup {Nil}]
  BY <1>6, <1>7, <1>8
<1>10. ChannelTypeOK'
  BY <1>1, <1>2, <1>9 DEF ChannelTypeOK
<1>17. 1 \in 1..n /\ \A i \in 1..(n - 1) : i + 1 \in 1..n
  BY <1>7
<1>11. \A x : Waits(x)' => Waits(x)
  <2>1. \A x : (\E i \in 1..(n - 1) : channel'.backlog[i].from = x) => Waits(x)
    BY <1>7, <1>9, <1>17 DEF Waits
  <2>2. \A x : h.from = x => Waits(x)
    BY <1>7, <1>17 DEF Waits
  <2> QED
    BY <1>9, <2>1, <2>2 DEF Waits
<1>12. /\ Lost' = Lost /\ CommandsFresh' /\ AsksRightly' /\ Told' /\ Counted'
       /\ \A x \in Ids : Untouched(x)' <=> Untouched(x)
       /\ \A k : Carries(k)' <=> Carries(k)
  <2>1. Over(Console) => Over(Console)'
    <3>1. ~ConsoleExecutes(h)
      BY <1>2, <1>7, <1>17, ChannelAssumption DEF OneMessage, ConsoleExecutes
    <3> QED
      BY <1>1, <1>9, <3>1 DEF Over, ConsoleAsks
  <2> QED
    BY <1>1, <1>11, <2>1, MessagesMove
<1>13. /\ \A i \in 1..n : channel.backlog[i].from \in Commands /\ Carries(channel.backlog[i])
       /\ \A i, j \in 1..n : channel.backlog[i].from = channel.backlog[j].from => i = j
  BY <1>2, <1>7 DEF OneMessage
<1>14. OneMessage'
  <2>1. ASSUME NEW i \in 1..(n - 1)
        PROVE  /\ channel'.backlog[i].from \in Commands /\ Carries(channel.backlog[i])'
               /\ channel'.busy # Nil => channel'.busy.from # channel'.backlog[i].from
               /\ \A j \in 1..(n - 1) : channel'.backlog[i].from = channel'.backlog[j].from => i = j
    <3>1. i + 1 \in 1..n /\ 1 \in 1..n /\ i + 1 # 1
      BY <1>7
    <3>2. PICK k : k = channel.backlog[i + 1]
      OBVIOUS
    <3>3. Carries(k)'
      BY <1>12, <1>13, <3>1, <3>2
    <3>4. Carries(channel.backlog[i])'
      BY <1>9, <3>2, <3>3
    <3>5. channel'.backlog[i].from \in Commands
      BY <1>9, <1>13, <3>1
    <3>6. channel'.busy # Nil => channel'.busy.from # channel'.backlog[i].from
      BY <1>7, <1>9, <1>13, <3>1
    <3>7. ASSUME NEW j \in 1..(n - 1), channel'.backlog[i].from = channel'.backlog[j].from
          PROVE  i = j
      <4>1. j + 1 \in 1..n /\ channel.backlog[i + 1].from = channel.backlog[j + 1].from
        BY <1>9, <1>17, <3>7
      <4>2. i + 1 = j + 1
        BY <1>13, <3>1, <4>1
      <4> QED
        BY <1>7, <4>2
    <3> QED
      BY <3>4, <3>5, <3>6, <3>7
  <2>2. channel'.busy # Nil /\ channel'.busy.from \in Commands => Carries(channel.busy)'
    <3>1. Carries(h)'
      BY <1>7, <1>12, <1>13
    <3> QED
      BY <1>9, <3>1
  <2> QED
    BY <1>2, <1>9, <2>1, <2>2 DEF OneMessage
<1>15. InspectionsBehind'
  <2>1. /\ \A i \in 1..n : channel.backlog[i].gone \subseteq Lost
        /\ \A i, j \in 1..n : i <= j => channel.backlog[j].from \notin channel.backlog[i].gone
    BY <1>2, <1>7 DEF InspectionsBehind
  <2>2. ASSUME NEW i \in 1..(n - 1)
        PROVE  /\ channel'.backlog[i].gone \subseteq Lost'
               /\ \A j \in 1..(n - 1) : i <= j => channel'.backlog[j].from \notin channel'.backlog[i].gone
    <3>1. i + 1 \in 1..n /\ \A j \in 1..(n - 1) : j + 1 \in 1..n /\ (i <= j => i + 1 <= j + 1)
      BY <1>7
    <3> QED
      BY <1>9, <1>12, <2>1, <3>1
  <2>3. channel'.busy # Nil => \A c \in channel'.busy.gone : c \in Lost' /\ ~Waits(c)'
    <3> SUFFICES ASSUME channel'.busy # Nil, NEW c \in channel'.busy.gone
                 PROVE  c \in Lost' /\ ~Waits(c)'
      OBVIOUS
    <3>1. channel'.busy = h /\ 1 \in 1..n
      BY <1>7, <1>9
    <3>2. c \in Lost
      BY <1>7, <2>1, <3>1
    <3>3. \A j \in 1..n : channel.backlog[j].from # c
      BY <1>7, <2>1, <3>1
    <3>5. h.from # c
      BY <1>7, <1>17, <3>3
    <3>6. \A j \in 1..(n - 1) : channel'.backlog[j].from # c
      BY <1>9, <1>17, <3>3
    <3>4. ~Waits(c)'
      BY <1>9, <3>1, <3>5, <3>6 DEF Waits
    <3> QED
      BY <1>12, <3>2, <3>4
  <2>4. \A i \in DOMAIN channel'.buffer : \A c \in channel'.buffer[i].gone : c \in Lost' /\ ~Waits(c)'
    BY <1>2, <1>9, <1>11, <1>12 DEF InspectionsBehind
  <2>5. \A c \in past'.inspected : c \in Lost' /\ ~Waits(c)'
    BY <1>1, <1>2, <1>11, <1>12 DEF InspectionsBehind
  <2>6. /\ \A c \in Commands : command'[c].gone \subseteq Lost'
        /\ \A i \in DOMAIN channel'.typed : channel'.typed[i].gone \subseteq Lost'
    BY <1>1, <1>2, <1>9, <1>12 DEF InspectionsBehind
  <2> QED
    BY <1>9, <2>2, <2>3, <2>4, <2>5, <2>6 DEF InspectionsBehind
<1>16. ConsoleFresh'
  <2>1. ~(channel'.busy # Nil /\ ConsoleExecutes(channel'.busy))
    <3>1. h.from # Console
      BY <1>7, <1>13, <1>17, ChannelAssumption
    <3>2. channel'.busy # Nil => channel'.busy = h
      BY <1>9
    <3> QED
      BY <3>1, <3>2 DEF ConsoleExecutes
  <2>2. Untouched(Console)' <=> Untouched(Console)
    BY <1>12 DEF Ids
  <2> QED
    BY <1>1, <1>2, <1>9, <2>1, <2>2 DEF ConsoleFresh
<1> QED
  BY <1>10, <1>12, <1>14, <1>15, <1>16 DEF ChannelInv

LEMMA ReadKeeps ==
  ASSUME ChannelInv, ReadTerminal
  PROVE  ChannelInv'
<1>1. /\ UNCHANGED <<adapter, state, command, packets, past>>
      /\ channel.busy = Nil /\ channel.backlog = <<>> /\ channel.buffer = <<>>
      /\ channel' = [channel EXCEPT !.buffer = channel.typed, !.typed = <<>>]
  BY DEF ReadTerminal, Free, SocketFirst
<1>2. ChannelTypeOK /\ OneMessage /\ InspectionsBehind /\ ConsoleFresh
  BY DEF ChannelInv
<1>3. /\ channel'.backlog = <<>> /\ channel'.typed = <<>> /\ channel'.buffer = channel.typed /\ channel'.busy = Nil
      /\ channel' \in [backlog : Seq(Messages), typed : Seq(Messages), buffer : Seq(Messages),
                       busy : Messages \cup {Nil}]
  <2>1. /\ channel.backlog \in Seq(Messages) /\ channel.typed \in Seq(Messages)
        /\ channel = [backlog |-> channel.backlog, typed |-> channel.typed, buffer |-> channel.buffer,
                      busy |-> channel.busy]
    BY <1>2 DEF ChannelTypeOK
  <2>2. channel' = [backlog |-> <<>>, typed |-> <<>>, buffer |-> channel.typed, busy |-> Nil]
    BY <1>1, <2>1
  <2> QED
    BY <2>1, <2>2
<1>4. ChannelTypeOK'
  BY <1>1, <1>2, <1>3 DEF ChannelTypeOK
<1>5. \A x : ~Waits(x)'
  BY <1>3 DEF Waits
<1>6. /\ Lost' = Lost /\ CommandsFresh' /\ AsksRightly' /\ Told' /\ Counted'
      /\ \A x \in Ids : Untouched(x)' <=> Untouched(x)
  <2>1. Over(Console) => Over(Console)'
    BY <1>1, <1>3 DEF Over, ConsoleAsks
  <2> QED
    BY <1>1, <1>5, <2>1, MessagesMove
<1>7. OneMessage'
  BY <1>2, <1>3 DEF OneMessage
<1>8. InspectionsBehind'
  BY <1>1, <1>2, <1>3, <1>5, <1>6 DEF InspectionsBehind
<1>9. ConsoleFresh'
  <2>1. Untouched(Console)' <=> Untouched(Console)
    BY <1>6 DEF Ids
  <2>2. {i \in DOMAIN channel'.typed : ConsoleExecutes(channel'.typed[i])} = {}
    BY <1>3
  <2> QED
    BY <1>1, <1>2, <1>3, <2>1, <2>2 DEF ConsoleFresh
<1> QED
  BY <1>4, <1>6, <1>7, <1>8, <1>9 DEF ChannelInv

LEMMA ServeKeeps ==
  ASSUME ChannelInv, ServeLine
  PROVE  ChannelInv'
<1>1. /\ UNCHANGED <<adapter, state, command, packets, past>>
      /\ channel.busy = Nil /\ channel.buffer # <<>>
      /\ channel' = [channel EXCEPT !.buffer = Tail(@), !.busy = Head(channel.buffer)]
  BY DEF ServeLine, Free
<1>2. ChannelTypeOK /\ OneMessage /\ InspectionsBehind /\ ConsoleFresh
  BY DEF ChannelInv
<1>4. PICK n : n = Len(channel.buffer)
  OBVIOUS
<1>5. PICK h : h = Head(channel.buffer)
  OBVIOUS
<1>6. /\ channel.backlog \in Seq(Messages) /\ channel.typed \in Seq(Messages) /\ channel.buffer \in Seq(Messages)
      /\ channel = [backlog |-> channel.backlog, typed |-> channel.typed, buffer |-> channel.buffer,
                    busy |-> channel.busy]
  BY <1>2 DEF ChannelTypeOK
<1>7. /\ n \in Nat \ {0} /\ DOMAIN channel.buffer = 1..n /\ h = channel.buffer[1] /\ h \in Messages
      /\ Tail(channel.buffer) \in Seq(Messages) /\ DOMAIN Tail(channel.buffer) = 1..(n - 1)
      /\ \A i \in 1..(n - 1) : Tail(channel.buffer)[i] = channel.buffer[i + 1]
  BY <1>1, <1>4, <1>5, <1>6
<1>8. channel' = [backlog |-> channel.backlog, typed |-> channel.typed, buffer |-> Tail(channel.buffer), busy |-> h]
  BY <1>1, <1>5, <1>6
<1>9. /\ DOMAIN channel'.buffer = 1..(n - 1)
      /\ \A i \in 1..(n - 1) : channel'.buffer[i] = channel.buffer[i + 1]
      /\ channel'.typed = channel.typed /\ channel'.backlog = channel.backlog
      /\ channel'.busy = h
      /\ channel' \in [backlog : Seq(Messages), typed : Seq(Messages), buffer : Seq(Messages),
                       busy : Messages \cup {Nil}]
  BY <1>6, <1>7, <1>8
<1>10. ChannelTypeOK'
  BY <1>1, <1>2, <1>9 DEF ChannelTypeOK
<1>11. h.from = Console /\ h.from \notin Commands /\ h # Nil
  BY <1>2, <1>7, ChannelAssumption DEF OneMessage
<1>12. \A x \in Commands : Waits(x)' => Waits(x)
  BY <1>9, <1>11 DEF Waits
<1>13. /\ Lost' = Lost /\ CommandsFresh' /\ AsksRightly' /\ Told' /\ Counted'
       /\ \A x \in Ids : Untouched(x)' <=> Untouched(x)
       /\ \A k : Carries(k)' <=> Carries(k)
  <2>1. Over(Console) => Over(Console)'
    <3>1. \A i \in 1..(n - 1) : i + 1 \in 1..n
      BY <1>7
    <3>2. ~ConsoleAsks => ~ConsoleExecutes(h) /\ \A i \in 1..(n - 1) : ~ConsoleExecutes(channel'.buffer[i])
      <4>1. 1 \in 1..n /\ (~ConsoleAsks => \A i \in 1..n : ~ConsoleExecutes(channel.buffer[i]))
        BY <1>7 DEF ConsoleAsks
      <4>2. \A i \in 1..(n - 1) : ConsoleExecutes(channel'.buffer[i]) <=> ConsoleExecutes(channel.buffer[i + 1])
        BY <1>9
      <4> QED
        BY <1>7, <3>1, <4>1, <4>2
    <3> QED
      BY <1>1, <1>9, <3>2 DEF Over, ConsoleAsks
  <2> QED
    BY <1>1, <1>12, <2>1, MessagesMove
<1>14. OneMessage'
  <2>1. \A i \in DOMAIN channel'.buffer : channel'.buffer[i].from = Console
    <3>1. \A i \in 1..(n - 1) : i + 1 \in 1..n
      BY <1>7
    <3>2. \A i \in 1..n : channel.buffer[i].from = Console
      BY <1>2, <1>7 DEF OneMessage
    <3> QED
      BY <1>9, <3>1, <3>2
  <2>2. \A i \in DOMAIN channel'.backlog :
          /\ channel'.backlog[i].from \in Commands /\ Carries(channel.backlog[i])'
          /\ channel'.busy # Nil => channel'.busy.from # channel'.backlog[i].from
          /\ \A j \in DOMAIN channel'.backlog : channel'.backlog[i].from = channel'.backlog[j].from => i = j
    <3> TAKE i \in DOMAIN channel'.backlog
    <3>1. PICK k : k = channel.backlog[i]
      OBVIOUS
    <3>2. Carries(k) /\ k.from \in Commands
      BY <1>2, <1>9, <3>1 DEF OneMessage
    <3>3. Carries(k)'
      BY <1>13, <3>2
    <3>4. Carries(channel.backlog[i])'
      BY <1>9, <3>1, <3>3
    <3> QED
      BY <1>2, <1>9, <1>11, <3>1, <3>2, <3>4 DEF OneMessage
  <2> QED
    BY <1>2, <1>9, <1>11, <2>1, <2>2 DEF OneMessage
<1>15. InspectionsBehind'
  <2>1. \A x \in Lost : x \in Commands
    BY DEF Lost
  <2>2. ASSUME NEW i \in 1..n, NEW c \in channel.buffer[i].gone
        PROVE  c \in Lost' /\ ~Waits(c)'
    BY <1>2, <1>7, <1>12, <1>13, <2>1, <2>2 DEF InspectionsBehind
  <2>3. \A i \in DOMAIN channel'.buffer : \A c \in channel'.buffer[i].gone : c \in Lost' /\ ~Waits(c)'
    <3>1. \A i \in 1..(n - 1) : i + 1 \in 1..n
      BY <1>7
    <3> QED
      BY <1>9, <2>2, <3>1
  <2>4. \A c \in channel'.busy.gone : c \in Lost' /\ ~Waits(c)'
    BY <1>7, <1>9, <2>2
  <2>5. \A c \in past'.inspected : c \in Lost' /\ ~Waits(c)'
    BY <1>1, <1>2, <1>12, <1>13, <2>1 DEF InspectionsBehind
  <2> QED
    BY <1>1, <1>2, <1>9, <1>13, <2>3, <2>4, <2>5 DEF InspectionsBehind
<1>16. ConsoleFresh'
  <2>1. Untouched(Console)' <=> Untouched(Console)
    BY <1>13 DEF Ids
  <2> DEFINE read == {i \in DOMAIN channel.buffer : ConsoleExecutes(channel.buffer[i])}
             next == {i \in DOMAIN channel'.buffer : ConsoleExecutes(channel'.buffer[i])}
  <2>2. \A i \in next : i + 1 \in read /\ i \in 1..(n - 1)
    BY <1>7, <1>9
  <2>3. ConsoleExecutes(h) => 1 \in read
    BY <1>7
  <2>4. \A i, j \in read : i = j
    BY <1>2 DEF ConsoleFresh
  <2>5. \A i, j \in next : i = j
    <3> SUFFICES ASSUME NEW i \in next, NEW j \in next
                 PROVE  i = j
      OBVIOUS
    <3>1. i + 1 = j + 1 /\ i \in Int /\ j \in Int
      BY <1>7, <2>2, <2>4
    <3> QED
      BY <3>1
  <2>6. next # {} => ~ConsoleExecutes(h)
    <3> SUFFICES ASSUME NEW i \in next, ConsoleExecutes(h)
                 PROVE  FALSE
      OBVIOUS
    <3>1. i + 1 = 1 /\ i \in 1..(n - 1)
      BY <2>2, <2>3, <2>4
    <3> QED
      BY <1>7, <3>1
  <2>7. next # {} \/ ConsoleExecutes(h) => read # {}
    BY <2>2, <2>3
  <2>8. /\ {i \in DOMAIN channel.typed : ConsoleExecutes(channel.typed[i])} # {} => read = {}
        /\ read # {} => Console \in past.executed /\ Untouched(Console)
    BY <1>2 DEF ConsoleFresh
  <2> HIDE DEF read
  <2>9. /\ \A i, j \in {k \in DOMAIN channel'.typed : ConsoleExecutes(channel'.typed[k])} : i = j
        /\ Console \notin past'.executed => Untouched(Console)'
        /\ {i \in DOMAIN channel'.typed : ConsoleExecutes(channel'.typed[i])} # {} =>
             read = {} /\ Console \in past'.executed /\ Untouched(Console)'
    BY <1>1, <1>2, <1>9, <2>1, <2>8 DEF ConsoleFresh
  <2>10. next # {} \/ ConsoleExecutes(h) => Console \in past'.executed /\ Untouched(Console)'
    BY <1>1, <2>1, <2>7, <2>8
  <2> QED
    BY <1>9, <1>11, <2>5, <2>6, <2>7, <2>9, <2>10 DEF ConsoleFresh
<1> QED
  BY <1>10, <1>13, <1>14, <1>15, <1>16 DEF ChannelInv

-------------------------------------------------------------------------------
(* A request is handled *)

\* An input that is about to be opened is a new one.
LEMMA OpensFresh ==
  ASSUME ChannelInv, channel.busy # Nil, channel.busy.ask.op \in Acting
  PROVE  /\ Untouched(channel.busy.from)
         /\ channel.busy.from \in Commands =>
              /\ command[channel.busy.from].op \in Acting
              /\ command[channel.busy.from].phase \in {"waiting", "done"}
         /\ channel.busy.from = Console => Console \in past.executed
<1> DEFINE c == channel.busy.from
<1>1. ChannelTypeOK /\ OneMessage /\ CommandsFresh /\ ConsoleFresh /\ Told
  BY DEF ChannelInv
<1>2. c \in Ids
  BY <1>1 DEF ChannelTypeOK, Messages
<1>3. CASE c \in Commands
  <2>1. Waits(c)
    BY DEF Waits
  <2>2. Carries(channel.busy)
    BY <1>1, <1>3 DEF OneMessage
  <2>3. command[c].op \in Acting /\ (c \in Lost \/ command[c].phase = "waiting")
    BY <2>2 DEF Carries
  <2>4. c \in Lost => command[c].phase = "done"
    BY <1>1, <1>3 DEF Told, ReportTrue, Lost, Printed, NoReport, Answer
  <2> QED
    BY <1>1, <1>3, <2>1, <2>3, <2>4, ChannelAssumption DEF CommandsFresh
<1>4. CASE c = Console
  BY <1>1, <1>4, ChannelAssumption DEF ConsoleFresh, ConsoleExecutes
<1> QED
  BY <1>2, <1>3, <1>4 DEF Ids

\* What becomes of the pending input, and of what is known of all the inputs.
Comes(e, c, ask) ==
  /\ state' \in Pendings \/ state' = Nil
  /\ past'.sent \in SUBSET Ids /\ past'.senders \in SUBSET Ids /\ past'.settled \in SUBSET Ids
  /\ e.sent # {} => ask.op \in Acting
  /\ \A i \in Ids : Untouched(i) /\ ~(i = c /\ ask.op \in Acting) =>
       /\ state' # Nil => state'.id # i
       /\ i \notin past'.sent /\ i \notin past'.senders /\ i \notin past'.settled /\ past'.auto[i] = 0
  /\ \A i \in Ids : Unsendable(i) =>
       i \notin past'.sent /\ (state' # Nil /\ state'.id = i => state'.status # "prepared")
  /\ StateTrue'
  /\ state # Nil /\ state.status = "verified_pending_log" =>
       \/ state' # Nil /\ state'.id = state.id /\ state'.status = "verified_pending_log"
       \/ state.id \in past'.settled
  /\ state' # Nil =>
       \/ state # Nil /\ state'.id = state.id /\ state'.tries >= state.tries
       \/ ask.op \in Acting /\ state'.id = c

LEMMA Outcome ==
  ASSUME ChannelInv, channel.busy # Nil, NEW e, NEW c, NEW ask, c = channel.busy.from, ask = channel.busy.ask,
         Moves(e, c, ask), state' = e.pending,
         past'.sent = past.sent \cup e.sent, past'.settled = past.settled \cup e.settled, past'.auto = past.auto,
         past'.senders = IF e.sent = {} THEN past.senders ELSE past.senders \cup {c}
  PROVE  Comes(e, c, ask)
<1>1. ChannelTypeOK /\ StateTrue
  BY DEF ChannelInv, Told
<1>2. /\ state \in Pendings \/ state = Nil
      /\ past.sent \in SUBSET Ids /\ past.senders \in SUBSET Ids /\ past.settled \in SUBSET Ids /\ c \in Ids
  BY <1>1 DEF ChannelTypeOK, Messages
<1>3. state # Nil => state.id \in Ids /\ state.tries \in Nat
  BY <1>2 DEF Pendings
<1>4. ask.op \in Acting => Untouched(c) /\ ~Unsendable(c)
  <2> SUFFICES ASSUME ask.op \in Acting
               PROVE  Untouched(c) /\ ~Over(c)
    BY DEF Unsendable
  <2>1. Untouched(c)
    BY OpensFresh
  <2>2. Waits(c)
    BY DEF Waits
  <2>3. c = Console => ConsoleAsks
    BY DEF ConsoleAsks, ConsoleExecutes
  <2>4. ~Over(c)
    BY <2>2, <2>3 DEF Over
  <2> QED
    BY <2>1, <2>4
<1>5. CASE Stays(e)
  <2>1. state' = state /\ past'.sent = past.sent /\ past'.senders = past.senders /\ past'.settled = past.settled
    BY <1>5 DEF Stays
  <2>2. StateTrue'
    BY <1>1, <2>1 DEF StateTrue
  <2> QED
    BY <1>2, <1>3, <1>5, <2>1, <2>2 DEF Stays, Untouched, Unsendable, Comes
<1>6. CASE Changes(e)
  <2>1. /\ state # Nil /\ e.sent = {} /\ past'.sent = past.sent /\ past'.senders = past.senders
        /\ past'.settled \in SUBSET Ids /\ past'.settled \subseteq past.settled \cup {state.id}
        /\ state' \in Pendings /\ state'.id = state.id /\ state'.response = state.response
        /\ state'.tries >= state.tries
        /\ state'.status = state.status \/ state'.status = "verified_pending_log"
    BY <1>2, <1>3, <1>6 DEF Changes
  <2>2. state' # Nil
    BY <2>1, ChannelAssumption
  <2>3. StateTrue'
    BY <1>1, <2>1 DEF StateTrue, Unsent
  <2> QED
    BY <1>2, <1>3, <2>1, <2>2, <2>3 DEF Untouched, Unsendable, Comes
<1>7. ASSUME NEW i \in Ids, Dispatched(e, i), i \notin past.sent
      PROVE  /\ state' \in Pendings /\ state'.id = i /\ state' # Nil
             /\ past'.sent \in SUBSET Ids /\ past'.sent \subseteq past.sent \cup {i}
             /\ past'.senders \in SUBSET Ids /\ past'.senders \subseteq past.senders \cup {c}
             /\ past'.settled = past.settled
             /\ StateTrue'
  <2>1. /\ state' \in Pendings /\ state'.id = i
        /\ past'.sent \in SUBSET Ids /\ past'.sent \subseteq past.sent \cup {i}
        /\ past'.senders \in SUBSET Ids /\ past'.senders \subseteq past.senders \cup {c}
        /\ past'.settled = past.settled
    BY <1>2, <1>7 DEF Dispatched
  <2>2. state'.response = "ok" => state'.id \in past'.sent
    BY <1>7 DEF Dispatched
  <2>3. Unsent(state)' => state'.id \notin past'.sent
    BY <1>7 DEF Dispatched, Unsent
  <2> QED
    BY <2>1, <2>2, <2>3, ChannelAssumption DEF StateTrue
<1>8. CASE Opens(e, c, ask)
  <2>1. ask.op \in Acting /\ state = Nil /\ Dispatched(e, c)
    BY <1>8 DEF Opens, Acting
  <2>2. Untouched(c) /\ c \notin past.sent /\ ~Unsendable(c)
    BY <1>4, <2>1 DEF Untouched
  <2>3. /\ state' \in Pendings /\ state'.id = c /\ state' # Nil
        /\ past'.sent \in SUBSET Ids /\ past'.sent \subseteq past.sent \cup {c}
        /\ past'.senders \in SUBSET Ids /\ past'.senders \subseteq past.senders \cup {c}
        /\ past'.settled = past.settled
        /\ StateTrue'
    BY <1>2, <1>7, <2>1, <2>2
  <2>4. ASSUME NEW i \in Ids, Unsendable(i)
        PROVE  i \notin past'.sent /\ (state' # Nil /\ state'.id = i => state'.status # "prepared")
    BY <2>2, <2>3, <2>4 DEF Unsendable
  <2>5. \A i \in Ids : Untouched(i) /\ i # c =>
          /\ state'.id # i
          /\ i \notin past'.sent /\ i \notin past'.senders /\ i \notin past'.settled /\ past'.auto[i] = 0
    BY <2>3 DEF Untouched
  <2> QED
    BY <1>2, <2>1, <2>3, <2>4, <2>5 DEF Comes
<1>9. CASE Sends(e, ask)
  <2>1. /\ ask.op \in Acting /\ state # Nil /\ state.status = "prepared" /\ Dispatched(e, state.id)
        /\ state'.tries >= state.tries
    BY <1>9 DEF Sends, Acting
  <2>2. state.id \notin past.sent /\ ~Unsendable(state.id)
    BY <1>1, <2>1 DEF StateTrue, Unsent, Unsendable
  <2>3. /\ state' \in Pendings /\ state'.id = state.id /\ state' # Nil
        /\ past'.sent \in SUBSET Ids /\ past'.sent \subseteq past.sent \cup {state.id}
        /\ past'.senders \in SUBSET Ids /\ past'.senders \subseteq past.senders \cup {c}
        /\ past'.settled = past.settled
        /\ StateTrue'
    BY <1>3, <1>7, <2>1, <2>2
  <2>4. ASSUME NEW i \in Ids, Unsendable(i)
        PROVE  i \notin past'.sent /\ (state' # Nil /\ state'.id = i => state'.status # "prepared")
    BY <2>2, <2>3, <2>4 DEF Unsendable
  <2>5. \A i \in Ids : Untouched(i) /\ i # c =>
          /\ state'.id # i
          /\ i \notin past'.sent /\ i \notin past'.senders /\ i \notin past'.settled /\ past'.auto[i] = 0
    BY <2>1, <2>3 DEF Untouched
  <2>6. Untouched(c)
    BY <1>4, <2>1
  <2> QED
    BY <1>2, <2>1, <2>3, <2>4, <2>5, <2>6 DEF Comes
<1>10. CASE Settles(e, ask) \/ Withdraws(e)
  <2>1. /\ state # Nil /\ state' = Nil /\ e.sent = {} /\ past'.sent = past.sent /\ past'.senders = past.senders
        /\ past'.settled \in SUBSET Ids /\ past'.settled \subseteq past.settled \cup {state.id}
        /\ state.status = "verified_pending_log" => state.id \in past'.settled
    BY <1>2, <1>3, <1>10 DEF Settles, Withdraws
  <2>2. StateTrue'
    BY <2>1 DEF StateTrue
  <2> QED
    BY <1>2, <2>1, <2>2 DEF Untouched, Unsendable, Comes
<1> QED
  BY <1>5, <1>6, <1>8, <1>9, <1>10 DEF Moves

LEMMA CrashKeeps ==
  ASSUME ChannelInv, CrashAdapter
  PROVE  ChannelInv'
<1>1. ChannelTypeOK /\ OneMessage /\ InspectionsBehind /\ CommandsFresh /\ ConsoleFresh /\ AsksRightly /\ Told /\ Counted
  BY DEF ChannelInv
<1>2. /\ UNCHANGED <<command, packets>> /\ channel' = ListenerGone
      /\ adapter' = [adapter EXCEPT !.up = FALSE, !.armed = FALSE]
  BY DEF CrashAdapter
<1>3. /\ channel'.backlog = <<>> /\ channel'.typed = <<>> /\ channel'.buffer = <<>> /\ channel'.busy = Nil
      /\ channel' \in [backlog : Seq(Messages), typed : Seq(Messages), buffer : Seq(Messages),
                       busy : Messages \cup {Nil}]
  BY <1>2 DEF ListenerGone
<1>4. adapter' \in [up : BOOLEAN, opened : Nat, armed : BOOLEAN]
  BY <1>1, <1>2 DEF ChannelTypeOK
<1>5. Lost' = Lost /\ \A x : ~Waits(x)'
  BY <1>2, <1>3 DEF Lost, Waits
<1>6. OneMessage'
  BY <1>3 DEF OneMessage
<1>7. ASSUME past'.inspected = past.inspected
      PROVE  InspectionsBehind'
  BY <1>1, <1>2, <1>3, <1>5, <1>7 DEF InspectionsBehind
<1>8. CASE channel.busy = Nil
  <2>1. UNCHANGED <<state, past>>
    BY <1>8 DEF CrashAdapter
  <2>2. \A x : Waits(x)' => Waits(x)
    BY <1>5
  <2>3. /\ CommandsFresh' /\ AsksRightly' /\ Told' /\ Counted'
        /\ \A x \in Ids : Untouched(x)' <=> Untouched(x)
    <3>1. ~ConsoleAsks'
      BY <1>3 DEF ConsoleAsks
    <3>2. Over(Console) => Over(Console)'
      BY <2>1, <3>1 DEF Over
    <3>3. /\ past'.sent = past.sent /\ past'.settled = past.settled /\ past'.inspected = past.inspected
          /\ past'.senders = past.senders /\ past'.auto = past.auto
      BY <2>1
    <3> QED
      BY <1>2, <2>1, <2>2, <3>2, <3>3, MessagesMove
  <2>4. ConsoleFresh'
    BY <1>1, <1>3, <2>1, <2>3 DEF ConsoleFresh, Ids
  <2>5. ChannelTypeOK'
    BY <1>1, <1>2, <1>3, <1>4, <2>1 DEF ChannelTypeOK
  <2> QED
    BY <1>6, <1>7, <2>1, <2>3, <2>4, <2>5 DEF ChannelInv
<1>9. CASE channel.busy # Nil
  <2>1. PICK e \in CutShort(channel.busy.from, channel.busy.ask) :
          /\ state' = e.pending
          /\ past' = [past EXCEPT !.sent = @ \cup e.sent, !.settled = @ \cup e.settled,
               !.senders = IF e.sent = {} THEN @ ELSE @ \cup {channel.busy.from}]
    BY <1>9 DEF CrashAdapter
  <2>2. PICK c, ask : c = channel.busy.from /\ ask = channel.busy.ask
    OBVIOUS
  <2>3. c \in Ids /\ ask \in Asked
    BY <1>1, <1>9, <2>2 DEF ChannelTypeOK, Messages
  <2>4. Moves(e, c, ask)
    BY <1>1, <2>1, <2>2, <2>3, CutShortMoves
  <2>15. PICK senders : senders = IF e.sent = {} THEN past.senders ELSE past.senders \cup {c}
    OBVIOUS
  <2>5. /\ past'.sent = past.sent \cup e.sent /\ past'.settled = past.settled \cup e.settled
        /\ past'.senders = senders
        /\ past'.auto = past.auto /\ past'.inspected = past.inspected /\ past'.executed = past.executed
        /\ past'.typed = past.typed
        /\ past' = [sent |-> past'.sent, senders |-> senders, settled |-> past'.settled, inspected |-> past.inspected,
                    typed |-> past.typed, executed |-> past.executed, auto |-> past.auto]
    <3>1. past' = [past EXCEPT !.sent = @ \cup e.sent, !.settled = @ \cup e.settled, !.senders = senders]
      BY <2>1, <2>2, <2>15
    <3> QED
      BY <1>1, <3>1 DEF ChannelTypeOK
  <2>6. Comes(e, c, ask)
    BY <1>9, <2>1, <2>2, <2>4, <2>5, <2>15, Outcome
  <2>7. ChannelTypeOK'
    <3>1. past' \in [sent : SUBSET Ids, senders : SUBSET Ids, settled : SUBSET Ids, inspected : SUBSET Commands,
                     typed : Nat, executed : SUBSET Ids, auto : [Ids -> Nat]]
      BY <1>1, <2>5, <2>6 DEF ChannelTypeOK, Comes
    <3> QED
      BY <1>1, <1>2, <1>3, <1>4, <2>6, <3>1 DEF ChannelTypeOK, Comes
  <2>8. ask.op \in Acting =>
          /\ Untouched(c) /\ (c = Console => Console \in past.executed)
          /\ c \in Commands => command[c].op \in Acting /\ command[c].phase \in {"waiting", "done"}
    BY <1>9, <2>2, OpensFresh
  <2>9. ASSUME NEW i \in Ids, Untouched(i), ~(i = c /\ ask.op \in Acting)
        PROVE  Untouched(i)'
    BY <1>2, <2>6, <2>9 DEF Untouched, Comes
  <2>10. CommandsFresh'
    BY <1>1, <1>2, <1>5, <2>8, <2>9 DEF CommandsFresh, Ids
  <2>11. ConsoleFresh'
    <3>1. Console \notin past.executed => Untouched(Console)'
      BY <1>1, <2>8, <2>9 DEF ConsoleFresh, Ids
    <3> QED
      BY <1>3, <2>5, <3>1 DEF ConsoleFresh
  <2>12. AsksRightly'
    <3>1. ASSUME NEW x \in Commands, Settling(x)
          PROVE  Settling(x)'
      BY <1>2, <2>5, <2>6, <3>1 DEF Settling, Comes
    <3> QED
      BY <1>1, <1>2, <3>1 DEF AsksRightly
  <2>13. Told'
    <3>1. Waits(c)
      BY <1>9, <2>2 DEF Waits
    <3>2. ~ConsoleAsks'
      BY <1>3 DEF ConsoleAsks
    <3>3. \A i \in Ids : Over(i) => Over(i)'
      BY <1>2, <1>5, <2>5, <3>2 DEF Over
    <3>4. \A i \in Ids : Unsendable(i) => Unsendable(i)'
      BY <2>6, <3>3 DEF Unsendable, Comes
    <3>5. ASSUME NEW x \in Commands
          PROVE  ReportTrue(x)'
      <4>1. x \in past'.senders => x \in past.senders \/ Waits(x)
        BY <2>5, <2>15, <3>1
      <4>2. past.sent \subseteq past'.sent /\ past.settled \subseteq past'.settled
        BY <2>5
      <4> QED
        BY <1>1, <1>2, <1>5, <3>4, <4>1, <4>2, TellsOn DEF Told
    <3>6. StateTrue'
      BY <2>6 DEF Comes
    <3> QED
      BY <3>5, <3>6 DEF Told
  <2>14. Counted'
    <3> SUFFICES ASSUME NEW i \in Ids
                 PROVE  /\ past'.auto[i] + Cardinality(About(i)') <= RECOVERY_LIMIT
                        /\ state' # Nil /\ state'.id = i => past'.auto[i] + Cardinality(About(i)') <= state'.tries
      BY DEF Counted
    <3>1. About(i)' = About(i)
      BY <1>2 DEF About
    <3>2. past.auto[i] \in Nat /\ Cardinality(About(i)) \in Nat
      BY <1>1, AboutFinite DEF ChannelTypeOK
    <3>3. /\ past.auto[i] + Cardinality(About(i)) <= RECOVERY_LIMIT
          /\ state # Nil /\ state.id = i => past.auto[i] + Cardinality(About(i)) <= state.tries
      BY <1>1 DEF Counted
    <3>4. ASSUME state' # Nil, state'.id = i
          PROVE  past.auto[i] + Cardinality(About(i)) <= state'.tries
      <4>1. state'.tries \in Nat /\ (state # Nil => state.tries \in Nat)
        BY <1>1, <2>6, <3>4 DEF Pendings, ChannelTypeOK, Comes
      <4>2. CASE state # Nil /\ state'.id = state.id /\ state'.tries >= state.tries
        BY <3>2, <3>3, <3>4, <4>1, <4>2
      <4>3. CASE ask.op \in Acting /\ i = c
        <5>1. past.auto[i] = 0 /\ About(i) = {}
          BY <2>8, <4>3 DEF Untouched, About
        <5>2. Cardinality(About(i)) = 0
          BY <5>1, FS_EmptySet
        <5> QED
          BY <4>1, <5>1, <5>2
      <4> QED
        BY <2>6, <3>4, <4>2, <4>3 DEF Comes
    <3> QED
      BY <2>5, <3>1, <3>3, <3>4
  <2> QED
    BY <1>6, <1>7, <2>5, <2>7, <2>10, <2>11, <2>12, <2>13, <2>14 DEF ChannelInv
<1> QED
  BY <1>8, <1>9

\* The command that asked takes the answer if it still waits for it.
LEMMA AnswerTaken ==
  ASSUME ChannelInv, channel.busy # Nil, NEW e, NEW c, NEW ask, c = channel.busy.from, ask = channel.busy.ask,
         Holds(e, c, ask),
         command' = IF c \in Commands /\ command[c].phase = "waiting"
                    THEN [command EXCEPT ![c] = Received(c, e.answer)] ELSE command
  PROVE  /\ Lost' = Lost /\ command' \in [Commands -> Submitters]
         /\ \A x \in Commands :
              /\ command'[x].op = command[x].op /\ command'[x].gone \subseteq command[x].gone
              /\ \/ command'[x] = command[x]
                 \/ /\ x = c /\ command[x].phase = "waiting" /\ command[x].ask = ask
                    /\ Reported(command'[x], e, c, ask) \/ Recovers(command'[x], e, c)
<1>1. ChannelTypeOK /\ OneMessage /\ AsksRightly /\ Told
  BY DEF ChannelInv
<1>2. command \in [Commands -> Submitters]
  BY <1>1 DEF ChannelTypeOK
<1>3. CASE ~(c \in Commands /\ command[c].phase = "waiting")
  BY <1>2, <1>3 DEF Lost
<1>4. CASE c \in Commands /\ command[c].phase = "waiting"
  <2>1. PICK r : r = Received(c, e.answer)
    OBVIOUS
  <2>2. c \notin Lost
    BY <1>1, <1>4 DEF Told, ReportTrue, Lost, Printed, NoReport, Answer
  <2>3. Carries(channel.busy)
    BY <1>1, <1>4 DEF OneMessage
  <2>4. ask = command[c].ask
    BY <2>2, <2>3 DEF Carries
  <2>5. r \in Submitters /\ r.op = command[c].op /\ (Reported(r, e, c, ask) \/ Recovers(r, e, c))
    BY <1>1, <1>4, <2>1, <2>4, ReceivedHolds
  <2>6. r.report.status # "reply_unknown"
    <3>1. command[c].report.status # "reply_unknown"
      BY <1>4, <2>2 DEF Lost
    <3> QED
      BY <2>5, <3>1 DEF Reported, Recovers
  <2>7. /\ Lost' = Lost /\ command' \in [Commands -> Submitters]
        /\ \A x \in Commands : command'[x] = IF x = c THEN r ELSE command[x]
    BY <1>1, <1>4, <2>1, <2>2, <2>5, <2>6, NoneLost
  <2>8. r.gone \subseteq command[c].gone
    BY <2>5 DEF Reported, Recovers
  <2> QED
    BY <1>4, <2>4, <2>5, <2>7, <2>8
<1> QED
  BY <1>3, <1>4

\* What was done with an input was done on a request that is past.
LEMMA TouchedIsOver ==
  ASSUME CommandsFresh', ConsoleFresh', NEW i \in Ids, ~Untouched(i)'
  PROVE  Over(i)'
<1>1. CASE i = Console
  BY <1>1 DEF ConsoleFresh, Over, ConsoleAsks
<1>2. CASE i \in Commands /\ i # Console
  BY <1>2 DEF CommandsFresh, Over
<1> QED
  BY <1>1, <1>2 DEF Ids

LEMMA HandleKeeps ==
  ASSUME ChannelInv, Handle
  PROVE  ChannelInv'
<1>1. ChannelTypeOK /\ OneMessage /\ InspectionsBehind /\ CommandsFresh /\ ConsoleFresh /\ AsksRightly /\ Told /\ Counted
  BY DEF ChannelInv
<1>2. channel.busy # Nil /\ packets' = packets
  BY DEF Handle
<1>3. PICK c, ask : c = channel.busy.from /\ ask = channel.busy.ask
  OBVIOUS
<1>4. PICK e \in Handled(c, ask) :
        /\ state' = e.pending
        /\ adapter' = [adapter EXCEPT !.up = e.up, !.armed = e.armed]
        /\ channel' = IF e.up THEN [channel EXCEPT !.busy = Nil] ELSE ListenerGone
        /\ command' = IF c \in Commands /\ command[c].phase = "waiting"
                      THEN [command EXCEPT ![c] = Received(c, e.answer)] ELSE command
        /\ past' = [past EXCEPT
             !.sent = @ \cup e.sent, !.senders = IF e.sent = {} THEN @ ELSE @ \cup {c},
             !.settled = @ \cup e.settled,
             !.inspected = @ \cup (IF channel.busy.ask.op = "summary" THEN channel.busy.gone ELSE {})]
  BY <1>3 DEF Handle
<1>5. c \in Ids /\ ask \in Asked /\ channel.busy.gone \in SUBSET Commands /\ channel.busy \in Messages
  BY <1>1, <1>2, <1>3 DEF ChannelTypeOK, Messages
<1>6. Holds(e, c, ask)
  BY <1>1, <1>4, <1>5, HandledHolds
<1>7. Moves(e, c, ask) /\ e.up \in BOOLEAN /\ e.armed \in BOOLEAN
  BY <1>6 DEF Holds
\* The variables after it.
<1>8. PICK seen, senders :
        /\ seen = past.inspected \cup (IF channel.busy.ask.op = "summary" THEN channel.busy.gone ELSE {})
        /\ senders = IF e.sent = {} THEN past.senders ELSE past.senders \cup {c}
  OBVIOUS
<1>9. /\ past'.sent = past.sent \cup e.sent /\ past'.settled = past.settled \cup e.settled
      /\ past'.senders = senders
      /\ past'.auto = past.auto /\ past'.inspected = seen /\ past'.executed = past.executed
      /\ past' = [sent |-> past'.sent, senders |-> senders, settled |-> past'.settled, inspected |-> seen,
                  typed |-> past.typed, executed |-> past.executed, auto |-> past.auto]
  <2>1. past = [sent |-> past.sent, senders |-> past.senders, settled |-> past.settled, inspected |-> past.inspected,
                typed |-> past.typed, executed |-> past.executed, auto |-> past.auto]
    BY <1>1 DEF ChannelTypeOK
  <2>2. past' = [past EXCEPT !.sent = @ \cup e.sent, !.senders = senders, !.settled = @ \cup e.settled,
                   !.inspected = seen]
    BY <1>4, <1>8
  <2>3. past' = [sent |-> past.sent \cup e.sent, senders |-> senders, settled |-> past.settled \cup e.settled,
                 inspected |-> seen, typed |-> past.typed, executed |-> past.executed, auto |-> past.auto]
    BY <2>1, <2>2
  <2> QED
    BY <2>3
<1>10. Comes(e, c, ask)
  BY <1>2, <1>3, <1>4, <1>7, <1>8, <1>9, Outcome
<1>11. /\ Lost' = Lost /\ command' \in [Commands -> Submitters]
       /\ \A x \in Commands :
            /\ command'[x].op = command[x].op /\ command'[x].gone \subseteq command[x].gone
            /\ \/ command'[x] = command[x]
               \/ /\ x = c /\ command[x].phase = "waiting" /\ command[x].ask = ask
                  /\ Reported(command'[x], e, c, ask) \/ Recovers(command'[x], e, c)
  BY <1>2, <1>3, <1>4, <1>6, AnswerTaken
<1>12. /\ channel'.busy = Nil
       /\ \A i \in DOMAIN channel'.backlog : i \in DOMAIN channel.backlog /\ channel'.backlog[i] = channel.backlog[i]
       /\ \A i \in DOMAIN channel'.typed : i \in DOMAIN channel.typed /\ channel'.typed[i] = channel.typed[i]
       /\ \A i \in DOMAIN channel'.buffer : i \in DOMAIN channel.buffer /\ channel'.buffer[i] = channel.buffer[i]
       /\ channel' \in [backlog : Seq(Messages), typed : Seq(Messages), buffer : Seq(Messages),
                        busy : Messages \cup {Nil}]
  <2>1. /\ channel.backlog \in Seq(Messages) /\ channel.typed \in Seq(Messages) /\ channel.buffer \in Seq(Messages)
        /\ channel = [backlog |-> channel.backlog, typed |-> channel.typed, buffer |-> channel.buffer,
                      busy |-> channel.busy]
    BY <1>1 DEF ChannelTypeOK
  <2>2. CASE e.up
    <3>1. channel' = [backlog |-> channel.backlog, typed |-> channel.typed, buffer |-> channel.buffer, busy |-> Nil]
      BY <1>4, <2>1, <2>2
    <3> QED
      BY <2>1, <3>1
  <2>3. CASE ~e.up
    <3>1. channel' = [backlog |-> <<>>, typed |-> <<>>, buffer |-> <<>>, busy |-> Nil]
      BY <1>4, <2>3 DEF ListenerGone
    <3> QED
      BY <3>1
  <2> QED
    BY <2>2, <2>3
\* The command has no more message under way.
<1>13. Waits(c) /\ \A i \in DOMAIN channel.backlog : channel.backlog[i].from # c
  BY <1>1, <1>2, <1>3 DEF Waits, OneMessage
<1>14. ~Waits(c)' /\ \A x : Waits(x)' => Waits(x)
  BY <1>12, <1>13 DEF Waits
<1>15. ask.op \in Acting =>
         /\ Untouched(c) /\ (c = Console => Console \in past.executed)
         /\ c \in Commands => command[c].op \in Acting /\ command[c].phase \in {"waiting", "done"}
  BY <1>2, <1>3, OpensFresh
<1>16. c \in Commands => Untouched(c)
  BY <1>1, <1>13 DEF CommandsFresh
<1>17. ChannelTypeOK'
  <2>1. adapter' \in [up : BOOLEAN, opened : Nat, armed : BOOLEAN]
    BY <1>1, <1>4, <1>7 DEF ChannelTypeOK
  <2>2. seen \in SUBSET Commands
    BY <1>1, <1>5, <1>8 DEF ChannelTypeOK
  <2>3. past' \in [sent : SUBSET Ids, senders : SUBSET Ids, settled : SUBSET Ids, inspected : SUBSET Commands,
                   typed : Nat, executed : SUBSET Ids, auto : [Ids -> Nat]]
    BY <1>1, <1>9, <1>10, <2>2 DEF ChannelTypeOK, Comes
  <2> QED
    BY <1>1, <1>2, <1>10, <1>11, <1>12, <2>1, <2>3 DEF ChannelTypeOK, Comes
<1>18. OneMessage'
  <2>1. ASSUME NEW k, k.from \in Commands, k.from # c, Carries(k)
        PROVE  Carries(k)'
    BY <1>11, <2>1 DEF Carries
  <2>2. ASSUME NEW i \in DOMAIN channel'.backlog
        PROVE  /\ channel'.backlog[i].from \in Commands /\ Carries(channel.backlog[i])'
               /\ \A j \in DOMAIN channel'.backlog : channel'.backlog[i].from = channel'.backlog[j].from => i = j
    <3>1. PICK k : k = channel.backlog[i]
      OBVIOUS
    <3>2. Carries(k) /\ k.from \in Commands /\ k.from # c /\ i \in DOMAIN channel.backlog /\ channel'.backlog[i] = k
      BY <1>1, <1>12, <1>13, <3>1 DEF OneMessage
    <3>3. Carries(k)'
      BY <2>1, <3>2
    <3>4. Carries(channel.backlog[i])'
      BY <3>2, <3>3
    <3>5. \A j \in DOMAIN channel'.backlog : channel'.backlog[i].from = channel'.backlog[j].from => i = j
      BY <1>1, <1>12 DEF OneMessage
    <3> QED
      BY <3>2, <3>4, <3>5
  <2> QED
    BY <1>1, <1>12, <2>2 DEF OneMessage
<1>19. InspectionsBehind'
  <2>1. \A x \in seen : x \in Lost' /\ ~Waits(x)'
    BY <1>1, <1>2, <1>8, <1>11, <1>14 DEF InspectionsBehind
  <2>2. \A x \in Commands : command'[x].gone \subseteq Lost'
    BY <1>1, <1>11 DEF InspectionsBehind
  <2>3. \A i \in DOMAIN channel'.backlog :
          /\ channel'.backlog[i].gone \subseteq Lost'
          /\ \A j \in DOMAIN channel'.backlog : i <= j => channel'.backlog[j].from \notin channel'.backlog[i].gone
    BY <1>1, <1>11, <1>12 DEF InspectionsBehind
  <2>4. /\ \A i \in DOMAIN channel'.typed : channel'.typed[i].gone \subseteq Lost'
        /\ \A i \in DOMAIN channel'.buffer : \A x \in channel'.buffer[i].gone : x \in Lost' /\ ~Waits(x)'
    BY <1>1, <1>11, <1>12, <1>14 DEF InspectionsBehind
  <2> QED
    BY <1>9, <1>12, <2>1, <2>2, <2>3, <2>4 DEF InspectionsBehind
<1>20. ASSUME NEW i \in Ids, Untouched(i), ~(i = c /\ ask.op \in Acting)
       PROVE  Untouched(i)'
  <2>1. ASSUME NEW x \in Commands
        PROVE  command'[x].action # i
    BY <1>11, <1>20 DEF Reported, Recovers, Untouched
  <2> QED
    BY <1>10, <1>20, <2>1 DEF Untouched, Comes
<1>21. CommandsFresh'
  <2> SUFFICES ASSUME NEW x \in Commands
               PROVE  \/ Untouched(x)'
                      \/ command'[x].op \in Acting /\ command'[x].phase \in {"waiting", "done"} /\ ~Waits(x)'
    BY DEF CommandsFresh
  <2>1. CASE x = c /\ ask.op \in Acting
    BY <1>11, <1>14, <1>15, <2>1 DEF Reported, Recovers, Acting
  <2>2. CASE Untouched(x) /\ ~(x = c /\ ask.op \in Acting)
    BY <1>20, <2>2 DEF Ids
  <2>3. CASE ~Untouched(x)
    <3>1. command[x].op \in Acting /\ command[x].phase \in {"waiting", "done"} /\ ~Waits(x)
      BY <1>1, <2>3 DEF CommandsFresh
    <3>2. x # c
      BY <1>13, <3>1
    <3> QED
      BY <1>11, <1>14, <3>1, <3>2
  <2> QED
    BY <2>1, <2>2, <2>3
<1>22. ConsoleFresh'
  <2> DEFINE typed == {i \in DOMAIN channel.typed : ConsoleExecutes(channel.typed[i])}
             read == {i \in DOMAIN channel.buffer : ConsoleExecutes(channel.buffer[i])}
             typed2 == {i \in DOMAIN channel'.typed : ConsoleExecutes(channel'.typed[i])}
             read2 == {i \in DOMAIN channel'.buffer : ConsoleExecutes(channel'.buffer[i])}
             busy == channel.busy # Nil /\ ConsoleExecutes(channel.busy)
  <2>1. typed2 \subseteq typed /\ read2 \subseteq read
    BY <1>12
  <2>2. /\ \A i, j \in typed : i = j
        /\ \A i, j \in read : i = j
        /\ typed # {} => read = {} /\ ~busy
        /\ read # {} => ~busy
        /\ typed # {} \/ read # {} \/ busy => Console \in past.executed /\ Untouched(Console)
        /\ Console \notin past.executed => Untouched(Console)
    BY <1>1 DEF ConsoleFresh
  <2>3. c = Console /\ ask.op \in Acting => busy
    BY <1>2, <1>3 DEF ConsoleExecutes
  <2> HIDE DEF busy, typed, read
  <2>4. typed # {} \/ read # {} => Console \in past.executed /\ Untouched(Console)'
    BY <1>20, <2>2, <2>3 DEF Ids
  <2>5. Console \notin past.executed => Untouched(Console)'
    BY <1>15, <1>20, <2>2 DEF Ids
  <2>6. /\ \A i, j \in typed2 : i = j
        /\ \A i, j \in read2 : i = j
        /\ typed2 # {} => read2 = {}
        /\ typed2 # {} \/ read2 # {} => Console \in past'.executed /\ Untouched(Console)'
        /\ Console \notin past'.executed => Untouched(Console)'
    BY <1>9, <2>1, <2>2, <2>4, <2>5
  <2> QED
    BY <1>12, <2>6 DEF ConsoleFresh
<1>23. AsksRightly'
  <2>1. ASSUME NEW x \in Commands, Settling(x), command'[x] = command[x]
        PROVE  Settling(x)'
    BY <1>2, <1>9, <1>10, <2>1 DEF Settling, Comes
  <2>2. ASSUME Recovers(command'[c], e, c), c \in Commands
        PROVE  /\ command'[c].phase = "connecting" /\ command'[c].ask \in Asked /\ command'[c].action # Nil
               /\ command[c].op = "bridge_preflight" /\ Settling(c)'
    <3>1. /\ command'[c].phase = "connecting" /\ command'[c].ask \in Asked
          /\ command[c].op = "bridge_preflight"
          /\ state # Nil /\ state' = [state EXCEPT !.tries = @ + 1] /\ command'[c].action = state.id
          /\ \/ /\ command'[c].ask.op = "verify" /\ command'[c].ask.packet \in DOMAIN packets
                /\ packets[command'[c].ask.packet].action = state.id
             \/ command'[c].ask.op = "finalize" /\ state'.status = "verified_pending_log"
      BY <1>4, <2>2 DEF Recovers
    <3>2. state \in Pendings
      BY <1>1, <3>1 DEF ChannelTypeOK
    <3>3. state' \in Pendings /\ state' # Nil /\ state'.id = state.id /\ state.id # Nil
      BY <3>1, <3>2, ChannelAssumption DEF Pendings
    <3> QED
      BY <1>2, <3>1, <3>3 DEF Settling
  <2> SUFFICES ASSUME NEW x \in Commands
               PROVE  /\ command'[x].phase = "idle" => command'[x].action = Nil
                      /\ command'[x].phase \in {"connecting", "waiting"} =>
                           /\ command'[x].ask \in Asked
                           /\ IF command'[x].action = Nil THEN command'[x].ask.op = command'[x].op
                              ELSE command'[x].op = "bridge_preflight" /\ Settling(x)'
    BY DEF AsksRightly
  <2>3. CASE command'[x] = command[x]
    BY <1>1, <2>1, <2>3 DEF AsksRightly
  <2>4. CASE x = c /\ Reported(command'[x], e, c, ask)
    BY <2>4 DEF Reported
  <2>5. CASE x = c /\ Recovers(command'[x], e, c)
    BY <1>11, <2>2, <2>5
  <2> QED
    BY <1>11, <2>3, <2>4, <2>5
\* What was over is over, and what could not be sent cannot.
<1>24. ASSUME NEW i \in Ids
       PROVE  /\ Over(i) => Over(i)'
              /\ Unsendable(i) => Unsendable(i)'
  <2>1. ConsoleAsks' => ConsoleAsks
    BY <1>12 DEF ConsoleAsks
  <2>2. CASE i = Console
    BY <1>9, <1>10, <2>1, <2>2 DEF Over, Unsendable, Comes
  <2>3. CASE i \in Commands /\ i # Console
    <3>1. Over(i) => i # c /\ ~Waits(i)'
      BY <1>13, <1>14, <2>3 DEF Over
    <3>2. Over(i) => Over(i)'
      BY <1>11, <2>3, <3>1 DEF Over
    <3> QED
      BY <1>10, <3>2 DEF Unsendable, Comes
  <2> QED
    BY <2>2, <2>3 DEF Ids
<1>26. Told'
  <2> SUFFICES ASSUME NEW x \in Commands
               PROVE  ReportTrue(x)'
    BY <1>10 DEF Told, Comes
  <2>1. CASE command'[x] = command[x]
    <3>1. x \in past'.senders => x \in past.senders \/ Waits(x)
      BY <1>8, <1>9, <1>13
    <3>2. past.sent \subseteq past'.sent /\ past.settled \subseteq past'.settled
      BY <1>9
    <3> QED
      BY <1>1, <1>14, <1>24, <2>1, <3>1, <3>2, TellsOn DEF Told
  <2>2. CASE x = c /\ command[x].phase = "waiting" /\ Recovers(command'[x], e, c)
    <3>1. command'[x].report = Printed(NoReport) /\ command'[x].phase = "connecting"
      BY <1>1, <2>2 DEF Recovers, Told, ReportTrue
    <3>2. Printed(NoReport) = [status |-> "answered", sent |-> "absent", of |-> Nil, open |-> FALSE]
      BY DEF Printed, NoReport, Answer
    <3> QED
      BY <3>1, <3>2 DEF ReportTrue
  <2>3. CASE x = c /\ command[x].phase = "waiting" /\ command[x].ask = ask /\ Reported(command'[x], e, c, ask)
    <3>1. PICK r : r = command'[x].report
      OBVIOUS
    <3>2. command'[x].phase = "done" /\ Untouched(x)
      BY <1>16, <2>3 DEF Reported
    <3>3. r.sent = "no" =>
            /\ x \notin past'.senders /\ ~Waits(x)'
            /\ \A i \in {x, r.of} \cap Ids : Unsendable(i)' \/ (r.open /\ i = r.of)
      <4> SUFFICES ASSUME r.sent = "no"
                   PROVE  /\ x \notin past'.senders /\ ~Waits(x)'
                          /\ \A i \in {x, r.of} \cap Ids : Unsendable(i)' \/ (r.open /\ i = r.of)
        OBVIOUS
      <4>1. e.sent = {} /\ past'.senders = past.senders /\ past'.sent = past.sent
        BY <1>8, <1>9, <2>3, <3>1 DEF Reported
      <4>2. x \notin past'.senders /\ x \notin past'.sent /\ ~Waits(x)'
        BY <1>14, <2>3, <3>2, <4>1 DEF Untouched
      <4>3. Over(x)'
        BY <3>2, <4>2, ChannelAssumption DEF Over
      \* The input that the report tells of, ...
      <4>4. ASSUME r.of # Nil, r.of \in Ids
            PROVE  Unsendable(r.of)' \/ r.open
        <5>1. /\ state' # Nil /\ r.of = state'.id /\ Unsent(state)'
              /\ state'.status = "prepared" => r.open
          BY <1>4, <2>3, <3>1, <4>4 DEF Reported, Unsent
        <5>2. r.of \notin past'.sent
          BY <1>10, <5>1 DEF Comes, StateTrue
        <5>3. ~Untouched(r.of)'
          BY <5>1 DEF Untouched
        <5>4. Over(r.of)'
          BY <1>21, <1>22, <4>4, <5>3, TouchedIsOver
        <5> QED
          BY <5>1, <5>2, <5>4 DEF Unsendable
      \* ... and the command's own, if that is another.
      <4>5. x # r.of => Unsendable(x)'
        <5>1. ASSUME x # r.of, state' # Nil, state'.id = x
              PROVE  FALSE
          <6>1. r.of = Nil /\ (e.pending = Nil \/ ask.op \notin Acting)
            BY <1>4, <2>3, <3>1, <5>1 DEF Reported
          <6>2. ask.op \notin Acting
            BY <1>4, <5>1, <6>1
          <6> QED
            BY <1>20, <3>2, <5>1, <6>2 DEF Ids, Untouched
        <5> QED
          BY <4>2, <4>3, <5>1 DEF Unsendable
      <4> QED
        BY <4>2, <4>4, <4>5, ChannelAssumption
    <3>4. r.sent = "yes" => r.of \in past'.sent
      BY <1>4, <1>10, <2>3, <3>1 DEF Reported, Comes, StateTrue
    <3>5. r.status = "pending_recovered" => command'[x].action \in past'.settled
      <4> SUFFICES ASSUME r.status = "pending_recovered"
                   PROVE  command'[x].action \in past'.settled
        OBVIOUS
      <4>1. command'[x].action = command[x].action /\ command[x].action # Nil /\ Settles(e, ask)
        BY <2>3, <3>1 DEF Reported
      <4>2. Settling(x) /\ command[x].op = "bridge_preflight"
        BY <1>1, <2>3, <4>1 DEF AsksRightly
      <4>3. command[x].action \in past.settled \/ command[x].action = state.id
        BY <2>3, <4>1, <4>2 DEF Settling, Settles
      <4> QED
        BY <1>9, <4>1, <4>3 DEF Settles
    <3> QED
      BY <3>1, <3>2, <3>3, <3>4, <3>5 DEF ReportTrue
  <2> QED
    BY <1>11, <2>1, <2>2, <2>3
<1>25. Counted'
  <2> SUFFICES ASSUME NEW i \in Ids
               PROVE  /\ past'.auto[i] + Cardinality(About(i)') <= RECOVERY_LIMIT
                      /\ state' # Nil /\ state'.id = i => past'.auto[i] + Cardinality(About(i)') <= state'.tries
    BY DEF Counted
  <2>1. past.auto[i] \in Nat /\ IsFiniteSet(About(i)) /\ Cardinality(About(i)) \in Nat /\ RECOVERY_LIMIT \in Nat
    BY <1>1, AboutFinite, ChannelAssumption DEF ChannelTypeOK
  <2>2. /\ past.auto[i] + Cardinality(About(i)) <= RECOVERY_LIMIT
        /\ state # Nil /\ state.id = i => past.auto[i] + Cardinality(About(i)) <= state.tries
    BY <1>1 DEF Counted
  <2>3. (state' # Nil => state'.tries \in Nat) /\ (state # Nil => state \in Pendings /\ state.tries \in Nat)
    BY <1>1, <1>10 DEF Pendings, ChannelTypeOK, Comes
  \* The input was found pending and is tried once more, ...
  <2>4. CASE c \in Commands /\ Recovers(command'[c], e, c) /\ state.id = i
    <3>1. state # Nil /\ state' = [state EXCEPT !.tries = @ + 1] /\ state'.tries <= RECOVERY_LIMIT
      BY <1>4, <2>4 DEF Recovers
    <3>2. state'.tries = state.tries + 1
      BY <2>3, <3>1 DEF Pendings
    <3>3. About(i)' \in SUBSET (About(i) \cup {c})
      BY <1>11 DEF About
    <3>4. Cardinality(About(i)') \in Nat /\ Cardinality(About(i)') <= Cardinality(About(i)) + 1
      <4>1. IsFiniteSet(About(i) \cup {c}) /\ Cardinality(About(i) \cup {c}) <= Cardinality(About(i)) + 1
        <5>1. /\ IsFiniteSet(About(i) \cup {c})
              /\ Cardinality(About(i) \cup {c})
                   = IF c \in About(i) THEN Cardinality(About(i)) ELSE Cardinality(About(i)) + 1
          BY <2>1, FS_AddElement
        <5> QED
          BY <2>1, <5>1
      <4>2. Cardinality(About(i) \cup {c}) \in Nat
        BY <4>1, FS_CardinalityType
      <4> QED
        BY <2>1, <3>3, <4>1, <4>2, FS_Subset, FS_CardinalityType
    <3> QED
      BY <1>9, <2>1, <2>2, <2>3, <2>4, <3>1, <3>2, <3>4, ChannelAssumption
  \* ... or nobody comes to ask for more.
  <2>5. CASE ~(c \in Commands /\ Recovers(command'[c], e, c) /\ state.id = i)
    <3>1. About(i)' \subseteq About(i)
      BY <1>11, <2>5 DEF About, Reported, Recovers
    <3>2. Cardinality(About(i)') \in Nat /\ Cardinality(About(i)') <= Cardinality(About(i))
      BY <3>1, AboutKept
    <3>3. ASSUME state' # Nil, state'.id = i
          PROVE  past.auto[i] + Cardinality(About(i)') <= state'.tries
      <4>1. CASE state # Nil /\ state'.id = state.id /\ state'.tries >= state.tries
        BY <2>1, <2>2, <2>3, <3>2, <3>3, <4>1
      <4>2. CASE ask.op \in Acting /\ i = c
        <5>1. past.auto[i] = 0 /\ About(i) = {}
          BY <1>15, <4>2 DEF Untouched, About
        <5>2. Cardinality(About(i)) = 0
          BY <5>1, FS_EmptySet
        <5> QED
          BY <2>3, <3>2, <3>3, <5>1, <5>2
      <4> QED
        BY <1>10, <3>3, <4>1, <4>2 DEF Comes
    <3> QED
      BY <1>9, <2>1, <2>2, <3>2, <3>3
  <2> QED
    BY <2>4, <2>5
<1> QED
  BY <1>17, <1>18, <1>19, <1>21, <1>22, <1>23, <1>25, <1>26 DEF ChannelInv

-------------------------------------------------------------------------------
(* The theorems *)

LEMMA ChannelInit == InitChannel => ChannelInv
<1> SUFFICES ASSUME InitChannel
             PROVE  ChannelInv
  OBVIOUS
<1> USE DEF InitChannel
<1>1. Printed(NoReport) = [status |-> "answered", sent |-> "absent", of |-> Nil, open |-> FALSE]
  BY DEF Printed, NoReport, Answer
<1>2. /\ channel.backlog = <<>> /\ channel.typed = <<>> /\ channel.buffer = <<>> /\ channel.busy = Nil
      /\ channel \in [backlog : Seq(Messages), typed : Seq(Messages), buffer : Seq(Messages),
                      busy : Messages \cup {Nil}]
  BY DEF ListenerGone
<1>3. \A c \in Commands : /\ command[c].phase = "idle" /\ command[c].action = Nil /\ command[c].gone = {}
                          /\ command[c].report = Printed(NoReport)
  OBVIOUS
<1>4. /\ past.sent = {} /\ past.senders = {} /\ past.settled = {} /\ past.inspected = {} /\ past.executed = {}
      /\ \A i \in Ids : past.auto[i] = 0
      /\ past \in [sent : SUBSET Ids, senders : SUBSET Ids, settled : SUBSET Ids, inspected : SUBSET Commands, typed : Nat,
                   executed : SUBSET Ids, auto : [Ids -> Nat]]
  OBVIOUS
<1>5. ChannelTypeOK
  <2>1. command \in [Commands -> Submitters]
    BY <1>1 DEF Submitters, Reports
  <2>2. /\ adapter \in [up : BOOLEAN, opened : Nat, armed : BOOLEAN] /\ state = Nil
        /\ packets \in Seq([action : Ids, right : BOOLEAN])
    OBVIOUS
  <2> HIDE DEF InitChannel
  <2> QED
    BY <1>2, <1>4, <2>1, <2>2 DEF ChannelTypeOK
<1>6. \A x : ~Waits(x)
  BY <1>2 DEF Waits
<1>7. OneMessage /\ InspectionsBehind
  BY <1>2, <1>3, <1>4 DEF OneMessage, InspectionsBehind
<1>8. \A i \in Ids : Untouched(i)
  BY <1>3, <1>4, ChannelAssumption DEF Untouched
<1>9. CommandsFresh /\ ConsoleFresh
  BY <1>2, <1>4, <1>8 DEF CommandsFresh, ConsoleFresh, Ids
<1>10. AsksRightly /\ Told
  <2>1. AsksRightly
    BY <1>3 DEF AsksRightly
  <2>2. StateTrue
    BY DEF StateTrue
  <2>3. ASSUME NEW c \in Commands
        PROVE  ReportTrue(c)
    <3> HIDE DEF InitChannel
    <3>1. command[c].report = Printed(NoReport)
      BY <1>3
    <3>2. command[c].report.sent = "absent" /\ command[c].report.status = "answered"
      BY <1>1, <3>1
    <3> QED
      BY <3>1, <3>2 DEF ReportTrue
  <2> QED
    BY <2>1, <2>2, <2>3 DEF Told
<1>11. Counted
  <2>1. \A i \in Ids : About(i) = {}
    BY <1>3 DEF About
  <2>2. \A i \in Ids : Cardinality(About(i)) = 0
    BY <2>1, FS_EmptySet
  <2>3. state = Nil
    OBVIOUS
  <2> QED
    BY <1>4, <2>2, <2>3, ChannelAssumption DEF Counted
<1> QED
  BY <1>5, <1>7, <1>9, <1>10, <1>11 DEF ChannelInv

LEMMA ChannelStep == ChannelInv /\ [NextChannel]_channelVars => ChannelInv'
<1> SUFFICES ASSUME ChannelInv, [NextChannel]_channelVars
             PROVE  ChannelInv'
  OBVIOUS
<1>1. ASSUME NEW c \in Commands, BeginCommand(c)
      PROVE  ChannelInv'
  BY <1>1, BeginKeeps
<1>2. ASSUME NEW c \in Commands, SendRequest(c)
      PROVE  ChannelInv'
  BY <1>2, SendKeeps
<1>3. ASSUME NEW c \in Commands, GiveUp(c)
      PROVE  ChannelInv'
  BY <1>3, GiveUpKeeps
<1>4. CASE TypeLine
  BY <1>4, TypeKeeps
<1>5. CASE WritePacket
  BY <1>5, WriteKeeps
<1>6. CASE OpenAdapter
  BY <1>6, OpenKeeps
<1>7. CASE Accept
  BY <1>7, AcceptKeeps
<1>8. CASE ReadTerminal
  BY <1>8, ReadKeeps
<1>9. CASE ServeLine
  BY <1>9, ServeKeeps
<1>10. CASE Handle
  BY <1>10, HandleKeeps
<1>11. CASE CrashAdapter
  BY <1>11, CrashKeeps
<1>12. CASE TimeRunsOut
  BY <1>12, LateKeeps
<1>13. CASE UNCHANGED channelVars
  <2>1. /\ UNCHANGED <<state, command, packets>> /\ UNCHANGED <<adapter, channel, past>>
    BY <1>13 DEF channelVars
  <2>2. ChannelTypeOK' /\ OneMessage' /\ InspectionsBehind' /\ ConsoleFresh'
    BY <2>1 DEF ChannelInv, ChannelTypeOK, OneMessage, InspectionsBehind, ConsoleFresh, Carries, Waits, Lost, Untouched
  <2>3. Over(Console) => Over(Console)'
    BY <2>1 DEF Over, ConsoleAsks, Waits
  <2>4. \A x : Waits(x)' => Waits(x)
    BY <2>1 DEF Waits
  <2>5. CommandsFresh' /\ AsksRightly' /\ Told' /\ Counted'
    BY <2>1, <2>3, <2>4, MessagesMove
  <2> QED
    BY <2>2, <2>5 DEF ChannelInv
<1> QED
  BY <1>1, <1>2, <1>3, <1>4, <1>5, <1>6, <1>7, <1>8, <1>9, <1>10, <1>11, <1>12, <1>13 DEF NextChannel

\* The inductive invariant: a command has one message under way, an inspection
\* stands behind the lost ones, a request opens an input at most once, only an input
\* that is still prepared can be sent by a later request, state.json and the
\* reports say so, and each automatic recovery was paid for with one try
\* (RequestServer, submit, prepare, send, recoverable_error, _pending_recovery).
THEOREM ChannelInvariant == SpecChannel => []ChannelInv
BY ChannelInit, ChannelStep, PTL DEF SpecChannel

\* Once an inspection asked for after a lost reply is answered, the request with
\* the lost reply no longer waits to be handled (RequestServer, timed_requests).
THEOREM InspectionAlwaysConclusive == SpecChannel => []InspectionIsConclusive
<1>1. ChannelInv => InspectionIsConclusive
  BY DEF ChannelInv, InspectionsBehind, Waits, InspectionIsConclusive
<1> QED
  BY <1>1, ChannelInvariant, PTL

\* What a command reported stays true whatever is asked for later: after "not sent"
\* no input is sent on its request, nor its own or the one it tells of, unless that
\* one was reported as prepared, which a send may send; and automatic recovery
\* submits at most as many results for an input as its recovery limit (veda_submit,
\* prepare, send, _pending_recovery).
THEOREM ReportsAlwaysTrue == SpecChannel => []ReportsAreTrue
<1>1. ChannelInv => RecoveryIsBounded
  <2> SUFFICES ASSUME ChannelInv, NEW i \in Ids
               PROVE  past.auto[i] <= RECOVERY_LIMIT
    BY DEF RecoveryIsBounded
  <2>1. past.auto[i] \in Nat /\ Cardinality(About(i)) \in Nat /\ RECOVERY_LIMIT \in Nat
    BY AboutFinite, ChannelAssumption DEF ChannelInv, ChannelTypeOK
  <2> QED
    BY <2>1 DEF ChannelInv, Counted
<1>2. ChannelInv => ReportsAreTrue
  <2> SUFFICES ASSUME ChannelInv, NEW c \in Commands
               PROVE  LET r == command[c].report
                      IN /\ r.sent = "no" =>
                              /\ c \notin past.senders
                              /\ \A i \in {c, r.of} \cap past.sent : r.open /\ i = r.of
                         /\ r.sent = "yes" => r.of \in past.sent
                         /\ r.status = "pending_recovered" => command[c].action \in past.settled
    BY <1>1 DEF ReportsAreTrue, ChannelInv
  <2>1. ReportTrue(c) /\ past.sent \subseteq Ids
    BY DEF ChannelInv, Told, ChannelTypeOK
  <2> QED
    BY <2>1 DEF ReportTrue, Unsendable
<1> QED
  BY <1>2, ChannelInvariant, PTL

===============================================================================
