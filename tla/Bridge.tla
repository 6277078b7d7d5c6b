-------------------------------- MODULE Bridge --------------------------------
(***************************************************************************)
(* Clients and the owner of the controller joined by the socket: a line    *)
(* that a BridgeClient sent whole is what _serve_client reads, also when   *)
(* the client has given up meanwhile, and the response of the dispatcher   *)
(* is what the client may read.  Every call has a request id of its own;   *)
(* repeated ids are the matter of BridgeDispatcher.                        *)
(***************************************************************************)
EXTENDS Naturals, FiniteSets

CONSTANTS
  Calls, Clients, None,                     \* as in BridgeClient
  MaxRequests, IdleTimeout, WaitsForClients, \* as in BridgeDispatcher
  Taps                                      \* the calls that are input

ASSUME BridgeAssumption ==
  /\ IsFiniteSet(Calls) /\ Calls # {} /\ Clients # {} /\ None \notin Calls /\ Taps \subseteq Calls
  /\ MaxRequests \in Nat \ {0} /\ IdleTimeout \in BOOLEAN /\ WaitsForClients \in BOOLEAN

VARIABLES
  place, owner, result, holder, closing, doubt, sock, broken, line, answer,
  at, req, ledger, reply, lock, op, out, input, stopped, faulted, failed, phase, idle

C == INSTANCE BridgeClient WITH NoCall <- None
D == INSTANCE BridgeDispatcher WITH Ids <- Calls, NoLine <- None

clientVars == <<place, owner, result, holder, closing, doubt, sock, broken, line, answer>>
serverVars == <<at, req, ledger, reply, lock, op, out, input, stopped, faulted, failed, phase, idle>>
vars == <<clientVars, serverVars>>

Init == C!ClientInit /\ D!ServerInit

ClientStep ==
  /\ \/ \E c \in Calls : C!CallStep(c)
     \/ \E o \in Clients : C!CloseFlag(o) \/ C!CloseSocket(o)
  /\ UNCHANGED serverVars

\* _serve_client reads a line; input commands may be ones the service refuses.
Receive(c) ==
  /\ line[c] = "whole"
  /\ \E k \in IF c \in Taps THEN {"tap", "bad"} ELSE {"status", "close"} : D!Arrive(c, c, k)
  /\ UNCHANGED clientVars

\* Faulty variant: the acknowledgement is sent before the command is executed.
RespondEarly(c) ==
  /\ at[c] = "running" /\ answer[c] = "none"
  /\ answer' = [answer EXCEPT ![c] = "ok"]
  /\ UNCHANGED <<place, owner, result, holder, closing, doubt, sock, broken, line>>
  /\ UNCHANGED serverVars

\* It writes the response unless it is cancelled first; whether anybody reads
\* it is the client's matter.
Respond(c) ==
  /\ reply[c] # "none" /\ answer[c] = "none" /\ D!Connected
  /\ answer' = [answer EXCEPT ![c] = reply[c]]
  /\ UNCHANGED <<place, owner, result, holder, closing, doubt, sock, broken, line>>
  /\ UNCHANGED serverVars

ServerStep == D!ServerStep /\ UNCHANGED clientVars

Next == ClientStep \/ ServerStep \/ \E c \in Calls : Receive(c) \/ Respond(c)

Spec == Init /\ [][Next]_vars

-------------------------------------------------------------------------------
(* Properties *)

\* The wire as the caller of call() sees it.
Wire ==
  [c \in Calls |->
    CASE input[c] # "none" -> "executed"
      [] input[c] = "none" /\ result[c] = "not_sent" -> "dropped"
      [] input[c] = "none" /\ result[c] # "not_sent" /\ line[c] = "none" -> "none"
      [] OTHER -> "wire"]

CallPromise == INSTANCE ControllerCall WITH wire <- Wire, status <- result

\* Client, socket and dispatcher together do what ReviewedPlay takes
\* controller.call to do, whoever gives up, closes or fails in between.
KeepsCallPromise == CallPromise!Spec

\* After a call whose outcome a timeout or a fault of the server left unknown,
\* no input of any client begins that had not begun, whether its line is still
\* in a socket, queued behind the lock or not yet sent.
NoInputBehindDoubt ==
  [][\A c, d \in Calls :
       answer[c] = "unknown" /\ c # d /\ input[d] = "none" => input'[d] = "none"]_vars

===============================================================================
