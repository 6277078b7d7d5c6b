---------------------------- MODULE ControllerCall ----------------------------
(***************************************************************************)
(* What the caller of controller.call may rely on, as BridgeClient's and   *)
(* _CommandDispatcher's docstrings state it, and as ReviewedPlay takes the *)
(* controller to behave: a command executes at most once, perhaps after    *)
(* its caller gave up; "ok" says that it was executed and "not_sent" that  *)
(* it never will be.  Bridge implements it.                                *)
(***************************************************************************)
CONSTANTS
  Calls,  \* commands, each with a request id of its own
  Taps    \* those of them that are input

VARIABLES
  wire,   \* "none", "wire", "executed" or "dropped"
  status  \* what the call returned; "none" before

Init ==
  /\ wire = [c \in Calls |-> "none"]
  /\ status = [c \in Calls |-> "none"]

Submit(c) ==
  /\ wire[c] = "none"
  /\ wire' = [wire EXCEPT ![c] = "wire"]
  /\ UNCHANGED status

Execute(c) ==
  /\ wire[c] = "wire" /\ c \in Taps
  /\ wire' = [wire EXCEPT ![c] = "executed"]
  /\ UNCHANGED status

\* "error" and an unknown outcome promise nothing; an exception is one.
Return(c) ==
  \E s \in {"ok", "not_sent", "error", "unknown", "raised"} :
    /\ status[c] = "none"
    /\ status' = [status EXCEPT ![c] = s]
    /\ s = "ok" /\ c \in Taps => wire[c] = "executed"
    /\ s = "not_sent" => wire[c] # "executed"
    /\ wire' = IF s = "not_sent" THEN [wire EXCEPT ![c] = "dropped"] ELSE wire

Next == \E c \in Calls : Submit(c) \/ Execute(c) \/ Return(c)

Spec == Init /\ [][Next]_<<wire, status>>

===============================================================================
