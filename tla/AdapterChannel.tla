---------------------------- MODULE AdapterChannel ----------------------------
(***************************************************************************)
(* The request channel of the reviewed adapter (adapter_channel), the      *)
(* adapter's own loop over it and its terminal (veda_reviewed_play), and   *)
(* the command that sends one request and, when a preflight finds an input *)
(* that is still open, tries to settle it with a result packet that was    *)
(* written before (veda_submit, pending_recovery).                         *)
(*                                                                         *)
(* The reviewed player behind the loop is cut down to what its answers     *)
(* tell: the state of its one pending input, with the recovery count of    *)
(* recoverable_error (ReviewedPlay has the steps within).  An input is     *)
(* named by the command that asked for it, or by the terminal.  The        *)
(* learning policy; saves that fail are in ReviewedPlay.  The requests     *)
(* timing, resume, invalidate_evidence and repair_outcome_metadata are     *)
(* left out: they change nothing that an answer here tells of.             *)
(***************************************************************************)
EXTENDS Naturals, Sequences, FiniteSets, SequencesExt, FiniteSetsExt

CONSTANTS
  Nil,
  Commands,           \* the veda_submit processes there will be
  LISTEN,             \* connections waiting to be accepted
  RECOVERY_LIMIT,     \* ROUTINE_RECOVERY_LIMIT
  MaxOpen, MaxPackets, MaxTyped   \* bounds: adapter processes, result packets, typed lines

VARIABLES
  adapter,   \* [up, opened, armed]
  state,     \* state.json: the pending input, [id, status, response, tries, late]
  channel,   \* [backlog, typed, buffer, busy]
  command,   \* command -> [phase, op, ask, action, gone, report]
  packets,   \* result packets in the session's directory, by time: [action, right]
  past    \* [sent, senders, settled, inspected, typed, executed, auto]

channelVars == <<adapter, state, channel, command, packets, past>>

Console == "terminal"
Ids == Commands \cup {Console}

Statuses == {"prepared", "preparing_dispatch", "attempted", "verified_pending_log"}
Pendings ==
  [id : Ids, status : Statuses,
   response : {Nil, "ok", "not_sent"}, tries : Nat, late : BOOLEAN]
Naming == {"send", "reconcile", "not_performed"}   \* requests that name the input
Operations ==
  {"summary", "bridge_preflight", "prepare", "execute", "verify", "finalize", "cancel_prepared",
   "recover_unsent", "stop"} \cup Naming
Asked == [op : Operations \cup {"arm"}, packet : Nat \cup {Nil}, of : Ids \cup {Nil}]
Reports ==
  [status : {"answered", "reply_unknown", "pending_recovered"}, sent : {"absent", "no", "yes", "unknown"},
   of : Ids \cup {Nil}, open : BOOLEAN]
Submitters ==
  [phase : {"idle", "connecting", "waiting", "done"}, op : Operations \cup {Nil}, ask : Asked \cup {Nil},
   action : Ids \cup {Nil}, gone : SUBSET Commands, report : Reports]
Messages == [from : Ids, ask : Asked, gone : SUBSET Commands]

\* Nil is none of the values it stands beside.
ASSUME ChannelAssumption ==
  /\ IsFiniteSet(Commands) /\ Console \notin Commands
  /\ Nil \notin Ids \cup Operations \cup {"ok", "not_sent"} /\ Nil \notin Nat /\ Nil \notin Messages
  /\ Nil \notin Pendings /\ Nil \notin [id : Ids, status : Statuses]
  /\ LISTEN \in Nat \ {0} /\ RECOVERY_LIMIT \in Nat

Ask(op) == [op |-> op, packet |-> Nil, of |-> Nil]
Message(from, ask, gone) == [from |-> from, ask |-> ask, gone |-> gone]
Lost == {c \in Commands : command[c].report.status = "reply_unknown"}

-------------------------------------------------------------------------------
\* Answers of the adapter.  "sent" is controller_input_sent.

Answer(status, sent, p) ==
  [status |-> status, sent |-> sent,
   pending |-> IF p = Nil THEN Nil ELSE [id |-> p.id, status |-> p.status]]
NoReport == Answer("none", "absent", Nil)

OpenInput(id, status, response) ==
  [id |-> id, status |-> status, response |-> response, tries |-> 0, late |-> FALSE]

\* What recoverable_error says of the delivery of the pending input.
Delivery(p) ==
  IF p = Nil \/ p.status \notin {"attempted", "verified_pending_log"} THEN "no"
  ELSE CASE p.response = "ok" -> "yes" [] p.response = "not_sent" -> "no" [] OTHER -> "unknown"

BudgetExceeded(p) == p # Nil /\ (p.tries > RECOVERY_LIMIT \/ p.late)

Effect(p, up, armed, answer, sent, settled) ==
  [pending |-> p, up |-> up, armed |-> armed, answer |-> answer, sent |-> sent, settled |-> settled]

\* recoverable_error: one more try for the pending input, and it stays.  Bound:
\* tries are counted until there are too many.
Refused(p) ==
  LET q == IF p = Nil \/ BudgetExceeded(p) THEN p ELSE [p EXCEPT !.tries = @ + 1]
      status == IF BudgetExceeded(q) THEN "recovery_budget_exceeded" ELSE "recoverable_review"
  IN Effect(q, TRUE, adapter.armed, Answer(status, Delivery(q), q), {}, {})

\* The connection to the bridge is lost: the session is closed.
Stopped(p, sent) ==
  Effect(p, FALSE, FALSE, Answer("transport_stopped", Delivery(p), p), sent, {})

\* prepare: nothing is sent, and the input waits for a send of its own.
Prepared(c) ==
  {Refused(Nil),
   Effect(OpenInput(c, "prepared", Nil), TRUE, adapter.armed,
          Answer("prepared", "no", OpenInput(c, "prepared", Nil)), {}, {})}

\* send, of a prepared input: it may be refused, or the bridge be lost, while the
\* input is still prepared, or before the call; the call may be made in vain.
Sent(p) ==
  LET as(status, response) == [p EXCEPT !.status = status, !.response = response]
  IN {Refused(p), Stopped(p, {}), Refused(as("preparing_dispatch", Nil)),
      Effect(as("attempted", "ok"), TRUE, TRUE,
             Answer("awaiting_fresh_review", "yes", as("attempted", "ok")), {p.id}, {}),
      Stopped(as("attempted", "not_sent"), {}),
      Stopped(as("attempted", Nil), {}), Stopped(as("attempted", Nil), {p.id})}

\* execute: prepare and send, in one request.
Executed(c) == {Refused(Nil)} \cup Sent(OpenInput(c, "prepared", Nil))

\* finalize: the result is stored, and may have ended the run; or it is not.
Finalized(p) ==
  {Effect(Nil, TRUE, adapter.armed, Answer("verified", "absent", Nil), {}, {p.id}),
   Effect(Nil, FALSE, FALSE, Answer("run_complete", "no", Nil), {}, {p.id}),
   Refused([p EXCEPT !.status = "verified_pending_log"])}

\* summary and _check_bridge_status change nothing.
Saying(answer) == Effect(state, TRUE, adapter.armed, answer, {}, {})
Summary == Saying(Answer("summary", "absent", state))
Idle == ~adapter.armed /\ state = Nil

BridgePreflight ==
  IF Idle THEN {Saying(Answer(s, "no", Nil)) : s \in {"bridge_access_ready", "bridge_access_blocked"}}
  ELSE {Refused(state)}

\* The evidence may be refused, or the bridge not be ready.
Armed ==
  {Refused(state)} \cup
    (IF Idle THEN {[Saying(Answer("armed_codex_reviewed", "absent", Nil)) EXCEPT !.armed = TRUE], Stopped(Nil, {})}
     ELSE {})

\* cancel_prepared and recover_unsent: the input is given up.
Withdrawn(answer) == [Saying(answer) EXCEPT !.pending = Nil]

\* _handle, by operation: what can come of a request.  Its evidence may be
\* refused; reconcile is told apart by the status it asks for.
Handled(c, ask) ==
  LET p == state
      pending(status) == p # Nil /\ p.status = status
      named(status) == pending(status) /\ ask.of = p.id
      when(condition, effects) == IF condition THEN effects ELSE {Refused(p)}
  IN CASE ask.op = "summary" -> {Summary}
       [] ask.op = "bridge_preflight" -> BridgePreflight
       [] ask.op = "arm" -> Armed
       [] ask.op = "prepare" -> when(p = Nil, Prepared(c))
       [] ask.op = "execute" -> when(adapter.armed /\ p = Nil, Executed(c))
       [] ask.op = "send" -> when(adapter.armed /\ named("prepared"), Sent(p))
       [] ask.op = "verify" ->
            when(pending("attempted") /\ packets[ask.packet].action = p.id /\ packets[ask.packet].right,
                 Finalized(p))
       [] ask.op = "finalize" -> when(pending("verified_pending_log"), Finalized(p))
       [] ask.op = "cancel_prepared" ->
            when(pending("prepared"), {Withdrawn(Answer("cancelled_without_input", "absent", Nil))})
       [] ask.op = "recover_unsent" ->
            when(pending("preparing_dispatch"), {Refused(p), Withdrawn(Answer("reconciled_unsent", "no", Nil))})
       [] ask.op = "reconcile" ->
            when(named("attempted"), {Refused(p), Saying(Answer("unresolved", "absent", Nil))})
       [] ask.op = "not_performed" ->
            when(named("attempted") /\ p.response = "not_sent", {Refused(p)} \cup Finalized(p))
       [] ask.op = "stop" -> {Effect(p, FALSE, FALSE, Answer("stopped", "absent", Nil), {}, {})}

\* What is saved on the way to a send, and to a result that is stored.
Saved(p, settled) == Effect(p, FALSE, FALSE, NoReport, {}, settled)
SavedUnsent(p, status) == Saved([p EXCEPT !.status = status, !.response = Nil], {})
SavedVerified(settled) == Saved([state EXCEPT !.status = "verified_pending_log"], settled)

\* What may be in state.json, in the database and in the game when the process
\* dies in a request: what comes of it, nothing yet, or what is saved on the way.
CutShort(c, ask) ==
  LET all == Handled(c, ask)
      dispatched == {e \in all : e.answer.status = "awaiting_fresh_review"}
      stored == {e \in all : e.settled # {}}
  IN all \cup {Saved(state, {})}
       \cup {SavedUnsent(e.pending, s) : e \in dispatched, s \in {"prepared", "preparing_dispatch"}}
       \cup {SavedVerified({}) : e \in stored} \cup {SavedVerified(e.settled) : e \in stored}

-------------------------------------------------------------------------------
\* The command.

\* What is printed.  Other statuses are not told apart.  An input that is left
\* "prepared" is open (must_not_repeat is false): it may be sent by a later request.
Printed(answer) ==
  LET told == answer.sent \in {"no", "yes"} /\ answer.pending # Nil
  IN [status |-> IF answer.status \in {"reply_unknown", "pending_recovered"} THEN answer.status ELSE "answered",
      sent |-> answer.sent, of |-> IF told THEN answer.pending.id ELSE Nil,
      open |-> told /\ answer.pending.status = "prepared"]

Ends(c, answer) == [command[c] EXCEPT !.phase = "done", !.ask = Nil, !.gone = {}, !.report = Printed(answer)]
Asks(c, ask, action) == [command[c] EXCEPT !.phase = "connecting", !.ask = ask, !.action = action]
Said(status) == Answer(status, "no", Nil)

\* find_matching_verify_request: the newest packet for this input.
NewestPacket(action) ==
  LET found == {i \in DOMAIN packets : packets[i].action = action}
  IN IF found = {} THEN Nil ELSE Max(found)

\* The answer to the packet or to finalize (requires_finalize is never answered).
SettledBy(answer) ==
  Said(CASE answer.status = "run_complete" -> "run_complete"
         [] answer.status = "verified" -> "pending_recovered"
         [] OTHER -> "pending_reconciliation_required")

\* _pending_recovery, from the answer to the preflight on.
Recovering(c, answer) ==
  IF \/ answer.status \notin {"recoverable_review", "bridge_access_blocked"}
     \/ answer.pending = Nil THEN Ends(c, answer)
  ELSE CASE answer.pending.status = "verified_pending_log" -> Asks(c, Ask("finalize"), answer.pending.id)
         [] answer.pending.status = "attempted" ->
              LET i == NewestPacket(answer.pending.id)
              IN IF i = Nil THEN Ends(c, Said("pending_reconciliation_required"))
                 ELSE Asks(c, [Ask("verify") EXCEPT !.packet = i], answer.pending.id)
         [] OTHER -> Ends(c, answer)

Received(c, answer) ==
  IF command[c].action # Nil THEN Ends(c, SettledBy(answer))
  ELSE IF command[c].op = "bridge_preflight" THEN Recovering(c, answer)
  ELSE Ends(c, answer)

\* Faulty variant: a reply that does not come in time is a request not sent.
UnansweredNotSent == Said("submission_not_sent")

Unanswered == Answer("reply_unknown", "unknown", Nil)

-------------------------------------------------------------------------------

\* main: "finalize" looks at state.json first.  An input is named as state.json
\* has it, which may have changed when the request is handled.
BeginCommand(c) ==
  /\ command[c].phase = "idle"
  /\ \E op \in Operations, i \in DOMAIN packets \cup {Nil}, of \in Ids \cup {Nil} :
       /\ op = "verify" <=> i # Nil
       /\ IF op \in Naming THEN state # Nil /\ of = state.id ELSE of = Nil
       /\ command' = [command EXCEPT ![c] =
            [phase |-> IF op = "finalize" /\ state = Nil THEN "done" ELSE "connecting",
             op |-> op, ask |-> [op |-> op, packet |-> i, of |-> of], action |-> Nil, gone |-> Lost,
             report |-> Printed(IF op = "finalize" /\ state = Nil THEN Said("no_pending_action") ELSE NoReport)]]
  /\ UNCHANGED <<adapter, state, channel, packets, past>>

\* submit: connect and send; there may be nobody to connect to.
SendRequest(c) ==
  /\ command[c].phase = "connecting"
  /\ LET open == adapter.up /\ Len(channel.backlog) < LISTEN
         auto == open /\ command[c].ask.op = "verify" /\ command[c].action # Nil
     IN /\ command' = [command EXCEPT ![c] =
             IF open THEN [@ EXCEPT !.phase = "waiting"] ELSE Ends(c, Said("submission_not_sent"))]
        /\ channel' = IF ~open THEN channel
                      ELSE [channel EXCEPT !.backlog = Append(@, Message(c, command[c].ask, command[c].gone))]
        /\ past' = IF ~auto THEN past
                      ELSE [past EXCEPT !.auto[command[c].action] = @ + 1]
  /\ UNCHANGED <<adapter, state, packets>>

\* The time to wait for a reply is over, or the connection is reset.
GiveUp(c) ==
  /\ command[c].phase = "waiting"
  /\ command' = [command EXCEPT ![c] = Ends(c, Unanswered)]
  /\ UNCHANGED <<adapter, state, channel, packets, past>>

\* A request at the adapter's own terminal.  Bound: one input is asked for there,
\* the session is armed there, and packets and cleanup come by the socket.
TypeLine ==
  /\ adapter.up /\ past.typed < MaxTyped
  /\ \E op \in {"arm", "summary"} \cup (IF Console \in past.executed THEN {} ELSE {"execute"}) :
       /\ channel' = [channel EXCEPT !.typed = Append(@, Message(Console, Ask(op), Lost))]
       /\ past' = [past EXCEPT !.typed = @ + 1,
                        !.executed = IF op = "execute" THEN @ \cup {Console} ELSE @]
  /\ UNCHANGED <<adapter, state, command, packets>>

\* A result is reviewed and its packet is written; it need not be right.
WritePacket ==
  /\ state # Nil /\ state.status = "attempted" /\ Len(packets) < MaxPackets
  /\ \E right \in BOOLEAN : packets' = Append(packets, [action |-> state.id, right |-> right])
  /\ UNCHANGED <<adapter, state, channel, command, past>>

-------------------------------------------------------------------------------
\* The adapter's process: timed_requests and serve.

OpenAdapter ==
  /\ ~adapter.up /\ adapter.opened < MaxOpen
  /\ adapter' = [up |-> TRUE, opened |-> adapter.opened + 1, armed |-> FALSE]
  /\ UNCHANGED <<state, channel, command, packets, past>>

\* The listener is gone, with all that waited.
ListenerGone == [backlog |-> <<>>, typed |-> <<>>, buffer |-> <<>>, busy |-> Nil]

Free == adapter.up /\ channel.busy = Nil

\* Faulty variant: the terminal is read before the socket.
SocketLast == channel.typed = <<>>

SocketFirst == TRUE

\* accept: the line does not come, or is taken as the next request.
Accept ==
  /\ Free /\ channel.buffer = <<>> /\ channel.backlog # <<>> /\ SocketFirst
  /\ \E taken \in BOOLEAN :
       channel' = [channel EXCEPT !.backlog = Tail(@), !.busy = IF taken THEN Head(channel.backlog) ELSE Nil]
  /\ UNCHANGED <<adapter, state, command, packets, past>>

\* Lines read from the terminal, when no connection is ready, are served before
\* the socket is looked at again.
ReadTerminal ==
  /\ Free /\ channel.buffer = <<>> /\ channel.typed # <<>>
  /\ SocketFirst => channel.backlog = <<>>
  /\ channel' = [channel EXCEPT !.buffer = channel.typed, !.typed = <<>>]
  /\ UNCHANGED <<adapter, state, command, packets, past>>

ServeLine ==
  /\ Free /\ channel.buffer # <<>>
  /\ channel' = [channel EXCEPT !.buffer = Tail(@), !.busy = Head(channel.buffer)]
  /\ UNCHANGED <<adapter, state, command, packets, past>>

\* Done in one step with the reply, which a command that still waits receives.
Handle ==
  /\ adapter.up /\ channel.busy # Nil
  /\ LET c == channel.busy.from
     IN \E e \in Handled(c, channel.busy.ask) :
          /\ state' = e.pending
          /\ adapter' = [adapter EXCEPT !.up = e.up, !.armed = e.armed]
          /\ channel' = IF e.up THEN [channel EXCEPT !.busy = Nil] ELSE ListenerGone
          /\ command' = IF c \in Commands /\ command[c].phase = "waiting"
                        THEN [command EXCEPT ![c] = Received(c, e.answer)] ELSE command
          /\ past' = [past EXCEPT
               !.sent = @ \cup e.sent, !.senders = IF e.sent = {} THEN @ ELSE @ \cup {c},
               !.settled = @ \cup e.settled,
               !.inspected = @ \cup (IF channel.busy.ask.op = "summary" THEN channel.busy.gone ELSE {})]
  /\ UNCHANGED packets

\* The process dies, maybe within a request, or with the reply still to be sent.
CrashAdapter ==
  /\ adapter.up
  /\ IF channel.busy = Nil THEN UNCHANGED <<state, past>>
     ELSE \E e \in CutShort(channel.busy.from, channel.busy.ask) :
            /\ state' = e.pending
            /\ past' = [past EXCEPT !.sent = @ \cup e.sent, !.settled = @ \cup e.settled,
                 !.senders = IF e.sent = {} THEN @ ELSE @ \cup {channel.busy.from}]
  /\ adapter' = [adapter EXCEPT !.up = FALSE, !.armed = FALSE]
  /\ channel' = ListenerGone
  /\ UNCHANGED <<command, packets>>

\* RECOVERY_BUDGET_SECONDS have gone by since the first try.
TimeRunsOut ==
  /\ state # Nil /\ state.tries > 0 /\ ~BudgetExceeded(state)
  /\ state' = [state EXCEPT !.late = TRUE]
  /\ UNCHANGED <<adapter, channel, command, packets, past>>

InitChannel ==
  /\ adapter = [up |-> FALSE, opened |-> 0, armed |-> FALSE]
  /\ state = Nil /\ channel = ListenerGone /\ packets = <<>>
  /\ command = [c \in Commands |-> [phase |-> "idle", op |-> Nil, ask |-> Nil, action |-> Nil,
                                    gone |-> {}, report |-> Printed(NoReport)]]
  /\ past = [sent |-> {}, senders |-> {}, settled |-> {}, inspected |-> {}, typed |-> 0, executed |-> {},
                auto |-> [c \in Ids |-> 0]]

NextChannel ==
  \/ \E c \in Commands : BeginCommand(c) \/ SendRequest(c) \/ GiveUp(c)
  \/ TypeLine \/ WritePacket \/ OpenAdapter \/ Accept \/ ReadTerminal \/ ServeLine
  \/ Handle \/ CrashAdapter \/ TimeRunsOut

-------------------------------------------------------------------------------

SpecChannel == InitChannel /\ [][NextChannel]_channelVars

\* Every variable has its type.
ChannelTypeOK ==
  /\ adapter \in [up : BOOLEAN, opened : Nat, armed : BOOLEAN]
  /\ state \in Pendings \cup {Nil}
  /\ channel \in [backlog : Seq(Messages), typed : Seq(Messages), buffer : Seq(Messages),
                  busy : Messages \cup {Nil}]
  /\ command \in [Commands -> Submitters]
  /\ packets \in Seq([action : Ids, right : BOOLEAN])
  /\ past \in [sent : SUBSET Ids, senders : SUBSET Ids, settled : SUBSET Ids, inspected : SUBSET Commands, typed : Nat,
               executed : SUBSET Ids, auto : [Ids -> Nat]]

\* After a reply was lost, an inspection asked for later is conclusive: once it
\* is answered, the request whose reply was lost is no longer waiting to be
\* handled, whether the inspection came by the socket or at the terminal
\* (RequestServer, timed_requests).
InspectionIsConclusive ==
  \A c \in past.inspected :
    /\ \A i \in DOMAIN channel.backlog : channel.backlog[i].from # c
    /\ channel.busy # Nil => channel.busy.from # c

\* Packets that are refused are not sent again and again: automatic recovery
\* submits at most as many results for an input as its recovery limit allows,
\* through restarts and from several commands at a time (recoverable_error,
\* _pending_recovery).
RecoveryIsBounded == \A c \in Ids : past.auto[c] <= RECOVERY_LIMIT

\* The command's report stays true whatever the adapter does later, from the
\* backlog too.  One that says "not sent" is from a command on whose request no
\* input is ever sent, and neither its own input nor the one it tells of is sent
\* ever, but for one it tells of as still prepared, which a later send may send;
\* an input reported as sent was; and one reported as recovered was settled with
\* its own result (veda_submit, submit, send); and recovery is bounded.
ReportsAreTrue ==
  /\ ChannelTypeOK /\ RecoveryIsBounded
  /\ \A c \in Commands :
       LET r == command[c].report
       IN /\ r.sent = "no" =>
               /\ c \notin past.senders
               /\ \A i \in {c, r.of} \cap past.sent : r.open /\ i = r.of
          /\ r.sent = "yes" => r.of \in past.sent
          /\ r.status = "pending_recovered" => command[c].action \in past.settled

===============================================================================
