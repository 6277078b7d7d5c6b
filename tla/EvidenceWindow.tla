---------------------------- MODULE EvidenceWindow ----------------------------
(***************************************************************************)
(* Which images an input may rest on.  A request is packaged from a saved  *)
(* image, either bound to the adapter's epoch of evidence (bind_session    *)
(* and check_binding of veda/evidence_continuity.py; the image may then be *)
(* of any age) or unbound (the image may be MAX_AGE seconds old).  The     *)
(* epoch is kept by ReviewedPlaySession (veda/reviewed_play.py): it starts *)
(* when the player is armed, moves on with every input and every change    *)
(* that is reported, and ends with the process; the memory adds that no    *)
(* decision is older than what it has recorded (_chronology of             *)
(* veda/play_telemetry.py).                                                *)
(*                                                                         *)
(* The game is external, and may also be played by hand.  A capture takes  *)
(* time, so that no two share an hour.  The reviewer judges a result by an *)
(* image taken after the call had returned.                                *)
(***************************************************************************)
EXTENDS Integers, FiniteSets

CONSTANTS
  Turns,      \* what a request's context tells apart
  MAX_AGE,    \* of an unbound image, in hours
  MaxHour,    \* bound: the clock
  MaxChanges, \* bound: changes of the screen
  MaxEpochs,  \* bound: ids of epochs
  MaxWrapped, \* bound: packaged requests
  MaxMoves,   \* bound: how often an epoch moves on
  NoEpoch     \* no continuity, no binding, no context, no request

\* Saved images; the player's epochs of evidence; packaged requests.
Shots == [at : Nat, shows : Nat, turn : Turns]
EpochRecords ==
  [id : Nat, active : BOOLEAN, context : Turns \cup {NoEpoch}, seq : Nat, since : Nat]
Requests == [shot : Shots, turn : Turns, binding : EpochRecords \cup {NoEpoch}]

ASSUME WindowAssumption ==
  /\ MAX_AGE \in Nat
  /\ NoEpoch \notin Turns /\ NoEpoch \notin EpochRecords /\ NoEpoch \notin Requests
  /\ MaxHour \in Nat /\ MaxChanges \in Nat /\ MaxEpochs \in Nat /\ MaxMoves \in Nat /\ MaxWrapped \in Nat

VARIABLES
  hour,      \* the clock
  changes,   \* how often the screen has changed
  turn,      \* the context in the game
  shots,     \* saved images
  epoch,     \* evidence_continuity
  epochs,    \* ids given to epochs
  wrapped,   \* packaged requests
  doing,     \* the pending input
  ready,     \* the player is armed
  latest,    \* the time of the newest evidence in the memory
  told,      \* changes a bound image must show: before arming, or reported
  own        \* changes up to the newest input

evidenceVars == <<hour, changes, turn, shots, epoch, epochs, wrapped, doing, ready, latest, told, own>>

Pausing == doing.status = "none"

\* check_binding of the request's binding against an epoch.
BindingHolds(binding, current, context, shot) ==
  /\ current # NoEpoch /\ current.active
  /\ binding = current
  /\ current.context \in {NoEpoch, context}
  /\ shot.at >= current.since
  /\ current.seq > 0 => shot.at # current.since

Young(shot) == hour - shot.at <= MAX_AGE

\* _evidence_age and the age check of _source.
Usable(r) ==
  IF r.binding = NoEpoch THEN Young(r.shot) ELSE BindingHolds(r.binding, epoch, r.turn, r.shot)

\* Faulty variant: an image from before the change can be bound again.
Renewed(e) == [e EXCEPT !.id = epochs + 1, !.seq = @ + 1]

\* invalidate_evidence.
MovedOn(e) == [e EXCEPT !.id = epochs + 1, !.seq = @ + 1, !.since = hour]

InitEvidence ==
  /\ hour = 0 /\ changes = 0 /\ turn \in Turns /\ shots = {}
  /\ epoch = NoEpoch /\ epochs = 0 /\ wrapped = {}
  /\ doing = [status |-> "none", request |-> NoEpoch, at |-> 0] /\ ready = FALSE
  /\ latest = 0 /\ told = 0 /\ own = 0

Capture ==
  /\ hour < MaxHour /\ hour' = hour + 1
  /\ shots' = shots \cup {[at |-> hour', shows |-> changes, turn |-> turn]}
  /\ UNCHANGED <<changes, turn, epoch, epochs, wrapped, doing, ready, latest, told, own>>

\* Somebody plays by hand.
OtherHand ==
  /\ changes < MaxChanges /\ changes' = changes + 1
  /\ UNCHANGED <<hour, turn, shots, epoch, epochs, wrapped, doing, ready, latest, told, own>>

\* Package a request: without a session, or bound to the epoch in the session's
\* file, which is refused while an input is pending.
Wrap(shot, bound) ==
  /\ Cardinality(wrapped) < MaxWrapped
  /\ IF bound THEN Pausing /\ BindingHolds(epoch, epoch, shot.turn, shot) ELSE Young(shot)
  /\ wrapped' = wrapped \cup {[shot |-> shot, turn |-> shot.turn, binding |-> IF bound THEN epoch ELSE NoEpoch]}
  /\ UNCHANGED <<hour, changes, turn, shots, epoch, epochs, doing, ready, latest, told, own>>

\* arm: the epoch begins with the image that identified the game.
ArmFrom(shot) ==
  /\ ~ready /\ Pausing /\ Young(shot) /\ epochs < MaxEpochs
  /\ ready' = TRUE /\ epochs' = epochs + 1
  /\ epoch' = [id |-> epochs', active |-> TRUE, context |-> NoEpoch, seq |-> 0, since |-> shot.at]
  /\ told' = shot.shows
  /\ UNCHANGED <<hour, changes, turn, shots, wrapped, doing, latest, own>>

\* The operator reports a change; the adapter is not in a call.
ReportChange ==
  /\ doing.status # "attempted" /\ epochs < MaxEpochs
  /\ epoch # NoEpoch /\ epoch.seq < MaxMoves
  /\ epoch' = MovedOn(epoch) /\ epochs' = epochs + 1
  /\ told' = changes
  /\ UNCHANGED <<hour, changes, turn, shots, wrapped, doing, ready, latest, own>>

Disarm ==
  /\ ready /\ doing.status # "attempted"
  /\ ready' = FALSE /\ epoch' = [epoch EXCEPT !.active = FALSE]
  /\ UNCHANGED <<hour, changes, turn, shots, epochs, wrapped, doing, latest, told, own>>

\* A new process inherits the pending input and no epoch.
Reopen ==
  /\ doing.status # "attempted" /\ epoch # NoEpoch
  /\ ready' = FALSE /\ epoch' = NoEpoch
  /\ UNCHANGED <<hour, changes, turn, shots, epochs, wrapped, doing, latest, told, own>>

PrepareFrom(r) ==
  /\ Pausing /\ Usable(r)
  /\ doing' = [doing EXCEPT !.status = "prepared", !.request = r]
  /\ UNCHANGED <<hour, changes, turn, shots, epoch, epochs, wrapped, ready, latest, told, own>>

CancelPrepared ==
  /\ doing.status = "prepared"
  /\ doing' = [doing EXCEPT !.status = "none", !.request = NoEpoch]
  /\ UNCHANGED <<hour, changes, turn, shots, epoch, epochs, wrapped, ready, latest, told, own>>

\* send, up to the call of the controller: everything is checked again, and the
\* memory refuses another turn than its own and an image older than its evidence.
Dispatch ==
  /\ ready /\ doing.status = "prepared" /\ epoch.seq < MaxMoves
  /\ Usable(doing.request)
  /\ doing.request.turn = turn /\ doing.request.shot.at >= latest
  /\ latest' = doing.request.shot.at
  /\ doing' = [doing EXCEPT !.status = "attempted", !.at = hour]
  /\ epoch' = IF epoch = NoEpoch THEN NoEpoch
              ELSE [epoch EXCEPT !.seq = @ + 1, !.since = hour, !.context = doing.request.turn]
  /\ UNCHANGED <<hour, changes, turn, shots, epochs, wrapped, ready, told, own>>

\* The call returns: the input had an effect, a turn may have ended, or it had none.
CallReturns(effect, next) ==
  /\ doing.status = "attempted"
  /\ effect => changes < MaxChanges
  /\ ~effect => next = turn
  /\ doing' = [doing EXCEPT !.status = "answered"]
  /\ changes' = IF effect THEN changes + 1 ELSE changes
  /\ own' = IF effect THEN changes' ELSE own
  /\ turn' = next
  /\ UNCHANGED <<hour, shots, epoch, epochs, wrapped, ready, latest, told>>

\* recover_unsent, when the call was not even begun.
Withdraw ==
  /\ doing.status = "attempted"
  /\ doing' = [doing EXCEPT !.status = "none", !.request = NoEpoch]
  /\ UNCHANGED <<hour, changes, turn, shots, epoch, epochs, wrapped, ready, latest, told, own>>

\* verify and finalize.
SettleWith(shot) ==
  /\ doing.status = "answered"
  /\ shot.at > doing.at /\ shot.shows >= own /\ shot.turn = turn
  /\ shot.at >= latest
  /\ latest' = shot.at
  /\ epoch' = IF epoch = NoEpoch THEN NoEpoch ELSE [epoch EXCEPT !.context = turn]
  /\ doing' = [doing EXCEPT !.status = "none", !.request = NoEpoch]
  /\ UNCHANGED <<hour, changes, turn, shots, epochs, wrapped, ready, told, own>>

NextEvidence ==
  \/ Capture \/ OtherHand
  \/ \E shot \in shots, bound \in BOOLEAN : Wrap(shot, bound)
  \/ \E shot \in shots : ArmFrom(shot)
  \/ ReportChange \/ Disarm \/ Reopen
  \/ \E r \in wrapped : PrepareFrom(r)
  \/ CancelPrepared \/ Dispatch
  \/ \E effect \in BOOLEAN, next \in Turns : CallReturns(effect, next)
  \/ Withdraw
  \/ \E shot \in shots : SettleWith(shot)

SpecEvidence == InitEvidence /\ [][NextEvidence]_evidenceVars

-------------------------------------------------------------------------------

\* The image of an input shows every input before it.  If it is bound it also
\* shows every change that was reported, and what was there when the player was
\* armed, however old it is.
RestsOnTrueImage ==
  doing.status = "prepared" /\ doing'.status = "attempted" =>
    /\ doing.request.shot.shows >= own
    /\ doing.request.binding # NoEpoch => doing.request.shot.shows >= told

\* While the player is armed and nothing is pending, a new image of the game can
\* be bound: the epoch never waits for a turn that is over.
NewImageBinds ==
  ready /\ Pausing =>
    BindingHolds(epoch, epoch, turn, [at |-> hour + 1, shows |-> changes, turn |-> turn])

\* Old images are used only as long as they are true, and new ones can be used.
EvidenceHolds == [][RestsOnTrueImage /\ NewImageBinds']_evidenceVars

===============================================================================
