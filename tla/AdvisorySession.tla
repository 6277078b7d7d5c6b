--------------------------- MODULE AdvisorySession ----------------------------
(***************************************************************************)
(* The advisory session of veda/advisory_session.py: a process that keeps  *)
(* an EvidenceLedger, one pending recommendation and the receipts of its   *)
(* requests in memory and in session.json, and a player who gives the      *)
(* input.  Images are captured at any time, stamped with the epoch and     *)
(* context the session shows then, and offered late, twice or never; a     *)
(* save may fail on either side of the rename, and the process may be      *)
(* killed and resumed.  Readers are honest; inputs nobody asked for happen.*)
(***************************************************************************)
EXTENDS EvidenceLedger, Sequences

CONSTANTS
  MaxRequests,  \* MAX_REQUESTS: requests with an id that a session takes
  MaxInputs,    \* bound on inputs given to the game
  MaxImages,    \* bound on captured images
  MaxTurns,     \* bound on turns
  MaxFaults     \* bound on failed saves, failed copies and kills

VARIABLES
  up,        \* whether a process has the directory
  poisoned,  \* its poisoned flag
  mem,       \* what it keeps: ledger, pending, last_action, receipts, sources
  needs,     \* needs_reconciliation
  disk,      \* session.json
  files,     \* the retained copy of an image
  asked,     \* the id the client uses next; it repeats one until it is answered
  album,     \* images captured so far
  game,      \* inputs given, the state of things owned, the turn
  held,      \* a recommendation the player has been given and not yet followed
  owed,      \* inputs the session was not told of: the "advised" one, "other" ones
  unseen,    \* advised inputs whose outcome was neither reviewed nor given up
  faults

session == <<up, poisoned, mem, needs, disk, files>>
player == <<album, game, held, owed, unseen>>
vars == <<session, asked, player, faults>>

Context(turn) == [run |-> 1, turn |-> turn]
Ids == 1..MaxRequests
Images == 1..MaxImages
Kinds == {"card", "potion", "end_turn"}
FrameOf(i) == [id |-> i, at |-> i]

TurnContexts == {Context(turn) : turn \in 1..MaxTurns}
ImageFrames == {FrameOf(i) : i \in Images}
Recommendations ==
  [id : Ids, kind : Kinds, context : TurnContexts, epoch : Nat, frame : ImageFrames]
Outcomes ==
  [id : Ids, kind : Kinds, frame : ImageFrames, context : TurnContexts, verified : BOOLEAN,
   after : Images \cup {None}, status : {"user_reported", "skipped"}]
Unlogged == [status |-> "unknown_input"]

\* None is none of the values it stands beside.
ASSUME SessionAssumption ==
  /\ {MaxRequests, MaxInputs, MaxImages, MaxFaults} \subseteq Nat
  /\ MaxTurns \in Nat \ {0}
  /\ None \notin Nat /\ None \notin ImageFrames
  /\ None \notin Recommendations /\ None \notin Outcomes /\ None # Unlogged

\* done counts for each id how often its request took effect.
Fresh ==
  [ledger |-> NewLedger(Context(1)), pending |-> None, last |-> None,
   receipts |-> {}, sources |-> {}, done |-> [i \in Ids |-> 0]]

Init ==
  /\ up = TRUE /\ poisoned = FALSE /\ needs = FALSE
  /\ mem = Fresh /\ disk = Fresh
  /\ files = [i \in Images |-> "none"]
  /\ asked = 1
  /\ album = <<>>
  /\ game = [inputs |-> 0, owned |-> 0, turn |-> 1]
  /\ held = None /\ owed = {} /\ unseen = {}
  /\ faults = 0

-------------------------------------------------------------------------------
(* handle *)

\* A request is performed unless its id has a receipt or nothing but
\* reconciliation is allowed.
Serves(reconciling) ==
  /\ up /\ ~poisoned
  /\ asked \in Ids \ mem.receipts
  /\ needs => reconciling

Received(m) == [m EXCEPT !.receipts = @ \cup {asked}, !.done[asked] = @ + 1]

\* Faulty variant: the pending recommendation is kept in memory only.
SavedWithoutPending(m) == disk' = [m EXCEPT !.pending = None]

Saved(m) == disk' = m

\* The new state is saved and answered, ...
Answered(m, reconciling) ==
  /\ mem' = m /\ Saved(m)
  /\ needs' = (needs /\ ~reconciling)
  /\ asked' = asked + 1
  /\ UNCHANGED <<up, poisoned, faults>>

\* ... or the save fails, before or after the rename: memory is rolled back and
\* the session takes no further request.  Nobody learns the answer.
SaveFails(m) ==
  /\ faults < MaxFaults /\ faults' = faults + 1
  /\ disk' \in {disk, m}
  /\ poisoned' = TRUE /\ needs' = TRUE
  /\ UNCHANGED <<up, mem, asked>>

\* A repeated request is answered from its receipt and has no effect.
Repeated ==
  /\ up /\ ~poisoned /\ asked \in mem.receipts
  /\ asked' = asked + 1
  /\ UNCHANGED <<session, player, faults>>

-------------------------------------------------------------------------------
(* observe, inventory *)

\* _ingest: the image is copied once, and the copy compared with its hash.
Ingested(i) ==
  /\ files[i] \in {"none", "whole"}
  /\ files' = [files EXCEPT ![i] = "whole"]

\* A copy that breaks off leaves its part behind, and the request is refused.
IngestFails(i) ==
  /\ Serves(FALSE) /\ mem.pending = None
  /\ i <= Len(album) /\ files[i] = "none"
  /\ faults < MaxFaults /\ faults' = faults + 1
  /\ files' = [files EXCEPT ![i] = "partial"]
  /\ UNCHANGED <<up, poisoned, mem, needs, disk, asked, player>>

\* The packet of image i; who asserts continuity has seen that nothing changed.
Packet(i, full, carry) ==
  [context |-> album[i].context, epoch |-> album[i].epoch, frame |-> FrameOf(i),
   continuity |-> IF carry THEN mem.ledger.frame.id ELSE None,
   sections |-> [n \in {"hand"} |-> Offer(IF full THEN <<album[i].inputs>> ELSE <<>>, full)]]

\* An outcome review needs a reported action, a later frame, and a turn that
\* changed only if, and if it succeeded also because, the turn was ended.
Reviewable(m, i, matches) ==
  /\ m.last # None /\ m.last.status = "user_reported" /\ ~m.last.verified
  /\ i > m.last.frame.id
  /\ LET changed == album[i].context # m.last.context IN
     /\ changed => m.last.kind = "end_turn"
     /\ m.last.kind = "end_turn" /\ matches => changed

Observed(m, p) == [m EXCEPT !.ledger = Observe(@, p), !.sources = @ \cup {p.frame.id}]

Reviewed(m, i, matches) ==
  [m EXCEPT !.last.verified = TRUE, !.last.after = i,
            !.ledger = IF matches THEN @ ELSE Invalidate(@, "unknown_input")]

ObserveRequest(i, full, carry) ==
  /\ Serves(FALSE) /\ mem.pending = None
  /\ i <= Len(album)
  /\ carry => mem.ledger.frame # None /\ album[mem.ledger.frame.id].inputs = album[i].inputs
  /\ MayObserve(mem.ledger, Packet(i, full, carry))
  /\ Ingested(i)
  /\ LET new == Received(Observed(mem, Packet(i, full, carry))) IN
     \/ /\ Answered(new, FALSE)
        /\ UNCHANGED <<album, game, held, owed, unseen>>
     \/ /\ SaveFails(new)
        /\ UNCHANGED <<album, game, held, owed, unseen>>
     \/ \E matches \in BOOLEAN :
          /\ Reviewable(mem, i, matches)
          /\ \/ Answered(Reviewed(new, i, matches), FALSE) /\ unseen' = {}
             \/ SaveFails(Reviewed(new, i, matches)) /\ UNCHANGED unseen
          /\ UNCHANGED <<album, game, held, owed>>

\* The receipt shows what is owned in the present frame.
InventoryRequest(kind) ==
  LET l == mem.ledger
      r == [context |-> l.context, epoch |-> l.epoch, frame |-> l.frame, kind |-> kind,
            items |-> {album[l.frame.id].owned}, complete |-> TRUE, prior |-> Stock(l).data]
  IN
  /\ Serves(FALSE) /\ mem.pending = None
  /\ l.frame # None
  /\ MayRecord(l, r)
  /\ Ingested(l.frame.id)
  /\ LET new == Received([mem EXCEPT !.ledger = RecordInventory(l, r)]) IN
     Answered(new, FALSE) \/ SaveFails(new)
  /\ UNCHANGED player

-------------------------------------------------------------------------------
(* advise, action_reported, unlogged_input, change_context *)

\* The current hand and inventory must be complete, and their images present.
Ready(l) == l.frame # None /\ Complete(l.sections["hand"]) /\ Complete(Stock(l))

Advisable(m) ==
  /\ m.pending = None
  /\ ~(m.last # None /\ m.last.status = "user_reported" /\ ~m.last.verified)

Pending(l, kind) ==
  [id |-> asked, kind |-> kind, context |-> l.context, epoch |-> l.epoch, frame |-> l.frame]

\* One checked action is recommended, or none: the image may have grown old and
\* the checks may refuse the plan.
AdviseRequest(kind, allowed) ==
  LET new == Received(IF allowed THEN [mem EXCEPT !.pending = Pending(mem.ledger, kind)] ELSE mem) IN
  /\ Serves(FALSE) /\ Advisable(mem)
  /\ allowed => Ready(mem.ledger)
  /\ \/ Answered(new, FALSE) /\ held' = new.pending
     \/ SaveFails(new) /\ UNCHANGED held
  /\ UNCHANGED <<files, album, game, owed, unseen>>

InvalidationBy(kind) == IF kind = "potion" THEN "inventory_change" ELSE "input"

Reported(m, performed) ==
  [m EXCEPT !.pending = None,
            !.last = [id |-> m.pending.id, kind |-> m.pending.kind, frame |-> m.pending.frame,
                      context |-> m.pending.context, verified |-> FALSE, after |-> None,
                      status |-> IF performed THEN "user_reported" ELSE "skipped"],
            !.ledger = IF performed THEN Invalidate(@, InvalidationBy(m.pending.kind)) ELSE @]

\* The player says whether the pending action was performed.
ReportRequest ==
  LET performed == "advised" \in owed
      new == Received(Reported(mem, performed)) IN
  /\ Serves(FALSE) /\ mem.pending # None
  /\ \/ Answered(new, FALSE) /\ held' = None /\ owed' = owed \ {"advised"}
     \/ SaveFails(new) /\ UNCHANGED <<held, owed>>
  /\ UNCHANGED <<files, album, game, unseen>>

Reconciled(m) ==
  [m EXCEPT !.ledger = Invalidate(@, "unknown_input"), !.pending = None,
            !.last = Unlogged]

\* Everything known is given up, the pending recommendation too.
UnloggedRequest ==
  LET new == Received(Reconciled(mem)) IN
  /\ Serves(TRUE)
  /\ \/ Answered(new, TRUE) /\ held' = None /\ owed' = {} /\ unseen' = {}
     \/ SaveFails(new) /\ UNCHANGED <<held, owed, unseen>>
  /\ UNCHANGED <<files, album, game>>

\* Faulty variant: the context may change under a pending recommendation.
MayMoveAnytime(m) == TRUE

MayMove(m) == m.pending = None

ContextRequest ==
  LET c == Context(game.turn)
      new == Received([mem EXCEPT !.ledger = ChangeContext(@, c)]) IN
  /\ Serves(FALSE) /\ MayMove(mem)
  /\ c # mem.ledger.context
  /\ Answered(new, FALSE) \/ SaveFails(new)
  /\ UNCHANGED <<files, player>>

-------------------------------------------------------------------------------
(* Restart *)

\* What resume asks of the file.
Resumable(d) ==
  /\ \A i \in d.sources : files[i] = "whole"
  /\ d.pending # None => /\ d.pending.epoch = d.ledger.epoch
                         /\ d.pending.context = d.ledger.context
                         /\ d.pending.frame = d.ledger.frame

\* The process is closed or killed between two requests; a kill inside one is
\* a failed save and then this.
Stop ==
  /\ up /\ up' = FALSE
  /\ ~poisoned => faults < MaxFaults
  /\ faults' = IF poisoned THEN faults ELSE faults + 1
  /\ UNCHANGED <<poisoned, mem, needs, disk, files, asked, player>>

\* Faulty variant: the facts of the last process are current in the next.
ResumeCurrent ==
  /\ ~up /\ Resumable(disk)
  /\ up' = TRUE /\ poisoned' = FALSE /\ needs' = FALSE
  /\ mem' = disk
  /\ UNCHANGED <<disk, files, asked, player, faults>>

Resume ==
  /\ ~up /\ Resumable(disk)
  /\ up' = TRUE /\ poisoned' = FALSE /\ needs' = TRUE
  /\ mem' = disk
  /\ UNCHANGED <<disk, files, asked, player, faults>>

-------------------------------------------------------------------------------
(* The player *)

\* An image is captured; its epoch and context are those the session shows.
Capture ==
  /\ up /\ ~poisoned /\ Len(album) < MaxImages
  /\ album' = Append(album, [inputs |-> game.inputs, owned |-> game.owned,
                             epoch |-> mem.ledger.epoch, context |-> mem.ledger.context])
  /\ UNCHANGED <<session, asked, game, held, owed, unseen, faults>>

Input(kind) ==
  /\ game.inputs < MaxInputs
  /\ kind = "end_turn" => game.turn < MaxTurns
  /\ game' = [inputs |-> game.inputs + 1,
              owned |-> IF kind = "potion" THEN game.inputs + 1 ELSE game.owned,
              turn |-> IF kind = "end_turn" THEN game.turn + 1 ELSE game.turn]

\* The recommendation is followed, ...
Follow ==
  /\ held # None /\ Input(held.kind)
  /\ held' = None /\ owed' = owed \cup {"advised"} /\ unseen' = unseen \cup {game.inputs + 1}
  /\ UNCHANGED <<session, asked, album, faults>>

\* ... or something else is done.
Stray ==
  /\ \E kind \in Kinds : Input(kind)
  /\ owed' = owed \cup {"other"}
  /\ UNCHANGED <<session, asked, album, held, unseen, faults>>

Request ==
  \/ Repeated
  \/ \E i \in Images, full, carry \in BOOLEAN : ObserveRequest(i, full, carry)
  \/ \E kind \in {"baseline", "verified_transition"} : InventoryRequest(kind)
  \/ \E kind \in Kinds, allowed \in BOOLEAN : AdviseRequest(kind, allowed)
  \/ ReportRequest \/ UnloggedRequest \/ ContextRequest

Next ==
  \/ Request \/ (\E i \in Images : IngestFails(i)) \/ Stop \/ Resume
  \/ Capture \/ Follow \/ Stray

Spec == Init /\ [][Next]_vars

-------------------------------------------------------------------------------
(* Properties *)

FileTypeOK(m) ==
  /\ m.receipts \subseteq Ids /\ m.sources \subseteq Images
  /\ m.done \in [Ids -> Nat]
  /\ m.pending \in Recommendations \cup {None} /\ m.last \in Outcomes \cup {Unlogged, None}
  /\ m.ledger.context \in TurnContexts /\ m.ledger.epoch \in Nat
  /\ m.ledger.frame \in ImageFrames \cup {None}

\* Every variable has its type.
TypeOK ==
  /\ {up, poisoned, needs} \subseteq BOOLEAN
  /\ FileTypeOK(mem) /\ FileTypeOK(disk)
  /\ files \in [Images -> {"none", "partial", "whole"}]
  /\ asked \in 1..(MaxRequests + 1)
  /\ album \in Seq([inputs : Nat, owned : Nat, epoch : Nat, context : TurnContexts])
  /\ Len(album) <= MaxImages /\ faults \in 0..MaxFaults
  /\ game \in [inputs : 0..MaxInputs, owned : 0..MaxInputs, turn : 1..MaxTurns]
  /\ held \in Recommendations \cup {None}
  /\ owed \subseteq {"advised", "other"} /\ unseen \subseteq 1..MaxInputs

Trusted == up /\ ~poisoned /\ ~needs

\* When the session has been told of every input, the facts it shows as current
\* are those of the present state of the game, however late images were offered
\* and whatever was killed or lost before.
CurrentFactsAreTrue ==
  Trusted /\ owed = {} =>
    /\ Current(mem.ledger.sections["hand"]) =>
         \A k \in DOMAIN mem.ledger.sections["hand"].data : mem.ledger.sections["hand"].data[k] = game.inputs
    /\ Current(Stock(mem.ledger)) => Stock(mem.ledger).data = {game.owned}

\* The session can always be resumed from its file: the pending recommendation
\* is bound to the epoch, context and frame of the ledger, and every image that
\* the file names is retained whole.
AlwaysResumable == Resumable(disk)

\* Each id takes effect at most once, also when it is repeated after a failed
\* save or a kill, and what was answered is in the file.
ReceiptsAreExact ==
  /\ \A m \in {mem, disk}, i \in Ids : m.done[i] = IF i \in m.receipts THEN 1 ELSE 0
  /\ 1..(asked - 1) \subseteq disk.receipts

\* Nothing is recommended while the outcome of a recommendation that was
\* followed has been neither reviewed nor given up by an unlogged_input.
AdviceAfterOutcome ==
  Trusted /\ mem.pending # None /\ held # None => unseen = {}

\* A recommendation in the player's hands is on file as pending, or the report
\* or reconciliation that ended it is, so that it is never forgotten.
AdviceOnRecord ==
  held # None =>
    \/ disk.pending = held
    \/ disk.last # None /\ (disk.last.status = "unknown_input" \/ disk.last.id = held.id)

\* The image of a reviewed outcome shows the game after the action, not before.
OutcomeSeen ==
  \A m \in {mem, disk} :
    m.last # None /\ m.last.status = "user_reported" /\ m.last.verified =>
      album[m.last.after].inputs > album[m.last.frame.id].inputs

\* Advice is given after the last one was reviewed, is never forgotten, and is
\* reviewed on an image that shows its outcome.
AdviceIsSound == TypeOK /\ ReceiptsAreExact /\ AdviceAfterOutcome /\ AdviceOnRecord /\ OutcomeSeen

===============================================================================
