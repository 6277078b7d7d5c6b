--------------------------- MODULE RunLedger_proofs ----------------------------
(***************************************************************************)
(* Proofs about the memory's two parts: RunLedger, for any number of       *)
(* processes, commands, operation ids and rows and any lists of            *)
(* transitions, and MemoryReplay, for any items, copies, changes, decks,   *)
(* movements and rows.                                                     *)
(***************************************************************************)
EXTENDS RunLedger, MemoryReplay, Integers, FiniteSetTheorems, TLAPS

(* The types of the tables, of requests and of commands *)

Places == [floor : Nat, combat : Nat, turn : Nat]
RunStatuses == {"active", "abandoned"}
Statuses == {"recommended", "resolved", "skipped"}
Floors == [at : Nat, ends : Nat]
Combats == [floor : Nat, at : Nat, open : BOOLEAN]
Turns == [combat : Nat, number : Nat, at : Nat, open : BOOLEAN]
Points == [kind : {"pause", "resume"}, at : Nat, context : Places]
Revisions ==
  RunStatuses \X Seq(Floors) \X Seq(Combats) \X Seq(Turns) \X Seq(Statuses \X Nat) \X Nat
Decisions ==
  [by : {"play", "command"}, status : Statuses, edits : Nat, context : Places,
   at : Nat, revision : Revisions \cup {<<>>}, points : Nat, born : Nat]
Facts ==
  [kind : {"evidence", "stock", "outcome", "resume"}, by : {"play", "command", "checkpoint"},
   at : Nat, dec : Nat]
Tables ==
  [status : RunStatuses, floors : Seq(Floors), combats : Seq(Combats), turns : Seq(Turns),
   points : Seq(Points), decs : Seq(Decisions), rows : Seq(Facts)]

AllRequests ==
  [kind : {"decision", "resume"}, context : Places, at : Nat]
    \cup [kind : {"outcome"}, dec : Nat, at : Nat, status : {"verified", "not_performed", "unknown"},
          stock : BOOLEAN, moves : Seq(Moves)]
    \cup [kind : {"pause"}, context : Places, at : Nat, stock : BOOLEAN]
Commands ==
  {"floor-start", "floor-finish", "floor-evidence", "combat-start", "combat-finish", "turn-start",
   "turn-finish", "decision", "recommend", "resolve", "pause", "resume", "inventory", "run-new"}
Begun == [op : Ops, request : AllRequests]
Given == [at : Nat, command : Commands, row : Nat, n : Nat, context : Places]

LedgerTyped ==
  /\ now \in Times /\ db \in Tables /\ lock \in Procs \cup {None} /\ used \subseteq Ops
  /\ job \in [Procs -> {None} \cup Begun \cup Given]
  /\ commands \in Nat /\ touched \subseteq DOMAIN db.decs

-------------------------------------------------------------------------------
(* The invariant *)

\* A combat is of a floor, a turn of a combat, an outcome's row of a decision.
\* The turns of a combat have numbers of their own, and no floor is of the future.
Connected(d, upto) ==
  /\ \A f \in DOMAIN d.floors : d.floors[f].at <= upto
  /\ \A c \in DOMAIN d.combats : d.combats[c].floor \in DOMAIN d.floors
  /\ \A t \in DOMAIN d.turns : d.turns[t].combat \in DOMAIN d.combats
  /\ \A t, u \in DOMAIN d.turns :
       d.turns[t].combat = d.turns[u].combat /\ d.turns[t].number = d.turns[u].number => t = u
  /\ \A k \in DOMAIN d.rows : d.rows[k].dec \in {0} \cup DOMAIN d.decs

\* The order of facts, and the belongings of one outcome.
InOrder(d) ==
  \A i, k \in DOMAIN d.rows :
    /\ i < k
    /\ d.rows[k].by = "play" \/ (d.rows[k].by = "checkpoint" /\ d.rows[i].kind = "stock")
    => d.rows[i].at <= d.rows[k].at
StockOf(d, i) == {k \in DOMAIN d.rows : d.rows[k].kind = "stock" /\ d.rows[k].dec = i}
StockOnce(d) ==
  \A i \in DOMAIN d.decs : StockOf(d, i) # {} => Cardinality(StockOf(d, i)) = 1 /\ i \notin Pending(d)

\* Decisions of the player that wait for an outcome.
Waiting(d) == {i \in Pending(d) : d.decs[i].by = "play"}

\* What was rewritten is never written back: revision a is that of b, or of an
\* earlier state of the tables.
Upto(a, b) ==
  /\ a[1] = "abandoned" => b[1] = "abandoned"
  /\ Len(a[2]) <= Len(b[2])
  /\ \A f \in DOMAIN a[2] : a[2][f].at = b[2][f].at /\ a[2][f].ends <= b[2][f].ends
  /\ Len(a[3]) <= Len(b[3])
  /\ \A c \in DOMAIN a[3] :
       /\ a[3][c].floor = b[3][c].floor /\ a[3][c].at = b[3][c].at
       /\ b[3][c].open => a[3][c].open
  /\ Len(a[4]) <= Len(b[4])
  /\ \A t \in DOMAIN a[4] :
       /\ a[4][t].combat = b[4][t].combat /\ a[4][t].number = b[4][t].number /\ a[4][t].at = b[4][t].at
       /\ b[4][t].open => a[4][t].open
  /\ Len(a[5]) <= Len(b[5])
  /\ \A i \in DOMAIN a[5] : a[5][i] = b[5][i] \/ a[5][i][2] < b[5][i][2]
  /\ a[6] <= b[6]

\* One decision of the player waits at most.  It remembers a revision of before,
\* which is not the present one once a command wrote (it is in T); and since it
\* was made, up to what it remembers of them, all checkpoints are pauses.
Known(d, T) ==
  /\ \A i, k \in Waiting(d) : i = k
  /\ \A i \in Waiting(d) :
       LET dec == d.decs[i] IN
       /\ dec.revision \in Revisions /\ Upto(dec.revision, Revision(d))
       /\ i \in T => dec.revision # Revision(d)
       /\ dec.born <= dec.points /\ dec.points <= Len(d.points)
       /\ \A k \in dec.born + 1 .. dec.points : d.points[k].kind = "pause"

\* A request that was accepted stays so until its transaction is over.
Holds(r) ==
  /\ r.kind = "decision" => MayPrepare(r)
  /\ r.kind = "outcome" =>
       /\ r.dec \in Waiting(db) /\ Unchanged(r)
       /\ Current(db, db.decs[r.dec].context, r.at)
       /\ Chronological(db, r.at)
       /\ r.stock \/ r.moves # <<>> => r.status = "verified"
  /\ r.kind = "resume" => MayResume(r)
  /\ r.kind = "pause" => MayPause(r)
Locked == \A p \in Procs : job[p] \in Begun /\ job[p] # None => lock = p /\ Holds(job[p].request)

\* What a command has found stays there.
Finds(j) ==
  /\ j.at <= now
  /\ j.command \in {"floor-finish", "combat-start", "decision", "recommend"} => j.row \in DOMAIN db.floors
  /\ j.command \in {"combat-finish", "turn-start"} => j.row \in DOMAIN db.combats
  /\ j.command = "turn-finish" => j.row \in DOMAIN db.turns
  /\ j.command = "resolve" => j.row \in DOMAIN db.decs
FoundStays == \A p \in Procs : job[p] \in Given /\ job[p] # None => Finds(job[p])

LedgerInv ==
  /\ LedgerTyped /\ Connected(db, now) /\ InOrder(db) /\ StockOnce(db)
  /\ Known(db, touched) /\ Locked /\ FoundStays

-------------------------------------------------------------------------------
(* Sequences, and greatest and least elements *)

\* What is appended comes last.
LEMMA Appended ==
  ASSUME NEW S, NEW s \in Seq(S), NEW e \in S
  PROVE  LET t == Append(s, e) IN
         /\ t \in Seq(S) /\ Len(s) \in Nat /\ Len(t) = Len(s) + 1
         /\ DOMAIN s = 1..Len(s) /\ DOMAIN t = 1..(Len(s) + 1)
         /\ \A i \in 1..Len(s) : t[i] = s[i]
         /\ t[Len(s) + 1] = e
  OBVIOUS

\* An element is replaced.
LEMMA Exchanged ==
  ASSUME NEW S, NEW s \in Seq(S), NEW i \in DOMAIN s, NEW e \in S
  PROVE  LET t == [s EXCEPT ![i] = e] IN
         /\ t \in Seq(S) /\ Len(s) \in Nat /\ Len(t) = Len(s)
         /\ DOMAIN s = 1..Len(s) /\ DOMAIN t = DOMAIN s
         /\ t[i] = e
         /\ \A j \in DOMAIN s : j # i => t[j] = s[j]
  OBVIOUS

\* Where sets that shrink as f grows are finite, one of them is the smallest.
LEMMA Greatest ==
  ASSUME NEW n \in Nat, NEW S \in SUBSET (1..n), S # {}, NEW f, \A i \in S : f[i] \in Nat
  PROVE  \E t \in S : \A u \in S : f[u] <= f[t]
<1> DEFINE above(t) == {u \in S : f[u] > f[t]}
           all == {above(t) : t \in S}
<1>1. all \subseteq FiniteSubsetsOf(1..n)
  <2> SUFFICES ASSUME NEW t \in S
               PROVE  above(t) \in FiniteSubsetsOf(1..n)
    OBVIOUS
  <2>1. above(t) \in SUBSET (1..n)
    OBVIOUS
  <2>3. IsFiniteSet(1..n)
    BY FS_Interval
  <2>2. IsFiniteSet(above(t))
    BY <2>1, <2>3, FS_Subset
  <2> QED
    BY <2>1, <2>2 DEF FiniteSubsetsOf
<1>2. PICK s \in all : \A r \in all : <<r, s>> \notin StrictSubsetOrdering(1..n)
  <2>1. all # {}
    OBVIOUS
  <2>2. IsWellFoundedOn(StrictSubsetOrdering(1..n), FiniteSubsetsOf(1..n))
    BY FS_StrictSubsetOrderingWellFounded
  <2> HIDE DEF all
  <2> QED
    BY <1>1, <2>1, <2>2, WFMin
<1>3. PICK t \in S : s = above(t)
  BY <1>2
<1>4. ASSUME NEW u \in S, ~(f[u] <= f[t])
      PROVE  FALSE
  <2>1. f[u] \in Nat /\ f[t] \in Nat /\ f[t] < f[u]
    BY <1>4
  <2>5. ASSUME NEW v \in above(u) PROVE v \in above(t)
    <3>1. v \in S /\ f[v] \in Nat /\ f[v] > f[u]
      OBVIOUS
    <3> QED
      BY <2>1, <3>1
  <2>6. u \in above(t) /\ u \notin above(u)
    BY <2>1
  <2>2. above(u) \subseteq above(t) /\ u \in above(t) /\ u \notin above(u)
    BY <2>5, <2>6
  <2>3. above(u) \in SUBSET (1..n) /\ above(t) \in SUBSET (1..n)
    OBVIOUS
  <2>4. <<above(u), above(t)>> \in StrictSubsetOrdering(1..n)
    <3> HIDE DEF above
    <3> QED
      BY <2>2, <2>3 DEF StrictSubsetOrdering
  <2> QED
    BY <1>2, <1>3, <2>4
<1> QED
  BY <1>4

\* A set of naturals up to n has a least element.
LEMMA Least ==
  ASSUME NEW n \in Nat, NEW S \in SUBSET (0..n), S # {}
  PROVE  \E m \in S : \A y \in S : m <= y
<1> DEFINE T == {y + 1 : y \in S}
           f == [i \in 1..(n + 1) |-> n + 1 - i]
<1>1. T \in SUBSET (1..(n + 1)) /\ T # {} /\ n + 1 \in Nat
  <2>1. \A y \in S : y + 1 \in 1..(n + 1)
    OBVIOUS
  <2>2. PICK y \in S : TRUE
    OBVIOUS
  <2>3. y + 1 \in T
    OBVIOUS
  <2>4. T \subseteq 1..(n + 1)
    BY <2>1
  <2> HIDE DEF T
  <2> QED
    BY <2>3, <2>4
<1>2. \A i \in T : f[i] \in Nat
  <2> SUFFICES ASSUME NEW i \in T
               PROVE  f[i] \in Nat
    OBVIOUS
  <2>1. i \in 1..(n + 1)
    BY <1>1
  <2>2. f[i] = n + 1 - i
    BY <2>1
  <2> HIDE DEF f, T
  <2> QED
    BY <2>1, <2>2
<1>3. PICK t \in T : \A u \in T : f[u] <= f[t]
  <2> HIDE DEF T, f
  <2> QED
    BY <1>1, <1>2, Greatest
<1>4. PICK m \in S : t = m + 1
  OBVIOUS
<1>5. ASSUME NEW y \in S PROVE m <= y
  <2>1. y + 1 \in T /\ y + 1 \in 1..(n + 1) /\ t \in 1..(n + 1)
    BY <1>1
  <2>2. f[y + 1] <= f[t]
    BY <1>3, <2>1
  <2> QED
    BY <2>1, <2>2, <1>4
<1> QED
  BY <1>5

-------------------------------------------------------------------------------
(* What a write to one table keeps *)

Sound(d, upto) == d \in Tables /\ Connected(d, upto) /\ InOrder(d)

Grown(d, e) ==
  /\ Len(d.floors) <= Len(e.floors) /\ Len(d.combats) <= Len(e.combats)
  /\ Len(d.turns) <= Len(e.turns) /\ Len(d.decs) <= Len(e.decs)

\* For what waits for an outcome, tables e are d and what a command wrote: a
\* revision of d is not one of e, unless only a checkpoint was written.
Commanded(d, e) ==
  /\ Upto(Revision(d), Revision(e))
  /\ Revision(e) = Revision(d) => [e EXCEPT !.points = d.points] = d
  /\ Waiting(e) \subseteq Waiting(d)
  /\ \A i \in Waiting(e) :
       /\ e.decs[i].revision = d.decs[i].revision
       /\ e.decs[i].born = d.decs[i].born /\ e.decs[i].points = d.decs[i].points
  /\ Len(d.points) <= Len(e.points)
  /\ \A k \in DOMAIN d.points : e.points[k] = d.points[k]
  /\ StockOnce(d) => StockOnce(e)

\* The rows that the revision counts.
Counted(d) == {k \in DOMAIN d.rows : d.rows[k].kind \in {"stock", "evidence"}}

\* A sequence has as many positions as its length.
LEMMA Positions ==
  ASSUME NEW S, NEW s \in Seq(S)
  PROVE  Len(s) \in Nat /\ DOMAIN s = 1..Len(s) /\ \A i \in DOMAIN s : s[i] \in S
  OBVIOUS

\* Sequences of the same length are the same if their elements are.
LEMMA SameSequence ==
  ASSUME NEW S, NEW s \in Seq(S), NEW t \in Seq(S), DOMAIN s = DOMAIN t, \A i \in DOMAIN s : s[i] = t[i]
  PROVE  s = t
<1>1. s = [i \in DOMAIN s |-> s[i]] /\ t = [i \in DOMAIN t |-> t[i]]
  OBVIOUS
<1> QED
  BY <1>1

\* Naturals in order.
LEMMA Transitive == ASSUME NEW x \in Nat, NEW y \in Nat, NEW z \in Nat, x <= y, y <= z PROVE x <= z
  OBVIOUS

\* The rows counted are finitely many.
LEMMA CountedFinite ==
  ASSUME NEW d \in Tables
  PROVE  IsFiniteSet(Counted(d)) /\ Cardinality(Counted(d)) \in Nat
<1>1. d.rows \in Seq(Facts)
  BY DEF Tables
<1>2. Len(d.rows) \in Nat /\ DOMAIN d.rows = 1..Len(d.rows)
  BY <1>1, Positions
<1>3. IsFiniteSet(1..Len(d.rows))
  BY <1>2, FS_Interval
<1>4. Counted(d) \in SUBSET (1..Len(d.rows))
  BY <1>2 DEF Counted
<1> QED
  BY <1>3, <1>4, FS_Subset, FS_CardinalityType

\* The parts of a revision.
LEMMA RevisionParts ==
  ASSUME NEW d \in Tables
  PROVE  LET r == Revision(d) IN
         /\ r \in Revisions
         /\ r = <<d.status, d.floors, d.combats, d.turns, r[5], r[6]>>
         /\ r[1] = d.status /\ r[2] = d.floors /\ r[3] = d.combats /\ r[4] = d.turns
         /\ r[5] = [i \in DOMAIN d.decs |-> <<d.decs[i].status, d.decs[i].edits>>]
         /\ Len(r[5]) = Len(d.decs) /\ DOMAIN r[5] = DOMAIN d.decs
         /\ \A i \in DOMAIN d.decs : r[5][i] = <<d.decs[i].status, d.decs[i].edits>>
         /\ r[6] = Cardinality(Counted(d)) /\ r[6] \in Nat
<1> DEFINE r5 == [i \in DOMAIN d.decs |-> <<d.decs[i].status, d.decs[i].edits>>]
           r6 == Cardinality(Counted(d))
<1>1. /\ d.status \in RunStatuses /\ d.floors \in Seq(Floors) /\ d.combats \in Seq(Combats)
      /\ d.turns \in Seq(Turns) /\ d.decs \in Seq(Decisions)
  BY DEF Tables
<1>2. r6 \in Nat
  BY CountedFinite
<1>3. Len(d.decs) \in Nat /\ DOMAIN d.decs = 1..Len(d.decs) /\ \A i \in DOMAIN d.decs : d.decs[i] \in Decisions
  BY <1>1, Positions
<1>4. \A i \in DOMAIN d.decs : <<d.decs[i].status, d.decs[i].edits>> \in Statuses \X Nat
  BY <1>3 DEF Decisions
<1>5. r5 \in Seq(Statuses \X Nat) /\ Len(r5) = Len(d.decs) /\ DOMAIN r5 = DOMAIN d.decs
  BY <1>3, <1>4
<1>6. \A i \in DOMAIN d.decs : r5[i] = <<d.decs[i].status, d.decs[i].edits>>
  OBVIOUS
<1>7. Revision(d) = <<d.status, d.floors, d.combats, d.turns, r5, r6>>
  BY DEF Revision, Counted
<1>8. r5 = [i \in DOMAIN d.decs |-> <<d.decs[i].status, d.decs[i].edits>>] /\ r6 = Cardinality(Counted(d))
  OBVIOUS
<1> HIDE DEF r5, r6
<1>9. Revision(d) \in Revisions
  BY <1>1, <1>2, <1>5, <1>7 DEF Revisions
<1>10. /\ Revision(d)[1] = d.status /\ Revision(d)[2] = d.floors /\ Revision(d)[3] = d.combats
       /\ Revision(d)[4] = d.turns /\ Revision(d)[5] = r5 /\ Revision(d)[6] = r6
  BY <1>7
<1> QED
  BY <1>2, <1>5, <1>6, <1>7, <1>8, <1>9, <1>10

\* What a member of Revisions is made of.
LEMMA RevisionTyped ==
  ASSUME NEW a \in Revisions
  PROVE  /\ a = <<a[1], a[2], a[3], a[4], a[5], a[6]>>
         /\ a[1] \in RunStatuses /\ a[2] \in Seq(Floors) /\ a[3] \in Seq(Combats) /\ a[4] \in Seq(Turns)
         /\ a[5] \in Seq(Statuses \X Nat) /\ a[6] \in Nat
         /\ Len(a[2]) \in Nat /\ Len(a[3]) \in Nat /\ Len(a[4]) \in Nat /\ Len(a[5]) \in Nat
         /\ DOMAIN a[2] = 1..Len(a[2]) /\ DOMAIN a[3] = 1..Len(a[3])
         /\ DOMAIN a[4] = 1..Len(a[4]) /\ DOMAIN a[5] = 1..Len(a[5])
         /\ \A f \in DOMAIN a[2] : a[2][f].ends \in Nat
         /\ \A i \in DOMAIN a[5] : a[5][i][2] \in Nat
<1>1. /\ a = <<a[1], a[2], a[3], a[4], a[5], a[6]>>
      /\ a[1] \in RunStatuses /\ a[2] \in Seq(Floors) /\ a[3] \in Seq(Combats) /\ a[4] \in Seq(Turns)
      /\ a[5] \in Seq(Statuses \X Nat) /\ a[6] \in Nat
  BY DEF Revisions
<1>2. /\ Len(a[2]) \in Nat /\ Len(a[3]) \in Nat /\ Len(a[4]) \in Nat /\ Len(a[5]) \in Nat
      /\ DOMAIN a[2] = 1..Len(a[2]) /\ DOMAIN a[3] = 1..Len(a[3])
      /\ DOMAIN a[4] = 1..Len(a[4]) /\ DOMAIN a[5] = 1..Len(a[5])
  BY <1>1, Positions
<1>3. \A f \in DOMAIN a[2] : a[2][f].ends \in Nat
  <2>1. \A f \in DOMAIN a[2] : a[2][f] \in Floors
    BY <1>1, Positions
  <2> QED
    BY <2>1 DEF Floors
<1>4. \A i \in DOMAIN a[5] : a[5][i][2] \in Nat
  <2>1. \A i \in DOMAIN a[5] : a[5][i] \in Statuses \X Nat
    BY <1>1, Positions
  <2> QED
    BY <2>1
<1> QED
  BY <1>1, <1>2, <1>3, <1>4

\* A revision is up to itself, ...
LEMMA UptoItself == ASSUME NEW a \in Revisions PROVE Upto(a, a)
  BY RevisionTyped DEF Upto

\* ... and up to what follows those that follow it, ...
LEMMA UptoFurther ==
  ASSUME NEW a \in Revisions, NEW b \in Revisions, NEW c \in Revisions, Upto(a, b), Upto(b, c)
  PROVE  Upto(a, c)
<1>1. /\ Len(a[2]) \in Nat /\ Len(a[3]) \in Nat /\ Len(a[4]) \in Nat /\ Len(a[5]) \in Nat /\ a[6] \in Nat
      /\ DOMAIN a[2] = 1..Len(a[2]) /\ DOMAIN a[3] = 1..Len(a[3])
      /\ DOMAIN a[4] = 1..Len(a[4]) /\ DOMAIN a[5] = 1..Len(a[5])
      /\ \A f \in DOMAIN a[2] : a[2][f].ends \in Nat
      /\ \A i \in DOMAIN a[5] : a[5][i][2] \in Nat
  BY RevisionTyped
<1>2. /\ Len(b[2]) \in Nat /\ Len(b[3]) \in Nat /\ Len(b[4]) \in Nat /\ Len(b[5]) \in Nat /\ b[6] \in Nat
      /\ DOMAIN b[2] = 1..Len(b[2]) /\ DOMAIN b[3] = 1..Len(b[3])
      /\ DOMAIN b[4] = 1..Len(b[4]) /\ DOMAIN b[5] = 1..Len(b[5])
      /\ \A f \in DOMAIN b[2] : b[2][f].ends \in Nat
      /\ \A i \in DOMAIN b[5] : b[5][i][2] \in Nat
  BY RevisionTyped
<1>3. /\ Len(c[2]) \in Nat /\ Len(c[3]) \in Nat /\ Len(c[4]) \in Nat /\ Len(c[5]) \in Nat /\ c[6] \in Nat
      /\ DOMAIN c[2] = 1..Len(c[2]) /\ DOMAIN c[3] = 1..Len(c[3])
      /\ DOMAIN c[4] = 1..Len(c[4]) /\ DOMAIN c[5] = 1..Len(c[5])
      /\ \A f \in DOMAIN c[2] : c[2][f].ends \in Nat
      /\ \A i \in DOMAIN c[5] : c[5][i][2] \in Nat
  BY RevisionTyped
<1>4. /\ Len(a[2]) <= Len(b[2]) /\ Len(a[3]) <= Len(b[3])
      /\ Len(a[4]) <= Len(b[4]) /\ Len(a[5]) <= Len(b[5]) /\ a[6] <= b[6]
      /\ Len(b[2]) <= Len(c[2]) /\ Len(b[3]) <= Len(c[3])
      /\ Len(b[4]) <= Len(c[4]) /\ Len(b[5]) <= Len(c[5]) /\ b[6] <= c[6]
  BY DEF Upto
<1>5. a[1] = "abandoned" => c[1] = "abandoned"
  BY DEF Upto
<1>6. /\ Len(a[2]) <= Len(c[2]) /\ Len(a[3]) <= Len(c[3])
      /\ Len(a[4]) <= Len(c[4]) /\ Len(a[5]) <= Len(c[5]) /\ a[6] <= c[6]
  BY <1>1, <1>2, <1>3, <1>4, Transitive
<1>7. \A f \in DOMAIN a[2] : a[2][f].at = c[2][f].at /\ a[2][f].ends <= c[2][f].ends
  <2> SUFFICES ASSUME NEW f \in DOMAIN a[2]
               PROVE  a[2][f].at = c[2][f].at /\ a[2][f].ends <= c[2][f].ends
    OBVIOUS
  <2>1. f \in DOMAIN b[2] /\ a[2][f].at = b[2][f].at /\ a[2][f].ends <= b[2][f].ends
    BY <1>1, <1>2, <1>4 DEF Upto
  <2>2. f \in DOMAIN c[2] /\ b[2][f].at = c[2][f].at /\ b[2][f].ends <= c[2][f].ends
    BY <1>2, <1>3, <1>4, <2>1 DEF Upto
  <2>3. a[2][f].ends \in Nat /\ b[2][f].ends \in Nat /\ c[2][f].ends \in Nat
    BY <1>1, <1>2, <1>3, <2>1, <2>2
  <2> QED
    BY <2>1, <2>2, <2>3
<1>8. \A f \in DOMAIN a[3] :
        /\ a[3][f].floor = c[3][f].floor /\ a[3][f].at = c[3][f].at
        /\ c[3][f].open => a[3][f].open
  <2> SUFFICES ASSUME NEW f \in DOMAIN a[3]
               PROVE  /\ a[3][f].floor = c[3][f].floor /\ a[3][f].at = c[3][f].at
                      /\ c[3][f].open => a[3][f].open
    OBVIOUS
  <2>1. f \in DOMAIN b[3]
    <3>1. f \in 1..Len(a[3]) /\ Len(a[3]) <= Len(b[3])
      BY <1>1, <1>4
    <3> QED
      BY <1>1, <1>2, <3>1
  <2> QED
    BY <2>1 DEF Upto
<1>9. \A f \in DOMAIN a[4] :
        /\ a[4][f].combat = c[4][f].combat /\ a[4][f].number = c[4][f].number /\ a[4][f].at = c[4][f].at
        /\ c[4][f].open => a[4][f].open
  <2> SUFFICES ASSUME NEW f \in DOMAIN a[4]
               PROVE  /\ a[4][f].combat = c[4][f].combat /\ a[4][f].number = c[4][f].number
                      /\ a[4][f].at = c[4][f].at
                      /\ c[4][f].open => a[4][f].open
    OBVIOUS
  <2>1. f \in DOMAIN b[4]
    <3>1. f \in 1..Len(a[4]) /\ Len(a[4]) <= Len(b[4])
      BY <1>1, <1>4
    <3> QED
      BY <1>1, <1>2, <3>1
  <2> QED
    BY <2>1 DEF Upto
<1>10. \A i \in DOMAIN a[5] : a[5][i] = c[5][i] \/ a[5][i][2] < c[5][i][2]
  <2> SUFFICES ASSUME NEW i \in DOMAIN a[5]
               PROVE  a[5][i] = c[5][i] \/ a[5][i][2] < c[5][i][2]
    OBVIOUS
  <2>5. i \in DOMAIN b[5]
    <3>1. i \in 1..Len(a[5]) /\ Len(a[5]) <= Len(b[5])
      BY <1>1, <1>4
    <3> QED
      BY <1>1, <1>2, <3>1
  <2>1. i \in DOMAIN b[5] /\ (a[5][i] = b[5][i] \/ a[5][i][2] < b[5][i][2])
    BY <2>5 DEF Upto
  <2>4. i \in 1..Len(c[5])
    <3>1. i \in 1..Len(b[5]) /\ Len(b[5]) <= Len(c[5])
      BY <1>2, <1>4, <2>1
    <3> QED
      BY <1>2, <1>3, <3>1
  <2>6. i \in DOMAIN c[5]
    BY <1>3, <2>4
  <2>2. i \in DOMAIN c[5] /\ (b[5][i] = c[5][i] \/ b[5][i][2] < c[5][i][2])
    BY <2>1, <2>6 DEF Upto
  <2>3. a[5][i][2] \in Nat /\ b[5][i][2] \in Nat /\ c[5][i][2] \in Nat
    BY <1>1, <1>2, <1>3, <2>1, <2>2
  <2> QED
    BY <2>1, <2>2, <2>3
<1> QED
  BY <1>5, <1>6, <1>7, <1>8, <1>9, <1>10 DEF Upto

\* ... and two that are up to each other are the same.
LEMMA UptoBothWays ==
  ASSUME NEW a \in Revisions, NEW b \in Revisions, Upto(a, b), Upto(b, a)
  PROVE  a = b
<1>1. /\ a = <<a[1], a[2], a[3], a[4], a[5], a[6]>>
      /\ a[1] \in RunStatuses /\ a[2] \in Seq(Floors) /\ a[3] \in Seq(Combats) /\ a[4] \in Seq(Turns)
      /\ a[5] \in Seq(Statuses \X Nat) /\ a[6] \in Nat
      /\ Len(a[2]) \in Nat /\ Len(a[3]) \in Nat /\ Len(a[4]) \in Nat /\ Len(a[5]) \in Nat
      /\ DOMAIN a[2] = 1..Len(a[2]) /\ DOMAIN a[3] = 1..Len(a[3])
      /\ DOMAIN a[4] = 1..Len(a[4]) /\ DOMAIN a[5] = 1..Len(a[5])
  BY RevisionTyped
<1>2. /\ b = <<b[1], b[2], b[3], b[4], b[5], b[6]>>
      /\ b[1] \in RunStatuses /\ b[2] \in Seq(Floors) /\ b[3] \in Seq(Combats) /\ b[4] \in Seq(Turns)
      /\ b[5] \in Seq(Statuses \X Nat) /\ b[6] \in Nat
      /\ Len(b[2]) \in Nat /\ Len(b[3]) \in Nat /\ Len(b[4]) \in Nat /\ Len(b[5]) \in Nat
      /\ DOMAIN b[2] = 1..Len(b[2]) /\ DOMAIN b[3] = 1..Len(b[3])
      /\ DOMAIN b[4] = 1..Len(b[4]) /\ DOMAIN b[5] = 1..Len(b[5])
  BY RevisionTyped
<1>3. /\ DOMAIN a[2] = DOMAIN b[2] /\ DOMAIN a[3] = DOMAIN b[3]
      /\ DOMAIN a[4] = DOMAIN b[4] /\ DOMAIN a[5] = DOMAIN b[5] /\ a[6] = b[6]
  BY <1>1, <1>2 DEF Upto
<1>4. a[1] = b[1]
  BY <1>1, <1>2 DEF Upto, RunStatuses
<1>5. a[2] = b[2]
  <2>1. ASSUME NEW f \in DOMAIN a[2] PROVE a[2][f] = b[2][f]
    <3>1. a[2][f] \in Floors /\ b[2][f] \in Floors
      BY <1>1, <1>2, <1>3, Positions
    <3>2. a[2][f].at = b[2][f].at /\ a[2][f].ends <= b[2][f].ends /\ b[2][f].ends <= a[2][f].ends
      BY <1>3 DEF Upto
    <3> QED
      BY <3>1, <3>2 DEF Floors
  <2> QED
    BY <1>1, <1>2, <1>3, <2>1, SameSequence
<1>6. a[3] = b[3]
  <2>1. ASSUME NEW f \in DOMAIN a[3] PROVE a[3][f] = b[3][f]
    <3>1. a[3][f] \in Combats /\ b[3][f] \in Combats
      BY <1>1, <1>2, <1>3, Positions
    <3>2. a[3][f].floor = b[3][f].floor /\ a[3][f].at = b[3][f].at /\ (a[3][f].open <=> b[3][f].open)
      BY <1>3 DEF Upto
    <3>3. a[3][f].open = b[3][f].open
      BY <3>1, <3>2 DEF Combats
    <3> QED
      BY <3>1, <3>2, <3>3 DEF Combats
  <2> QED
    BY <1>1, <1>2, <1>3, <2>1, SameSequence
<1>7. a[4] = b[4]
  <2>1. ASSUME NEW f \in DOMAIN a[4] PROVE a[4][f] = b[4][f]
    <3>1. a[4][f] \in Turns /\ b[4][f] \in Turns
      BY <1>1, <1>2, <1>3, Positions
    <3>2. /\ a[4][f].combat = b[4][f].combat /\ a[4][f].number = b[4][f].number /\ a[4][f].at = b[4][f].at
          /\ a[4][f].open <=> b[4][f].open
      BY <1>3 DEF Upto
    <3>3. a[4][f].open = b[4][f].open
      BY <3>1, <3>2 DEF Turns
    <3> QED
      BY <3>1, <3>2, <3>3 DEF Turns
  <2> QED
    BY <1>1, <1>2, <1>3, <2>1, SameSequence
<1>8. a[5] = b[5]
  <2>1. ASSUME NEW i \in DOMAIN a[5] PROVE a[5][i] = b[5][i]
    <3>1. a[5][i] \in Statuses \X Nat /\ b[5][i] \in Statuses \X Nat
      BY <1>1, <1>2, <1>3, Positions
    <3>2. a[5][i][2] \in Nat /\ b[5][i][2] \in Nat
      BY <3>1
    <3> QED
      BY <1>3, <3>2 DEF Upto
  <2> QED
    BY <1>1, <1>2, <1>3, <2>1, SameSequence
<1> QED
  BY <1>1, <1>2, <1>3, <1>4, <1>5, <1>6, <1>7, <1>8

-------------------------------------------------------------------------------
(* A write to one table *)

\* Tables that agree in each are the same.
LEMMA SameTables ==
  ASSUME NEW d \in Tables, NEW e \in Tables,
         e.status = d.status, e.floors = d.floors, e.combats = d.combats, e.turns = d.turns,
         e.points = d.points, e.decs = d.decs, e.rows = d.rows
  PROVE  e = d
<1>1. d = [status |-> d.status, floors |-> d.floors, combats |-> d.combats, turns |-> d.turns,
           points |-> d.points, decs |-> d.decs, rows |-> d.rows]
  BY DEF Tables
<1>2. e = [status |-> e.status, floors |-> e.floors, combats |-> e.combats, turns |-> e.turns,
           points |-> e.points, decs |-> e.decs, rows |-> e.rows]
  BY DEF Tables
<1> QED
  BY <1>1, <1>2

\* One table is replaced.
LEMMA OneTable ==
  ASSUME NEW d \in Tables
  PROVE  /\ \A s \in RunStatuses : LET e == [d EXCEPT !.status = s] IN
              /\ e \in Tables /\ e.status = s /\ e.floors = d.floors /\ e.combats = d.combats
              /\ e.turns = d.turns /\ e.points = d.points /\ e.decs = d.decs /\ e.rows = d.rows
         /\ \A s \in Seq(Floors) : LET e == [d EXCEPT !.floors = s] IN
              /\ e \in Tables /\ e.status = d.status /\ e.floors = s /\ e.combats = d.combats
              /\ e.turns = d.turns /\ e.points = d.points /\ e.decs = d.decs /\ e.rows = d.rows
         /\ \A s \in Seq(Combats) : LET e == [d EXCEPT !.combats = s] IN
              /\ e \in Tables /\ e.status = d.status /\ e.floors = d.floors /\ e.combats = s
              /\ e.turns = d.turns /\ e.points = d.points /\ e.decs = d.decs /\ e.rows = d.rows
         /\ \A s \in Seq(Turns) : LET e == [d EXCEPT !.turns = s] IN
              /\ e \in Tables /\ e.status = d.status /\ e.floors = d.floors /\ e.combats = d.combats
              /\ e.turns = s /\ e.points = d.points /\ e.decs = d.decs /\ e.rows = d.rows
         /\ \A s \in Seq(Points) : LET e == [d EXCEPT !.points = s] IN
              /\ e \in Tables /\ e.status = d.status /\ e.floors = d.floors /\ e.combats = d.combats
              /\ e.turns = d.turns /\ e.points = s /\ e.decs = d.decs /\ e.rows = d.rows
         /\ \A s \in Seq(Decisions) : LET e == [d EXCEPT !.decs = s] IN
              /\ e \in Tables /\ e.status = d.status /\ e.floors = d.floors /\ e.combats = d.combats
              /\ e.turns = d.turns /\ e.points = d.points /\ e.decs = s /\ e.rows = d.rows
         /\ \A s \in Seq(Facts) : LET e == [d EXCEPT !.rows = s] IN
              /\ e \in Tables /\ e.status = d.status /\ e.floors = d.floors /\ e.combats = d.combats
              /\ e.turns = d.turns /\ e.points = d.points /\ e.decs = d.decs /\ e.rows = s
  BY DEF Tables

\* The lengths of the tables.
LEMMA TablesTyped ==
  ASSUME NEW d \in Tables
  PROVE  /\ d.status \in RunStatuses /\ d.floors \in Seq(Floors) /\ d.combats \in Seq(Combats)
         /\ d.turns \in Seq(Turns) /\ d.points \in Seq(Points) /\ d.decs \in Seq(Decisions)
         /\ d.rows \in Seq(Facts)
         /\ Len(d.floors) \in Nat /\ Len(d.combats) \in Nat /\ Len(d.turns) \in Nat
         /\ Len(d.points) \in Nat /\ Len(d.decs) \in Nat /\ Len(d.rows) \in Nat
         /\ DOMAIN d.floors = 1..Len(d.floors) /\ DOMAIN d.combats = 1..Len(d.combats)
         /\ DOMAIN d.turns = 1..Len(d.turns) /\ DOMAIN d.points = 1..Len(d.points)
         /\ DOMAIN d.decs = 1..Len(d.decs) /\ DOMAIN d.rows = 1..Len(d.rows)
         /\ \A i \in DOMAIN d.decs : d.decs[i] \in Decisions
<1>1. /\ d.status \in RunStatuses /\ d.floors \in Seq(Floors) /\ d.combats \in Seq(Combats)
      /\ d.turns \in Seq(Turns) /\ d.points \in Seq(Points) /\ d.decs \in Seq(Decisions)
      /\ d.rows \in Seq(Facts)
  BY DEF Tables
<1> QED
  BY <1>1, Positions

\* The order of facts is one of rows and decisions only.
LEMMA SameFacts ==
  ASSUME NEW d, NEW e, e.rows = d.rows, e.decs = d.decs
  PROVE  (InOrder(d) => InOrder(e)) /\ (StockOnce(d) => StockOnce(e)) /\ Waiting(e) = Waiting(d) /\ Pending(e) = Pending(d)
<1>1. Pending(e) = Pending(d)
  BY DEF Pending
<1>2. \A i : StockOf(e, i) = StockOf(d, i)
  BY DEF StockOf
<1> QED
  BY <1>1, <1>2 DEF InOrder, StockOnce, Waiting

\* So are the parts of the revision that are about them.
LEMMA SameCounts ==
  ASSUME NEW d \in Tables, NEW e \in Tables, e.rows = d.rows, e.decs = d.decs
  PROVE  Revision(e)[5] = Revision(d)[5] /\ Revision(e)[6] = Revision(d)[6]
<1>1. Counted(e) = Counted(d)
  BY DEF Counted
<1>2. /\ Revision(d)[5] = [i \in DOMAIN d.decs |-> <<d.decs[i].status, d.decs[i].edits>>]
      /\ Revision(d)[6] = Cardinality(Counted(d))
  BY RevisionParts
<1>3. /\ Revision(e)[5] = [i \in DOMAIN e.decs |-> <<e.decs[i].status, e.decs[i].edits>>]
      /\ Revision(e)[6] = Cardinality(Counted(e))
  BY RevisionParts
<1> QED
  BY <1>1, <1>2, <1>3

\* A write that leaves decisions, facts and checkpoints alone.
LEMMA ElsewhereWritten ==
  ASSUME NEW d \in Tables, NEW e \in Tables,
         e.points = d.points, e.decs = d.decs, e.rows = d.rows,
         Upto(Revision(d), Revision(e))
  PROVE  Commanded(d, e)
<1>1. Revision(e) = Revision(d) => [e EXCEPT !.points = d.points] = d
  <2> SUFFICES ASSUME Revision(e) = Revision(d)
               PROVE  [e EXCEPT !.points = d.points] = d
    OBVIOUS
  <2>1. e.status = d.status /\ e.floors = d.floors /\ e.combats = d.combats /\ e.turns = d.turns
    <3>1. /\ Revision(d)[1] = d.status /\ Revision(d)[2] = d.floors
          /\ Revision(d)[3] = d.combats /\ Revision(d)[4] = d.turns
      BY RevisionParts
    <3>2. /\ Revision(e)[1] = e.status /\ Revision(e)[2] = e.floors
          /\ Revision(e)[3] = e.combats /\ Revision(e)[4] = e.turns
      BY RevisionParts
    <3> QED
      BY <3>1, <3>2
  <2>2. e = d
    BY <2>1, SameTables
  <2> QED
    BY <2>2 DEF Tables
<1>2. Waiting(e) = Waiting(d) /\ (StockOnce(d) => StockOnce(e))
  BY SameFacts
<1>3. Len(d.points) <= Len(e.points)
  BY TablesTyped
<1> QED
  BY <1>1, <1>2, <1>3 DEF Commanded

\* A floor is begun, or concluded.
LEMMA FloorsWritten ==
  ASSUME NEW d, NEW u \in Nat, Sound(d, u), NEW s \in Seq(Floors), Len(d.floors) <= Len(s),
         \A f \in DOMAIN d.floors : s[f].at = d.floors[f].at /\ d.floors[f].ends <= s[f].ends,
         \A f \in DOMAIN s : s[f].at <= u
  PROVE  LET e == [d EXCEPT !.floors = s] IN Sound(e, u) /\ Grown(d, e) /\ Commanded(d, e)
<1> DEFINE e == [d EXCEPT !.floors = s]
<1>1. d \in Tables /\ Connected(d, u) /\ InOrder(d)
  BY DEF Sound
<1>2. /\ e \in Tables /\ e.status = d.status /\ e.floors = s /\ e.combats = d.combats
      /\ e.turns = d.turns /\ e.points = d.points /\ e.decs = d.decs /\ e.rows = d.rows
  BY <1>1, OneTable
<1> HIDE DEF e
<1>3. Len(s) \in Nat /\ DOMAIN s = 1..Len(s) /\ Len(d.floors) \in Nat /\ DOMAIN d.floors = 1..Len(d.floors)
  BY <1>1, TablesTyped, Positions
<1>4. InOrder(e)
  BY <1>1, <1>2, SameFacts
<1>5. Connected(e, u)
  BY <1>1, <1>2, <1>3 DEF Connected
<1>6. Upto(Revision(d), Revision(e))
  <2>1. Upto(Revision(d), Revision(d))
    BY <1>1, RevisionParts, UptoItself
  <2>2. /\ Revision(d)[1] = d.status /\ Revision(e)[1] = d.status
        /\ Revision(d)[2] = d.floors /\ Revision(e)[2] = s
        /\ Revision(e)[3] = Revision(d)[3] /\ Revision(e)[4] = Revision(d)[4]
    BY <1>1, <1>2, RevisionParts
  <2>3. Revision(e)[5] = Revision(d)[5] /\ Revision(e)[6] = Revision(d)[6]
    BY <1>1, <1>2, SameCounts
  <2> QED
    BY <2>1, <2>2, <2>3 DEF Upto
<1>7. Commanded(d, e)
  BY <1>1, <1>2, <1>6, ElsewhereWritten
<1>8. Grown(d, e)
  BY <1>1, <1>2, TablesTyped DEF Grown
<1> QED
  BY <1>2, <1>4, <1>5, <1>7, <1>8 DEF Sound, e

\* A combat is begun, or over.
LEMMA CombatsWritten ==
  ASSUME NEW d, NEW u \in Nat, Sound(d, u), NEW s \in Seq(Combats), Len(d.combats) <= Len(s),
         \A c \in DOMAIN d.combats :
           /\ s[c].floor = d.combats[c].floor /\ s[c].at = d.combats[c].at
           /\ s[c].open => d.combats[c].open,
         \A c \in DOMAIN s : s[c].floor \in DOMAIN d.floors
  PROVE  LET e == [d EXCEPT !.combats = s] IN Sound(e, u) /\ Grown(d, e) /\ Commanded(d, e)
<1> DEFINE e == [d EXCEPT !.combats = s]
<1>1. d \in Tables /\ Connected(d, u) /\ InOrder(d)
  BY DEF Sound
<1>2. /\ e \in Tables /\ e.status = d.status /\ e.floors = d.floors /\ e.combats = s
      /\ e.turns = d.turns /\ e.points = d.points /\ e.decs = d.decs /\ e.rows = d.rows
  BY <1>1, OneTable
<1> HIDE DEF e
<1>3. Len(s) \in Nat /\ DOMAIN s = 1..Len(s) /\ Len(d.combats) \in Nat /\ DOMAIN d.combats = 1..Len(d.combats)
  BY <1>1, TablesTyped, Positions
<1>4. InOrder(e)
  BY <1>1, <1>2, SameFacts
<1>5. Connected(e, u)
  BY <1>1, <1>2, <1>3 DEF Connected
<1>6. Upto(Revision(d), Revision(e))
  <2>1. Upto(Revision(d), Revision(d))
    BY <1>1, RevisionParts, UptoItself
  <2>2. /\ Revision(e)[1] = Revision(d)[1] /\ Revision(e)[2] = Revision(d)[2]
        /\ Revision(d)[3] = d.combats /\ Revision(e)[3] = s
        /\ Revision(e)[4] = Revision(d)[4]
    BY <1>1, <1>2, RevisionParts
  <2>3. Revision(e)[5] = Revision(d)[5] /\ Revision(e)[6] = Revision(d)[6]
    BY <1>1, <1>2, SameCounts
  <2> QED
    BY <2>1, <2>2, <2>3 DEF Upto
<1>7. Commanded(d, e)
  BY <1>1, <1>2, <1>6, ElsewhereWritten
<1>8. Grown(d, e)
  BY <1>1, <1>2, TablesTyped DEF Grown
<1> QED
  BY <1>2, <1>4, <1>5, <1>7, <1>8 DEF Sound, e

\* A turn is begun, or over.
LEMMA TurnsWritten ==
  ASSUME NEW d, NEW u \in Nat, Sound(d, u), NEW s \in Seq(Turns), Len(d.turns) <= Len(s),
         \A t \in DOMAIN d.turns :
           /\ s[t].combat = d.turns[t].combat /\ s[t].number = d.turns[t].number
           /\ s[t].at = d.turns[t].at /\ (s[t].open => d.turns[t].open),
         \A t \in DOMAIN s : s[t].combat \in DOMAIN d.combats,
         \A t, v \in DOMAIN s : s[t].combat = s[v].combat /\ s[t].number = s[v].number => t = v
  PROVE  LET e == [d EXCEPT !.turns = s] IN Sound(e, u) /\ Grown(d, e) /\ Commanded(d, e)
<1> DEFINE e == [d EXCEPT !.turns = s]
<1>1. d \in Tables /\ Connected(d, u) /\ InOrder(d)
  BY DEF Sound
<1>2. /\ e \in Tables /\ e.status = d.status /\ e.floors = d.floors /\ e.combats = d.combats
      /\ e.turns = s /\ e.points = d.points /\ e.decs = d.decs /\ e.rows = d.rows
  BY <1>1, OneTable
<1> HIDE DEF e
<1>3. Len(s) \in Nat /\ DOMAIN s = 1..Len(s) /\ Len(d.turns) \in Nat /\ DOMAIN d.turns = 1..Len(d.turns)
  BY <1>1, TablesTyped, Positions
<1>4. InOrder(e)
  BY <1>1, <1>2, SameFacts
<1>5. Connected(e, u)
  BY <1>1, <1>2, <1>3 DEF Connected
<1>6. Upto(Revision(d), Revision(e))
  <2>1. Upto(Revision(d), Revision(d))
    BY <1>1, RevisionParts, UptoItself
  <2>2. /\ Revision(e)[1] = Revision(d)[1] /\ Revision(e)[2] = Revision(d)[2]
        /\ Revision(e)[3] = Revision(d)[3]
        /\ Revision(d)[4] = d.turns /\ Revision(e)[4] = s
    BY <1>1, <1>2, RevisionParts
  <2>3. Revision(e)[5] = Revision(d)[5] /\ Revision(e)[6] = Revision(d)[6]
    BY <1>1, <1>2, SameCounts
  <2> QED
    BY <2>1, <2>2, <2>3 DEF Upto
<1>7. Commanded(d, e)
  BY <1>1, <1>2, <1>6, ElsewhereWritten
<1>8. Grown(d, e)
  BY <1>1, <1>2, TablesTyped DEF Grown
<1> QED
  BY <1>2, <1>4, <1>5, <1>7, <1>8 DEF Sound, e

\* The run is abandoned.
LEMMA StatusWritten ==
  ASSUME NEW d, NEW u \in Nat, Sound(d, u)
  PROVE  LET e == [d EXCEPT !.status = "abandoned"] IN Sound(e, u) /\ Grown(d, e) /\ Commanded(d, e)
<1> DEFINE e == [d EXCEPT !.status = "abandoned"]
<1>1. d \in Tables /\ Connected(d, u) /\ InOrder(d)
  BY DEF Sound
<1>2. /\ e \in Tables /\ e.status = "abandoned" /\ e.floors = d.floors /\ e.combats = d.combats
      /\ e.turns = d.turns /\ e.points = d.points /\ e.decs = d.decs /\ e.rows = d.rows
  BY <1>1, OneTable DEF RunStatuses
<1> HIDE DEF e
<1>4. InOrder(e)
  BY <1>1, <1>2, SameFacts
<1>5. Connected(e, u)
  BY <1>1, <1>2 DEF Connected
<1>6. Upto(Revision(d), Revision(e))
  <2>1. Upto(Revision(d), Revision(d))
    BY <1>1, RevisionParts, UptoItself
  <2>2. /\ Revision(e)[1] = "abandoned" /\ Revision(e)[2] = Revision(d)[2]
        /\ Revision(e)[3] = Revision(d)[3] /\ Revision(e)[4] = Revision(d)[4]
    BY <1>1, <1>2, RevisionParts
  <2>3. Revision(e)[5] = Revision(d)[5] /\ Revision(e)[6] = Revision(d)[6]
    BY <1>1, <1>2, SameCounts
  <2> QED
    BY <2>1, <2>2, <2>3 DEF Upto
<1>7. Commanded(d, e)
  BY <1>1, <1>2, <1>6, ElsewhereWritten
<1>8. Grown(d, e)
  BY <1>1, <1>2, TablesTyped DEF Grown
<1> QED
  BY <1>2, <1>4, <1>5, <1>7, <1>8 DEF Sound, e

\* A fact is added; that of a decision is not counted as settled here.
LEMMA RowAdded ==
  ASSUME NEW d, NEW u \in Nat, Sound(d, u), NEW r \in Facts, r.dec \in {0} \cup DOMAIN d.decs,
         \A i \in DOMAIN d.rows :
           r.by = "play" \/ (r.by = "checkpoint" /\ d.rows[i].kind = "stock") => d.rows[i].at <= r.at
  PROVE  LET e == AddRow(d, r) IN
         /\ Sound(e, u) /\ Grown(d, e)
         /\ e.status = d.status /\ e.floors = d.floors /\ e.combats = d.combats /\ e.turns = d.turns
         /\ e.points = d.points /\ e.decs = d.decs
         /\ Len(e.rows) = Len(d.rows) + 1 /\ e.rows[Len(d.rows) + 1] = r
         /\ \A i \in DOMAIN d.rows : e.rows[i] = d.rows[i]
         /\ DOMAIN e.rows = 1..(Len(d.rows) + 1)
<1> DEFINE e == AddRow(d, r)
           s == Append(d.rows, r)
           n == Len(d.rows)
<1>1. d \in Tables /\ Connected(d, u) /\ InOrder(d)
  BY DEF Sound
<1>2. d.rows \in Seq(Facts) /\ n \in Nat /\ DOMAIN d.rows = 1..n
  BY <1>1, TablesTyped
<1>3. /\ s \in Seq(Facts) /\ Len(s) = n + 1 /\ DOMAIN s = 1..(n + 1)
      /\ \A i \in 1..n : s[i] = d.rows[i]
      /\ s[n + 1] = r
  BY <1>2, Appended
<1>4. e = [d EXCEPT !.rows = s]
  BY DEF AddRow
<1> HIDE DEF s, e, n
<1>5. /\ e \in Tables /\ e.status = d.status /\ e.floors = d.floors /\ e.combats = d.combats
      /\ e.turns = d.turns /\ e.points = d.points /\ e.decs = d.decs /\ e.rows = s
  BY <1>1, <1>3, <1>4, OneTable
<1>6. Connected(e, u)
  <2>1. \A k \in DOMAIN s : s[k].dec \in {0} \cup DOMAIN d.decs
    BY <1>1, <1>2, <1>3 DEF Connected
  <2> QED
    BY <1>1, <1>5, <2>1 DEF Connected
<1>7. InOrder(e)
  <2> SUFFICES ASSUME NEW i \in 1..(n + 1), NEW k \in 1..(n + 1), i < k,
                      s[k].by = "play" \/ (s[k].by = "checkpoint" /\ s[i].kind = "stock")
               PROVE  s[i].at <= s[k].at
    BY <1>3, <1>5 DEF InOrder
  <2>1. i \in 1..n /\ s[i] = d.rows[i]
    BY <1>2, <1>3
  <2>2. CASE k = n + 1
    BY <1>2, <1>3, <2>1, <2>2
  <2>3. CASE k # n + 1
    <3>1. k \in 1..n /\ s[k] = d.rows[k]
      BY <1>2, <1>3, <2>3
    <3> QED
      BY <1>1, <1>2, <2>1, <3>1 DEF InOrder
  <2> QED
    BY <2>2, <2>3
<1>8. Grown(d, e)
  BY <1>1, <1>5, TablesTyped DEF Grown
<1> QED
  BY <1>2, <1>3, <1>5, <1>6, <1>7, <1>8 DEF Sound, e, n

\* A command adds evidence or an inventory, which the revision counts.
LEMMA FactCommanded ==
  ASSUME NEW d, NEW u \in Nat, Sound(d, u), NEW r \in Facts, r.dec = 0, r.kind \in {"stock", "evidence"},
         \A i \in DOMAIN d.rows :
           r.by = "play" \/ (r.by = "checkpoint" /\ d.rows[i].kind = "stock") => d.rows[i].at <= r.at
  PROVE  LET e == AddRow(d, r) IN Commanded(d, e) /\ Revision(e) # Revision(d)
<1> DEFINE e == AddRow(d, r)
           n == Len(d.rows)
<1>1. d \in Tables /\ e \in Tables
  BY RowAdded DEF Sound
<1>2. /\ e.status = d.status /\ e.floors = d.floors /\ e.combats = d.combats /\ e.turns = d.turns
      /\ e.points = d.points /\ e.decs = d.decs
      /\ e.rows[n + 1] = r /\ DOMAIN e.rows = 1..(n + 1)
      /\ \A i \in DOMAIN d.rows : e.rows[i] = d.rows[i]
  BY RowAdded
<1> HIDE DEF e
<1>3. n \in Nat /\ DOMAIN d.rows = 1..n /\ Len(d.points) \in Nat /\ 0 \notin DOMAIN d.decs
  BY <1>1, TablesTyped
<1>4. Counted(e) = Counted(d) \cup {n + 1} /\ n + 1 \notin Counted(d)
  BY <1>2, <1>3 DEF Counted
<1>5. Cardinality(Counted(e)) = Cardinality(Counted(d)) + 1 /\ Cardinality(Counted(d)) \in Nat
  <2>1. IsFiniteSet(Counted(d)) /\ Cardinality(Counted(d)) \in Nat
    BY <1>1, CountedFinite
  <2>2. Cardinality(Counted(d) \cup {n + 1}) = Cardinality(Counted(d)) + 1
    BY <1>4, <2>1, FS_AddElement
  <2> QED
    BY <1>4, <2>1, <2>2
<1>6. /\ Revision(d)[1] = d.status /\ Revision(d)[2] = d.floors /\ Revision(d)[3] = d.combats
      /\ Revision(d)[4] = d.turns /\ Revision(d)[6] = Cardinality(Counted(d))
      /\ Revision(d)[5] = [i \in DOMAIN d.decs |-> <<d.decs[i].status, d.decs[i].edits>>]
  BY <1>1, RevisionParts
<1>7. /\ Revision(e)[1] = e.status /\ Revision(e)[2] = e.floors /\ Revision(e)[3] = e.combats
      /\ Revision(e)[4] = e.turns /\ Revision(e)[6] = Cardinality(Counted(e))
      /\ Revision(e)[5] = [i \in DOMAIN e.decs |-> <<e.decs[i].status, e.decs[i].edits>>]
  BY <1>1, RevisionParts
<1>8. Revision(d)[5] = Revision(e)[5]
  BY <1>2, <1>6, <1>7
<1>9. Upto(Revision(d), Revision(d))
  BY <1>1, RevisionParts, UptoItself
<1>10. Upto(Revision(d), Revision(e))
  BY <1>2, <1>5, <1>6, <1>7, <1>8, <1>9 DEF Upto
<1>11. Revision(e) # Revision(d)
  BY <1>5, <1>6, <1>7
<1>12. Waiting(e) = Waiting(d) /\ Pending(e) = Pending(d)
  BY <1>2 DEF Waiting, Pending
<1>13. \A i \in DOMAIN d.decs : StockOf(e, i) = StockOf(d, i)
  <2> SUFFICES ASSUME NEW i \in DOMAIN d.decs, NEW k
               PROVE  k \in StockOf(e, i) <=> k \in StockOf(d, i)
    OBVIOUS
  <2>1. k = n + 1 => k \notin StockOf(e, i) /\ k \notin StockOf(d, i)
    BY <1>2, <1>3 DEF StockOf
  <2>2. k # n + 1 => (k \in DOMAIN e.rows <=> k \in DOMAIN d.rows)
    BY <1>2, <1>3
  <2> QED
    BY <1>2, <2>1, <2>2 DEF StockOf
<1>14. StockOnce(d) => StockOnce(e)
  BY <1>2, <1>12, <1>13 DEF StockOnce
<1>15. Len(d.points) <= Len(e.points)
  BY <1>2, <1>3
<1> QED
  BY <1>2, <1>10, <1>11, <1>12, <1>14, <1>15 DEF Commanded, e

\* A checkpoint is added.
LEMMA PointAdded ==
  ASSUME NEW d, NEW u \in Nat, Sound(d, u), NEW k \in {"pause", "resume"}, NEW at \in Nat, NEW x \in Places
  PROVE  LET e == AddPoint(d, k, at, x) IN
         /\ Sound(e, u) /\ Grown(d, e) /\ Commanded(d, e)
         /\ e.status = d.status /\ e.floors = d.floors /\ e.combats = d.combats /\ e.turns = d.turns
         /\ e.decs = d.decs /\ e.rows = d.rows
<1> DEFINE e == AddPoint(d, k, at, x)
           q == [kind |-> k, at |-> at, context |-> x]
           s == Append(d.points, q)
           n == Len(d.points)
<1>1. d \in Tables /\ Connected(d, u) /\ InOrder(d)
  BY DEF Sound
<1>2. d.points \in Seq(Points) /\ n \in Nat /\ DOMAIN d.points = 1..n /\ q \in Points
  BY <1>1, TablesTyped DEF Points
<1>3. /\ s \in Seq(Points) /\ Len(s) = n + 1 /\ DOMAIN s = 1..(n + 1)
      /\ \A i \in 1..n : s[i] = d.points[i]
  BY <1>2, Appended
<1>4. e = [d EXCEPT !.points = s]
  BY DEF AddPoint
<1> HIDE DEF s, e
<1>5. /\ e \in Tables /\ e.status = d.status /\ e.floors = d.floors /\ e.combats = d.combats
      /\ e.turns = d.turns /\ e.points = s /\ e.decs = d.decs /\ e.rows = d.rows
  BY <1>1, <1>3, <1>4, OneTable
<1>6. Connected(e, u) /\ InOrder(e)
  BY <1>1, <1>5 DEF Connected, InOrder
<1>7. Grown(d, e)
  BY <1>1, <1>5, TablesTyped DEF Grown
<1>8. Revision(e) = Revision(d)
  BY <1>5 DEF Revision
<1>9. Upto(Revision(d), Revision(e))
  BY <1>1, <1>8, RevisionParts, UptoItself
<1>10. [e EXCEPT !.points = d.points] = d
  <2> DEFINE f == [e EXCEPT !.points = d.points]
  <2>1. /\ f \in Tables /\ f.status = e.status /\ f.floors = e.floors /\ f.combats = e.combats
        /\ f.turns = e.turns /\ f.points = d.points /\ f.decs = e.decs /\ f.rows = e.rows
    BY <1>2, <1>5, OneTable
  <2> HIDE DEF f
  <2>2. f = d
    BY <1>1, <1>5, <2>1, SameTables
  <2> QED
    BY <2>2 DEF f
<1>11. Waiting(e) = Waiting(d) /\ (StockOnce(d) => StockOnce(e))
  BY <1>5, SameFacts
<1>12. Commanded(d, e)
  BY <1>2, <1>3, <1>5, <1>9, <1>10, <1>11 DEF Commanded
<1> QED
  BY <1>5, <1>6, <1>7, <1>12 DEF Sound, e

\* Decisions are added or resolved.
LEMMA DecisionsWritten ==
  ASSUME NEW d, NEW u \in Nat, Sound(d, u), NEW s \in Seq(Decisions), Len(d.decs) <= Len(s)
  PROVE  LET e == [d EXCEPT !.decs = s] IN
         /\ Sound(e, u) /\ Grown(d, e)
         /\ e.status = d.status /\ e.floors = d.floors /\ e.combats = d.combats /\ e.turns = d.turns
         /\ e.points = d.points /\ e.decs = s /\ e.rows = d.rows
<1> DEFINE e == [d EXCEPT !.decs = s]
<1>1. d \in Tables /\ Connected(d, u) /\ InOrder(d)
  BY DEF Sound
<1>2. /\ e \in Tables /\ e.status = d.status /\ e.floors = d.floors /\ e.combats = d.combats
      /\ e.turns = d.turns /\ e.points = d.points /\ e.decs = s /\ e.rows = d.rows
  BY <1>1, OneTable
<1> HIDE DEF e
<1>3. Len(s) \in Nat /\ DOMAIN s = 1..Len(s) /\ Len(d.decs) \in Nat /\ DOMAIN d.decs = 1..Len(d.decs)
  BY <1>1, TablesTyped, Positions
<1>4. Connected(e, u) /\ InOrder(e)
  BY <1>1, <1>2, <1>3 DEF Connected, InOrder
<1>5. Grown(d, e)
  BY <1>1, <1>2, TablesTyped DEF Grown
<1> QED
  BY <1>2, <1>4, <1>5 DEF Sound, e

\* A recommendation is added.
LEMMA DecisionAdded ==
  ASSUME NEW d, NEW u \in Nat, Sound(d, u), NEW by \in {"play", "command"}, NEW x \in Places, NEW at \in Nat
  PROVE  LET e == AddDecision(d, by, x, at)
             n == Len(d.decs)
         IN
         /\ Sound(e, u) /\ Grown(d, e) /\ (StockOnce(d) => StockOnce(e))
         /\ e.status = d.status /\ e.floors = d.floors /\ e.combats = d.combats /\ e.turns = d.turns
         /\ e.points = d.points /\ e.rows = d.rows
         /\ n \in Nat /\ DOMAIN d.decs = 1..n /\ DOMAIN e.decs = 1..(n + 1) /\ Len(e.decs) = n + 1
         /\ \A i \in 1..n : e.decs[i] = d.decs[i]
         /\ e.decs[n + 1] = [by |-> by, status |-> "recommended", edits |-> 0, context |-> x,
                             at |-> at, revision |-> <<>>, points |-> 0, born |-> 0]
<1> DEFINE e == AddDecision(d, by, x, at)
           n == Len(d.decs)
           q == [by |-> by, status |-> "recommended", edits |-> 0, context |-> x,
                 at |-> at, revision |-> <<>>, points |-> 0, born |-> 0]
           s == Append(d.decs, q)
<1>1. d \in Tables /\ Connected(d, u)
  BY DEF Sound
<1>2. d.decs \in Seq(Decisions) /\ n \in Nat /\ DOMAIN d.decs = 1..n
  BY <1>1, TablesTyped
<1>3. q \in Decisions
  BY DEF Decisions, Statuses
<1> HIDE DEF q
<1>4. /\ s \in Seq(Decisions) /\ Len(s) = n + 1 /\ DOMAIN s = 1..(n + 1)
      /\ \A i \in 1..n : s[i] = d.decs[i]
      /\ s[n + 1] = q
  BY <1>2, <1>3, Appended
<1>5. e = [d EXCEPT !.decs = s]
  BY DEF AddDecision, q
<1> HIDE DEF s, e
<1>6. Len(d.decs) <= Len(s)
  BY <1>2, <1>4
<1>7. /\ Sound(e, u) /\ Grown(d, e)
      /\ e.status = d.status /\ e.floors = d.floors /\ e.combats = d.combats /\ e.turns = d.turns
      /\ e.points = d.points /\ e.decs = s /\ e.rows = d.rows
  BY <1>4, <1>5, <1>6, DecisionsWritten
<1> HIDE DEF n
<1>8. StockOnce(d) => StockOnce(e)
  <2> SUFFICES ASSUME StockOnce(d), NEW i \in 1..(n + 1), StockOf(e, i) # {}
               PROVE  Cardinality(StockOf(e, i)) = 1 /\ i \notin Pending(e)
    BY <1>4, <1>7 DEF StockOnce
  <2>1. StockOf(e, i) = StockOf(d, i)
    BY <1>7 DEF StockOf
  <2>2. PICK k \in DOMAIN d.rows : d.rows[k].dec = i
    BY <2>1 DEF StockOf
  <2>3. i \in 1..n
    BY <1>1, <1>2, <2>2 DEF Connected
  <2>4. s[i] = d.decs[i]
    BY <1>4, <2>3
  <2> QED
    BY <1>2, <1>7, <2>1, <2>3, <2>4 DEF StockOnce, Pending
<1> QED
  BY <1>2, <1>4, <1>7, <1>8 DEF e, n, q

\* A decision is rewritten.
LEMMA DecisionChanged ==
  ASSUME NEW d, NEW u \in Nat, Sound(d, u), NEW i \in DOMAIN d.decs, NEW q \in Decisions
  PROVE  LET e == [d EXCEPT !.decs = [d.decs EXCEPT ![i] = q]] IN
         /\ Sound(e, u) /\ Grown(d, e)
         /\ (q.status # "recommended" \/ q.status = d.decs[i].status) /\ StockOnce(d) => StockOnce(e)
         /\ e.status = d.status /\ e.floors = d.floors /\ e.combats = d.combats /\ e.turns = d.turns
         /\ e.points = d.points /\ e.rows = d.rows
         /\ Len(e.decs) = Len(d.decs) /\ DOMAIN e.decs = DOMAIN d.decs /\ e.decs[i] = q
         /\ \A k \in DOMAIN d.decs : k # i => e.decs[k] = d.decs[k]
<1> DEFINE s == [d.decs EXCEPT ![i] = q]
           e == [d EXCEPT !.decs = s]
<1>1. d.decs \in Seq(Decisions) /\ Len(d.decs) \in Nat
  BY TablesTyped DEF Sound
<1>2. /\ s \in Seq(Decisions) /\ Len(s) = Len(d.decs) /\ DOMAIN s = DOMAIN d.decs /\ s[i] = q
      /\ \A k \in DOMAIN d.decs : k # i => s[k] = d.decs[k]
  BY <1>1, Exchanged
<1> HIDE DEF s
<1>3. /\ Sound(e, u) /\ Grown(d, e)
      /\ e.status = d.status /\ e.floors = d.floors /\ e.combats = d.combats /\ e.turns = d.turns
      /\ e.points = d.points /\ e.decs = s /\ e.rows = d.rows
  BY <1>1, <1>2, DecisionsWritten
<1> HIDE DEF e
<1>4. (q.status # "recommended" \/ q.status = d.decs[i].status) /\ StockOnce(d) => StockOnce(e)
  <2>1. \A k : StockOf(e, k) = StockOf(d, k)
    BY <1>3 DEF StockOf
  <2>2. q.status # "recommended" \/ q.status = d.decs[i].status => Pending(e) \subseteq Pending(d)
    BY <1>2, <1>3 DEF Pending
  <2> QED
    BY <1>2, <1>3, <2>1, <2>2 DEF StockOnce
<1> QED
  BY <1>2, <1>3, <1>4 DEF e, s

\* A command adds a recommendation, ...
LEMMA RecommendationCommanded ==
  ASSUME NEW d, NEW u \in Nat, Sound(d, u), NEW x \in Places, NEW at \in Nat
  PROVE  Commanded(d, AddDecision(d, "command", x, at))
<1> DEFINE e == AddDecision(d, "command", x, at)
           n == Len(d.decs)
<1>1. /\ Sound(e, u) /\ (StockOnce(d) => StockOnce(e))
      /\ e.status = d.status /\ e.floors = d.floors /\ e.combats = d.combats /\ e.turns = d.turns
      /\ e.points = d.points /\ e.rows = d.rows
      /\ n \in Nat /\ DOMAIN d.decs = 1..n /\ DOMAIN e.decs = 1..(n + 1) /\ Len(e.decs) = n + 1
      /\ \A i \in 1..n : e.decs[i] = d.decs[i]
      /\ e.decs[n + 1].by = "command"
  <2>1. "command" \in {"play", "command"}
    OBVIOUS
  <2>2. e.decs[n + 1] = [by |-> "command", status |-> "recommended", edits |-> 0, context |-> x,
                         at |-> at, revision |-> <<>>, points |-> 0, born |-> 0]
    BY <2>1, DecisionAdded
  <2> QED
    BY <2>1, <2>2, DecisionAdded
<1>2. d \in Tables /\ e \in Tables
  BY <1>1 DEF Sound
<1> HIDE DEF e
<1>3. /\ Revision(d)[1] = d.status /\ Revision(d)[2] = d.floors /\ Revision(d)[3] = d.combats
      /\ Revision(d)[4] = d.turns /\ Revision(d)[6] = Cardinality(Counted(d))
      /\ Len(Revision(d)[5]) = n /\ DOMAIN Revision(d)[5] = 1..n
      /\ \A i \in DOMAIN d.decs : Revision(d)[5][i] = <<d.decs[i].status, d.decs[i].edits>>
  BY <1>1, <1>2, RevisionParts
<1>4. /\ Revision(e)[1] = e.status /\ Revision(e)[2] = e.floors /\ Revision(e)[3] = e.combats
      /\ Revision(e)[4] = e.turns /\ Revision(e)[6] = Cardinality(Counted(e))
      /\ Len(Revision(e)[5]) = n + 1
      /\ \A i \in DOMAIN e.decs : Revision(e)[5][i] = <<e.decs[i].status, e.decs[i].edits>>
  BY <1>1, <1>2, RevisionParts
<1> HIDE DEF n
<1>5. \A i \in 1..n : Revision(e)[5][i] = Revision(d)[5][i]
  <2> SUFFICES ASSUME NEW i \in 1..n
               PROVE  Revision(e)[5][i] = Revision(d)[5][i]
    OBVIOUS
  <2>1. i \in 1..(n + 1) /\ e.decs[i] = d.decs[i]
    BY <1>1
  <2>2. Revision(d)[5][i] = <<d.decs[i].status, d.decs[i].edits>>
    BY <1>1, <1>3
  <2>3. Revision(e)[5][i] = <<e.decs[i].status, e.decs[i].edits>>
    BY <1>1, <1>4, <2>1
  <2> QED
    BY <2>1, <2>2, <2>3
<1>6. Counted(e) = Counted(d)
  BY <1>1 DEF Counted
<1>7. Upto(Revision(d), Revision(d))
  BY <1>2, RevisionParts, UptoItself
<1>8. Upto(Revision(d), Revision(e))
  BY <1>1, <1>3, <1>4, <1>5, <1>6, <1>7 DEF Upto
<1>9. Revision(e) # Revision(d)
  BY <1>1, <1>3, <1>4
<1>10. Waiting(e) \subseteq Waiting(d) /\ \A i \in Waiting(e) : e.decs[i] = d.decs[i]
  <2> SUFFICES ASSUME NEW i \in Waiting(e)
               PROVE  i \in Waiting(d) /\ e.decs[i] = d.decs[i]
    OBVIOUS
  <2>1. i \in 1..(n + 1) /\ e.decs[i].by = "play" /\ e.decs[i].status = "recommended"
    BY <1>1 DEF Waiting, Pending
  <2>2. i \in 1..n
    BY <1>1, <2>1
  <2> QED
    BY <1>1, <2>1, <2>2 DEF Waiting, Pending
<1>11. Len(d.points) <= Len(e.points)
  BY <1>1, <1>2, TablesTyped
<1> QED
  BY <1>1, <1>8, <1>9, <1>10, <1>11 DEF Commanded, e

\* ... or resolves one.
LEMMA ResolvedTyped ==
  ASSUME NEW d \in Tables, NEW i \in DOMAIN d.decs, NEW s \in {"resolved", "skipped"}
  PROVE  \E q \in Decisions :
         /\ Resolve(d, i, s) = [d EXCEPT !.decs = [d.decs EXCEPT ![i] = q]]
         /\ q.status = s /\ q.edits = d.decs[i].edits + 1 /\ d.decs[i].edits \in Nat
         /\ q.by = d.decs[i].by /\ q.context = d.decs[i].context /\ q.at = d.decs[i].at
         /\ q.revision = d.decs[i].revision /\ q.points = d.decs[i].points /\ q.born = d.decs[i].born
<1> DEFINE c == d.decs[i]
           n == c.edits + 1
           q == [c EXCEPT !.status = s, !.edits = n]
<1>1. c \in Decisions /\ d.decs \in Seq(Decisions)
  BY TablesTyped
<1>2. c.edits \in Nat /\ n \in Nat /\ s \in Statuses
  <2>1. c.edits \in Nat
    BY <1>1 DEF Decisions
  <2> HIDE DEF c
  <2> QED
    BY <2>1 DEF Statuses
<1>3. Resolve(d, i, s) = [d EXCEPT !.decs = [d.decs EXCEPT ![i] = q]]
  <2>1. d.decs = [k \in DOMAIN d.decs |-> d.decs[k]]
    BY <1>1
  <2>2. [d.decs EXCEPT ![i].status = s, ![i].edits = @ + 1] = [d.decs EXCEPT ![i] = q]
    BY <1>1, <2>1
  <2>3. Resolve(d, i, s) = [d EXCEPT !.decs = [d.decs EXCEPT ![i].status = s, ![i].edits = @ + 1]]
    BY DEF Resolve, Tables
  <2> QED
    BY <2>2, <2>3
<1>4. /\ q.status = s /\ q.edits = n
      /\ q.by = c.by /\ q.context = c.context /\ q.at = c.at
      /\ q.revision = c.revision /\ q.points = c.points /\ q.born = c.born
  BY <1>1 DEF Decisions
<1>5. q \in Decisions
  <2> HIDE DEF c, n
  <2> QED
    BY <1>1, <1>2 DEF Decisions
<1> HIDE DEF q
<1> QED
  BY <1>2, <1>3, <1>4, <1>5

\* A command resolves a decision.
LEMMA ResolutionCommanded ==
  ASSUME NEW d, NEW u \in Nat, Sound(d, u), NEW i \in DOMAIN d.decs, NEW s \in {"resolved", "skipped"}
  PROVE  LET e == Resolve(d, i, s) IN
         /\ Sound(e, u) /\ Grown(d, e) /\ Commanded(d, e)
<1> DEFINE e == Resolve(d, i, s)
<1>1. d \in Tables
  BY DEF Sound
<1>2. PICK q \in Decisions :
        /\ e = [d EXCEPT !.decs = [d.decs EXCEPT ![i] = q]]
        /\ q.status = s /\ q.edits = d.decs[i].edits + 1 /\ d.decs[i].edits \in Nat
  BY <1>1, ResolvedTyped
<1> HIDE DEF e
<1>3. /\ Sound(e, u) /\ Grown(d, e) /\ (StockOnce(d) => StockOnce(e))
      /\ e.status = d.status /\ e.floors = d.floors /\ e.combats = d.combats /\ e.turns = d.turns
      /\ e.points = d.points /\ e.rows = d.rows
      /\ Len(e.decs) = Len(d.decs) /\ DOMAIN e.decs = DOMAIN d.decs /\ e.decs[i] = q
      /\ \A k \in DOMAIN d.decs : k # i => e.decs[k] = d.decs[k]
  BY <1>2, DecisionChanged
<1>4. e \in Tables
  BY <1>3 DEF Sound
<1>5. /\ Revision(d)[1] = d.status /\ Revision(d)[2] = d.floors /\ Revision(d)[3] = d.combats
      /\ Revision(d)[4] = d.turns /\ Revision(d)[6] = Cardinality(Counted(d))
      /\ Len(Revision(d)[5]) = Len(d.decs) /\ DOMAIN Revision(d)[5] = DOMAIN d.decs
      /\ \A k \in DOMAIN d.decs : Revision(d)[5][k] = <<d.decs[k].status, d.decs[k].edits>>
  BY <1>1, RevisionParts
<1>6. /\ Revision(e)[1] = e.status /\ Revision(e)[2] = e.floors /\ Revision(e)[3] = e.combats
      /\ Revision(e)[4] = e.turns /\ Revision(e)[6] = Cardinality(Counted(e))
      /\ Len(Revision(e)[5]) = Len(e.decs)
      /\ \A k \in DOMAIN e.decs : Revision(e)[5][k] = <<e.decs[k].status, e.decs[k].edits>>
  BY <1>4, RevisionParts
<1>7. \A k \in DOMAIN d.decs :
        k # i => Revision(e)[5][k] = Revision(d)[5][k]
  <2> SUFFICES ASSUME NEW k \in DOMAIN d.decs, k # i
               PROVE  Revision(e)[5][k] = Revision(d)[5][k]
    OBVIOUS
  <2>1. e.decs[k] = d.decs[k] /\ k \in DOMAIN e.decs
    BY <1>3
  <2>2. Revision(d)[5][k] = <<d.decs[k].status, d.decs[k].edits>>
    BY <1>5
  <2>3. Revision(e)[5][k] = <<e.decs[k].status, e.decs[k].edits>>
    BY <1>6, <2>1
  <2> QED
    BY <2>1, <2>2, <2>3
<1>8. Revision(e)[5][i][2] = d.decs[i].edits + 1 /\ Revision(d)[5][i][2] = d.decs[i].edits
  <2>1. Revision(d)[5][i] = <<d.decs[i].status, d.decs[i].edits>>
    BY <1>5
  <2>2. Revision(e)[5][i] = <<q.status, q.edits>>
    BY <1>3, <1>6
  <2> QED
    BY <1>2, <2>1, <2>2
<1>9. Counted(e) = Counted(d)
  BY <1>3 DEF Counted
<1>10. Upto(Revision(d), Revision(d))
  BY <1>1, RevisionParts, UptoItself
<1>11. \A k \in DOMAIN Revision(d)[5] :
         Revision(d)[5][k] = Revision(e)[5][k] \/ Revision(d)[5][k][2] < Revision(e)[5][k][2]
  <2> SUFFICES ASSUME NEW k \in DOMAIN d.decs
               PROVE  Revision(d)[5][k] = Revision(e)[5][k] \/ Revision(d)[5][k][2] < Revision(e)[5][k][2]
    BY <1>5
  <2>1. CASE k = i
    BY <1>2, <1>8, <2>1
  <2>2. CASE k # i
    BY <1>7, <2>2
  <2> QED
    BY <2>1, <2>2
<1>12. Upto(Revision(d), Revision(e))
  BY <1>3, <1>5, <1>6, <1>9, <1>10, <1>11 DEF Upto
<1>13. Revision(e) # Revision(d)
  <2>1. Revision(e)[5][i][2] # Revision(d)[5][i][2]
    BY <1>2, <1>8
  <2> QED
    BY <2>1
<1>14. Waiting(e) \subseteq Waiting(d) /\ \A k \in Waiting(e) : e.decs[k] = d.decs[k]
  <2> SUFFICES ASSUME NEW k \in Waiting(e)
               PROVE  k \in Waiting(d) /\ e.decs[k] = d.decs[k]
    OBVIOUS
  <2>1. k \in DOMAIN d.decs /\ e.decs[k].by = "play" /\ e.decs[k].status = "recommended"
    BY <1>3 DEF Waiting, Pending
  <2>2. k # i
    BY <1>2, <1>3, <2>1
  <2> QED
    BY <1>3, <2>1, <2>2 DEF Waiting, Pending
<1>15. Len(d.points) <= Len(e.points)
  BY <1>1, <1>3, TablesTyped
<1> QED
  BY <1>3, <1>12, <1>13, <1>14, <1>15 DEF Commanded, e

\* A command that writes nothing.
LEMMA NothingWritten ==
  ASSUME NEW d, NEW u \in Nat, Sound(d, u)
  PROVE  Grown(d, d) /\ Commanded(d, d)
<1>1. d \in Tables
  BY DEF Sound
<1>2. Upto(Revision(d), Revision(d))
  BY <1>1, RevisionParts, UptoItself
<1>3. [d EXCEPT !.points = d.points] = d
  BY <1>1 DEF Tables
<1>4. Len(d.points) <= Len(d.points) /\ Grown(d, d)
  BY <1>1, TablesTyped DEF Grown
<1> QED
  BY <1>2, <1>3, <1>4 DEF Commanded

\* Tables that grow and grow.
LEMMA GrownFurther ==
  ASSUME NEW d \in Tables, NEW c \in Tables, NEW e \in Tables, Grown(d, c), Grown(c, e)
  PROVE  Grown(d, e)
<1>1. /\ Len(d.floors) \in Nat /\ Len(d.combats) \in Nat /\ Len(d.turns) \in Nat /\ Len(d.decs) \in Nat
      /\ Len(c.floors) \in Nat /\ Len(c.combats) \in Nat /\ Len(c.turns) \in Nat /\ Len(c.decs) \in Nat
      /\ Len(e.floors) \in Nat /\ Len(e.combats) \in Nat /\ Len(e.turns) \in Nat /\ Len(e.decs) \in Nat
  BY TablesTyped
<1>2. Len(d.floors) <= Len(e.floors)
  BY <1>1 DEF Grown
<1>3. Len(d.combats) <= Len(e.combats)
  BY <1>1 DEF Grown
<1>4. Len(d.turns) <= Len(e.turns)
  BY <1>1 DEF Grown
<1>5. Len(d.decs) <= Len(e.decs)
  BY <1>1 DEF Grown
<1> QED
  BY <1>2, <1>3, <1>4, <1>5 DEF Grown

\* A floor is begun, ...
LEMMA FloorAdded ==
  ASSUME NEW d, NEW u \in Nat, Sound(d, u), NEW at \in 0..u
  PROVE  LET e == AddFloor(d, at)
             n == Len(d.floors)
         IN
         /\ Sound(e, u) /\ Grown(d, e) /\ Commanded(d, e)
         /\ e.status = d.status /\ e.combats = d.combats /\ e.turns = d.turns
         /\ e.points = d.points /\ e.decs = d.decs /\ e.rows = d.rows
         /\ n \in Nat /\ DOMAIN d.floors = 1..n /\ DOMAIN e.floors = 1..(n + 1) /\ Len(e.floors) = n + 1
         /\ \A f \in 1..n : e.floors[f] = d.floors[f]
         /\ e.floors[n + 1].at = at
<1> DEFINE e == AddFloor(d, at)
           n == Len(d.floors)
           q == [at |-> at, ends |-> 0]
           s == Append(d.floors, q)
<1>1. d \in Tables /\ Connected(d, u)
  BY DEF Sound
<1>2. d.floors \in Seq(Floors) /\ n \in Nat /\ DOMAIN d.floors = 1..n
  BY <1>1, TablesTyped
<1>3. q \in Floors
  BY DEF Floors
<1>4. /\ s \in Seq(Floors) /\ Len(s) = n + 1 /\ DOMAIN s = 1..(n + 1)
      /\ \A f \in 1..n : s[f] = d.floors[f]
      /\ s[n + 1] = q
  BY <1>2, <1>3, Appended
<1>5. e = [d EXCEPT !.floors = s]
  BY DEF AddFloor
<1> HIDE DEF s, e
<1>6. /\ e.status = d.status /\ e.floors = s /\ e.combats = d.combats /\ e.turns = d.turns
      /\ e.points = d.points /\ e.decs = d.decs /\ e.rows = d.rows
  BY <1>1, <1>4, <1>5, OneTable
<1>7. \A f \in 1..n : d.floors[f] \in Floors
  BY <1>2, Positions
<1> HIDE DEF n
<1>8. \A f \in DOMAIN d.floors : s[f].at = d.floors[f].at /\ d.floors[f].ends <= s[f].ends
  <2>1. \A f \in 1..n : d.floors[f].ends \in Nat
    BY <1>7 DEF Floors
  <2>2. \A f \in 1..n : d.floors[f].ends <= d.floors[f].ends
    BY <2>1
  <2> QED
    BY <1>2, <1>4, <2>2
<1>9. \A f \in DOMAIN s : s[f].at <= u
  <2> SUFFICES ASSUME NEW f \in 1..(n + 1)
               PROVE  s[f].at <= u
    BY <1>4
  <2>1. CASE f = n + 1
    BY <1>4, <2>1
  <2>2. CASE f # n + 1
    <3>1. f \in 1..n
      BY <1>2, <2>2
    <3> QED
      BY <1>1, <1>2, <1>4, <3>1 DEF Connected
  <2> QED
    BY <2>1, <2>2
<1>10. Len(d.floors) <= Len(s)
  BY <1>2, <1>4 DEF n
<1>11. Sound(e, u) /\ Grown(d, e) /\ Commanded(d, e)
  BY <1>4, <1>5, <1>8, <1>9, <1>10, FloorsWritten
<1> QED
  BY <1>2, <1>4, <1>6, <1>11 DEF e, n

\* ... or concluded.
LEMMA FloorEnded ==
  ASSUME NEW d, NEW u \in Nat, Sound(d, u), NEW f \in DOMAIN d.floors
  PROVE  LET e == EndFloor(d, f) IN
         /\ Sound(e, u) /\ Grown(d, e) /\ Commanded(d, e)
         /\ e.status = d.status /\ e.combats = d.combats /\ e.turns = d.turns
         /\ e.points = d.points /\ e.decs = d.decs /\ e.rows = d.rows
         /\ DOMAIN e.floors = DOMAIN d.floors /\ Len(e.floors) = Len(d.floors)
         /\ \A g \in DOMAIN d.floors : e.floors[g].at = d.floors[g].at
<1> DEFINE e == EndFloor(d, f)
           n == d.floors[f].ends + 1
           q == [d.floors[f] EXCEPT !.ends = n]
           s == [d.floors EXCEPT ![f] = q]
<1>1. d \in Tables /\ Connected(d, u)
  BY DEF Sound
<1>2. d.floors \in Seq(Floors) /\ d.floors[f] \in Floors /\ \A g \in DOMAIN d.floors : d.floors[g] \in Floors
  BY <1>1, TablesTyped, Positions
<1>3. n \in Nat /\ d.floors[f].ends \in Nat /\ d.floors[f].ends <= n
  <2>1. d.floors[f].ends \in Nat
    BY <1>2 DEF Floors
  <2> QED
    BY <2>1
<1>4. e = [d EXCEPT !.floors = s]
  BY <1>1, <1>2 DEF EndFloor, Tables, Floors
<1> HIDE DEF n
<1>5. q \in Floors /\ q.at = d.floors[f].at /\ q.ends = n
  BY <1>2, <1>3 DEF Floors
<1> HIDE DEF q
<1>6. /\ s \in Seq(Floors) /\ Len(s) = Len(d.floors) /\ DOMAIN s = DOMAIN d.floors
      /\ s[f] = q /\ Len(s) \in Nat
      /\ \A g \in DOMAIN d.floors : g # f => s[g] = d.floors[g]
  BY <1>2, <1>5, Exchanged
<1> HIDE DEF s, e
<1>7. /\ e.status = d.status /\ e.floors = s /\ e.combats = d.combats /\ e.turns = d.turns
      /\ e.points = d.points /\ e.decs = d.decs /\ e.rows = d.rows
  BY <1>1, <1>4, <1>6, OneTable
<1>8. \A g \in DOMAIN d.floors : s[g].at = d.floors[g].at /\ d.floors[g].ends <= s[g].ends
  <2> SUFFICES ASSUME NEW g \in DOMAIN d.floors
               PROVE  s[g].at = d.floors[g].at /\ d.floors[g].ends <= s[g].ends
    OBVIOUS
  <2>1. CASE g = f
    BY <1>3, <1>5, <1>6, <2>1
  <2>2. CASE g # f
    <3>1. s[g] = d.floors[g] /\ d.floors[g].ends \in Nat
      BY <1>2, <1>6, <2>2 DEF Floors
    <3> QED
      BY <3>1
  <2> QED
    BY <2>1, <2>2
<1>9. \A g \in DOMAIN s : s[g].at <= u
  BY <1>1, <1>6, <1>8 DEF Connected
<1>10. Sound(e, u) /\ Grown(d, e) /\ Commanded(d, e)
  BY <1>4, <1>6, <1>8, <1>9, FloorsWritten
<1> QED
  BY <1>6, <1>7, <1>8, <1>10 DEF e

\* A combat is begun, ...
LEMMA CombatAdded ==
  ASSUME NEW d, NEW u \in Nat, Sound(d, u), NEW f \in DOMAIN d.floors, NEW at \in Nat
  PROVE  LET e == AddCombat(d, f, at)
             n == Len(d.combats)
         IN
         /\ Sound(e, u) /\ Grown(d, e) /\ Commanded(d, e)
         /\ e.status = d.status /\ e.floors = d.floors /\ e.turns = d.turns
         /\ e.points = d.points /\ e.decs = d.decs /\ e.rows = d.rows
         /\ n \in Nat /\ DOMAIN d.combats = 1..n /\ DOMAIN e.combats = 1..(n + 1) /\ Len(e.combats) = n + 1
         /\ \A c \in 1..n : e.combats[c] = d.combats[c]
         /\ e.combats[n + 1] = [floor |-> f, at |-> at, open |-> TRUE]
<1> DEFINE e == AddCombat(d, f, at)
           n == Len(d.combats)
           q == [floor |-> f, at |-> at, open |-> TRUE]
           s == Append(d.combats, q)
<1>1. d \in Tables /\ Connected(d, u)
  BY DEF Sound
<1>2. d.combats \in Seq(Combats) /\ n \in Nat /\ DOMAIN d.combats = 1..n /\ f \in Nat
  BY <1>1, TablesTyped
<1>3. q \in Combats
  BY <1>2 DEF Combats
<1>4. /\ s \in Seq(Combats) /\ Len(s) = n + 1 /\ DOMAIN s = 1..(n + 1)
      /\ \A c \in 1..n : s[c] = d.combats[c]
      /\ s[n + 1] = q
  BY <1>2, <1>3, Appended
<1>5. e = [d EXCEPT !.combats = s]
  BY DEF AddCombat
<1> HIDE DEF s, e
<1>6. /\ e.status = d.status /\ e.floors = d.floors /\ e.combats = s /\ e.turns = d.turns
      /\ e.points = d.points /\ e.decs = d.decs /\ e.rows = d.rows
  BY <1>1, <1>4, <1>5, OneTable
<1>10. Len(d.combats) <= Len(s)
  BY <1>2, <1>4
<1> HIDE DEF n
<1>8. \A c \in DOMAIN d.combats :
        /\ s[c].floor = d.combats[c].floor /\ s[c].at = d.combats[c].at
        /\ s[c].open => d.combats[c].open
  BY <1>2, <1>4
<1>9. \A c \in DOMAIN s : s[c].floor \in DOMAIN d.floors
  <2> SUFFICES ASSUME NEW c \in 1..(n + 1)
               PROVE  s[c].floor \in DOMAIN d.floors
    BY <1>4
  <2>1. CASE c = n + 1
    BY <1>4, <2>1
  <2>2. CASE c # n + 1
    <3>1. c \in 1..n
      BY <1>2, <2>2
    <3> QED
      BY <1>1, <1>2, <1>4, <3>1 DEF Connected
  <2> QED
    BY <2>1, <2>2
<1>11. Sound(e, u) /\ Grown(d, e) /\ Commanded(d, e)
  BY <1>4, <1>5, <1>8, <1>9, <1>10, CombatsWritten
<1> QED
  BY <1>2, <1>4, <1>6, <1>11 DEF e, n

\* ... or over.
LEMMA CombatEnded ==
  ASSUME NEW d, NEW u \in Nat, Sound(d, u), NEW c \in DOMAIN d.combats
  PROVE  LET e == EndCombat(d, c) IN
         /\ Sound(e, u) /\ Grown(d, e) /\ Commanded(d, e)
         /\ e.status = d.status /\ e.floors = d.floors /\ e.turns = d.turns
         /\ e.points = d.points /\ e.decs = d.decs /\ e.rows = d.rows
         /\ DOMAIN e.combats = DOMAIN d.combats /\ Len(e.combats) = Len(d.combats)
         /\ e.combats[c].open = FALSE
         /\ \A k \in DOMAIN d.combats : k # c => e.combats[k] = d.combats[k]
<1> DEFINE e == EndCombat(d, c)
           q == [d.combats[c] EXCEPT !.open = FALSE]
           s == [d.combats EXCEPT ![c] = q]
<1>1. d \in Tables /\ Connected(d, u)
  BY DEF Sound
<1>2. d.combats \in Seq(Combats) /\ d.combats[c] \in Combats
  BY <1>1, TablesTyped, Positions
<1>4. e = [d EXCEPT !.combats = s]
  BY <1>1, <1>2 DEF EndCombat, Tables, Combats
<1>5. q \in Combats /\ q.at = d.combats[c].at /\ q.floor = d.combats[c].floor /\ q.open = FALSE
  BY <1>2 DEF Combats
<1> HIDE DEF q
<1>6. /\ s \in Seq(Combats) /\ Len(s) = Len(d.combats) /\ DOMAIN s = DOMAIN d.combats
      /\ s[c] = q /\ Len(s) \in Nat
      /\ \A k \in DOMAIN d.combats : k # c => s[k] = d.combats[k]
  BY <1>2, <1>5, Exchanged
<1> HIDE DEF s, e
<1>7. /\ e.status = d.status /\ e.floors = d.floors /\ e.combats = s /\ e.turns = d.turns
      /\ e.points = d.points /\ e.decs = d.decs /\ e.rows = d.rows
  BY <1>1, <1>4, <1>6, OneTable
<1>8. \A k \in DOMAIN d.combats :
        /\ s[k].floor = d.combats[k].floor /\ s[k].at = d.combats[k].at
        /\ s[k].open => d.combats[k].open
  <2> SUFFICES ASSUME NEW k \in DOMAIN d.combats
               PROVE  /\ s[k].floor = d.combats[k].floor /\ s[k].at = d.combats[k].at
                      /\ s[k].open => d.combats[k].open
    OBVIOUS
  <2>1. CASE k = c
    BY <1>5, <1>6, <2>1
  <2>2. CASE k # c
    BY <1>6, <2>2
  <2> QED
    BY <2>1, <2>2
<1>9. \A k \in DOMAIN s : s[k].floor \in DOMAIN d.floors
  BY <1>1, <1>6, <1>8 DEF Connected
<1>10. Sound(e, u) /\ Grown(d, e) /\ Commanded(d, e)
  BY <1>4, <1>6, <1>8, <1>9, CombatsWritten
<1> QED
  BY <1>5, <1>6, <1>7, <1>10 DEF e

\* A turn is begun, with a number that is new to its combat, ...
LEMMA TurnAdded ==
  ASSUME NEW d, NEW u \in Nat, Sound(d, u), NEW c \in DOMAIN d.combats, NEW m \in Nat, NEW at \in Nat,
         m \notin Numbers(d, c)
  PROVE  LET e == AddTurn(d, c, m, at)
             n == Len(d.turns)
         IN
         /\ Sound(e, u) /\ Grown(d, e) /\ Commanded(d, e)
         /\ e.status = d.status /\ e.floors = d.floors /\ e.combats = d.combats
         /\ e.points = d.points /\ e.decs = d.decs /\ e.rows = d.rows
         /\ n \in Nat /\ DOMAIN d.turns = 1..n /\ DOMAIN e.turns = 1..(n + 1) /\ Len(e.turns) = n + 1
         /\ \A t \in 1..n : e.turns[t] = d.turns[t]
         /\ e.turns[n + 1] = [combat |-> c, number |-> m, at |-> at, open |-> TRUE]
<1> DEFINE e == AddTurn(d, c, m, at)
           n == Len(d.turns)
           q == [combat |-> c, number |-> m, at |-> at, open |-> TRUE]
           s == Append(d.turns, q)
<1>1. d \in Tables /\ Connected(d, u)
  BY DEF Sound
<1>2. d.turns \in Seq(Turns) /\ n \in Nat /\ DOMAIN d.turns = 1..n /\ c \in Nat
  BY <1>1, TablesTyped
<1>3. q \in Turns
  BY <1>2 DEF Turns
<1>4. /\ s \in Seq(Turns) /\ Len(s) = n + 1 /\ DOMAIN s = 1..(n + 1)
      /\ \A t \in 1..n : s[t] = d.turns[t]
      /\ s[n + 1] = q
  BY <1>2, <1>3, Appended
<1>5. e = [d EXCEPT !.turns = s]
  BY DEF AddTurn
<1> HIDE DEF s, e
<1>6. /\ e.status = d.status /\ e.floors = d.floors /\ e.combats = d.combats /\ e.turns = s
      /\ e.points = d.points /\ e.decs = d.decs /\ e.rows = d.rows
  BY <1>1, <1>4, <1>5, OneTable
<1>10. Len(d.turns) <= Len(s)
  BY <1>2, <1>4
<1> HIDE DEF n
<1>8. \A t \in DOMAIN d.turns :
        /\ s[t].combat = d.turns[t].combat /\ s[t].number = d.turns[t].number
        /\ s[t].at = d.turns[t].at /\ (s[t].open => d.turns[t].open)
  BY <1>2, <1>4
<1>9. \A t \in DOMAIN s : s[t].combat \in DOMAIN d.combats
  <2> SUFFICES ASSUME NEW t \in 1..(n + 1)
               PROVE  s[t].combat \in DOMAIN d.combats
    BY <1>4
  <2>1. CASE t = n + 1
    BY <1>4, <2>1
  <2>2. CASE t # n + 1
    <3>1. t \in 1..n
      BY <1>2, <2>2
    <3> QED
      BY <1>1, <1>2, <1>4, <3>1 DEF Connected
  <2> QED
    BY <2>1, <2>2
<1>12. \A t \in 1..n : ~(d.turns[t].combat = c /\ d.turns[t].number = m)
  BY <1>2 DEF Numbers, TurnsOf
<1>13. \A t, v \in DOMAIN s : s[t].combat = s[v].combat /\ s[t].number = s[v].number => t = v
  <2> SUFFICES ASSUME NEW t \in 1..(n + 1), NEW v \in 1..(n + 1),
                      s[t].combat = s[v].combat, s[t].number = s[v].number
               PROVE  t = v
    BY <1>4
  <2>1. (t \in 1..n \/ t = n + 1) /\ (v \in 1..n \/ v = n + 1)
    BY <1>2
  <2>2. CASE t \in 1..n /\ v \in 1..n
    BY <1>1, <1>2, <1>4, <2>2 DEF Connected
  <2>3. CASE t = n + 1 \/ v = n + 1
    BY <1>4, <1>12, <2>1, <2>3
  <2> QED
    BY <2>1, <2>2, <2>3
<1>11. Sound(e, u) /\ Grown(d, e) /\ Commanded(d, e)
  BY <1>4, <1>5, <1>8, <1>9, <1>10, <1>13, TurnsWritten
<1> QED
  BY <1>2, <1>4, <1>6, <1>11 DEF e, n

\* ... or over.
LEMMA TurnEnded ==
  ASSUME NEW d, NEW u \in Nat, Sound(d, u), NEW t \in DOMAIN d.turns
  PROVE  LET e == EndTurn(d, t) IN
         /\ Sound(e, u) /\ Grown(d, e) /\ Commanded(d, e)
         /\ e.status = d.status /\ e.floors = d.floors /\ e.combats = d.combats
         /\ e.points = d.points /\ e.decs = d.decs /\ e.rows = d.rows
         /\ DOMAIN e.turns = DOMAIN d.turns /\ Len(e.turns) = Len(d.turns)
         /\ e.turns[t].open = FALSE
         /\ \A v \in DOMAIN d.turns :
              /\ e.turns[v].combat = d.turns[v].combat /\ e.turns[v].number = d.turns[v].number
              /\ e.turns[v].at = d.turns[v].at
<1> DEFINE e == EndTurn(d, t)
           q == [d.turns[t] EXCEPT !.open = FALSE]
           s == [d.turns EXCEPT ![t] = q]
<1>1. d \in Tables /\ Connected(d, u)
  BY DEF Sound
<1>2. d.turns \in Seq(Turns) /\ d.turns[t] \in Turns
  BY <1>1, TablesTyped, Positions
<1>4. e = [d EXCEPT !.turns = s]
  BY <1>1, <1>2 DEF EndTurn, Tables, Turns
<1>5. /\ q \in Turns /\ q.at = d.turns[t].at /\ q.combat = d.turns[t].combat
      /\ q.number = d.turns[t].number /\ q.open = FALSE
  BY <1>2 DEF Turns
<1> HIDE DEF q
<1>6. /\ s \in Seq(Turns) /\ Len(s) = Len(d.turns) /\ DOMAIN s = DOMAIN d.turns
      /\ s[t] = q /\ Len(s) \in Nat
      /\ \A v \in DOMAIN d.turns : v # t => s[v] = d.turns[v]
  BY <1>2, <1>5, Exchanged
<1> HIDE DEF s, e
<1>7. /\ e.status = d.status /\ e.floors = d.floors /\ e.combats = d.combats /\ e.turns = s
      /\ e.points = d.points /\ e.decs = d.decs /\ e.rows = d.rows
  BY <1>1, <1>4, <1>6, OneTable
<1>8. \A v \in DOMAIN d.turns :
        /\ s[v].combat = d.turns[v].combat /\ s[v].number = d.turns[v].number
        /\ s[v].at = d.turns[v].at /\ (s[v].open => d.turns[v].open)
  <2> SUFFICES ASSUME NEW v \in DOMAIN d.turns
               PROVE  /\ s[v].combat = d.turns[v].combat /\ s[v].number = d.turns[v].number
                      /\ s[v].at = d.turns[v].at /\ (s[v].open => d.turns[v].open)
    OBVIOUS
  <2>1. CASE v = t
    BY <1>5, <1>6, <2>1
  <2>2. CASE v # t
    BY <1>6, <2>2
  <2> QED
    BY <2>1, <2>2
<1>9. /\ \A v \in DOMAIN s : s[v].combat \in DOMAIN d.combats
      /\ \A v, w \in DOMAIN s : s[v].combat = s[w].combat /\ s[v].number = s[w].number => v = w
  BY <1>1, <1>6, <1>8 DEF Connected
<1>10. Sound(e, u) /\ Grown(d, e) /\ Commanded(d, e)
  <2>1. Len(d.turns) <= Len(s)
    BY <1>6
  <2>2. \A v, w \in DOMAIN s : s[v].combat = s[w].combat /\ s[v].number = s[w].number => v = w
    BY <1>9
  <2>3. \A v \in DOMAIN s : s[v].combat \in DOMAIN d.combats
    BY <1>9
  <2> QED
    BY <1>4, <1>6, <1>8, <2>1, <2>2, <2>3, TurnsWritten
<1> QED
  BY <1>5, <1>6, <1>7, <1>8, <1>10 DEF e

-------------------------------------------------------------------------------
(* Commands *)

\* What the statement of a command leaves.
LEMMA StatedHolds ==
  ASSUME NEW u \in Nat, Sound(db, u), NEW j \in Given, j.at <= u,
         j.command \in {"floor-finish", "combat-start", "decision", "recommend"} => j.row \in DOMAIN db.floors,
         j.command \in {"combat-finish", "turn-start"} => j.row \in DOMAIN db.combats,
         j.command = "turn-finish" => j.row \in DOMAIN db.turns,
         j.command = "resolve" => j.row \in DOMAIN db.decs
  PROVE  LET e == Stated(j) IN Sound(e, u) /\ Grown(db, e) /\ Commanded(db, e)
<1> DEFINE e == Stated(j)
<1>1. /\ j.command \in Commands /\ j.at \in 0..u /\ j.at \in Nat /\ j.n \in Nat
      /\ j.context \in Places
  BY DEF Given
<1>2. Grown(db, db) /\ Commanded(db, db)
  BY NothingWritten
<1>3. CASE j.command = "floor-start"
  <2>1. e = AddFloor(db, j.at)
    BY <1>3 DEF Stated
  <2> QED
    BY <1>1, <2>1, FloorAdded
<1>4. CASE j.command = "floor-finish"
  <2>1. e = EndFloor(db, j.row)
    BY <1>4 DEF Stated
  <2> QED
    BY <1>4, <2>1, FloorEnded
<1>5. CASE j.command = "combat-start"
  <2>1. e = AddCombat(db, j.row, j.at)
    BY <1>5 DEF Stated
  <2>2. Sound(AddCombat(db, j.row, j.at), u) /\ Grown(db, AddCombat(db, j.row, j.at)) /\ Commanded(db, AddCombat(db, j.row, j.at))
    BY <1>1, <1>5, CombatAdded
  <2> QED
    BY <2>1, <2>2
<1>6. CASE j.command = "combat-finish"
  <2>1. e = EndCombat(db, j.row) \/ e = db
    BY <1>6 DEF Stated
  <2>2. LET k == EndCombat(db, j.row) IN Sound(k, u) /\ Grown(db, k) /\ Commanded(db, k)
    BY <1>6, CombatEnded, ZenonT(60)
  <2> QED
    BY <1>2, <2>1, <2>2
<1>7. CASE j.command = "turn-start"
  <2>1. IF j.n \in Numbers(db, j.row) THEN e = db ELSE e = AddTurn(db, j.row, j.n, j.at)
    BY <1>7 DEF Stated
  <2> DEFINE f == AddTurn(db, j.row, j.n, j.at)
  <2>2. j.n \notin Numbers(db, j.row) => Sound(f, u) /\ Grown(db, f) /\ Commanded(db, f)
    BY <1>1, <1>7, TurnAdded
  <2> QED
    BY <1>2, <2>1, <2>2
<1>8. CASE j.command = "turn-finish"
  <2>1. e = EndTurn(db, j.row) \/ e = db
    BY <1>8 DEF Stated
  <2>2. Sound(EndTurn(db, j.row), u) /\ Grown(db, EndTurn(db, j.row)) /\ Commanded(db, EndTurn(db, j.row))
    BY <1>8, TurnEnded
  <2> QED
    BY <1>2, <2>1, <2>2
<1>9. CASE j.command \in {"floor-evidence", "decision", "inventory"}
  <2>1. PICK k \in {"evidence", "stock"} : e = AddRow(db, Row(k, "command", j.at, 0))
    BY <1>9 DEF Stated
  <2> DEFINE r == Row(k, "command", j.at, 0)
  <2>2. r \in Facts /\ r.dec = 0 /\ r.kind \in {"stock", "evidence"} /\ r.by = "command"
    BY <1>1 DEF Row, Facts
  <2> HIDE DEF r
  <2> QED
    BY <2>1, <2>2, RowAdded, FactCommanded DEF r
<1>10. CASE j.command = "recommend"
  <2> DEFINE x == Context(j.row, 0, 0)
  <2>1. e = AddDecision(db, "command", x, j.at)
    BY <1>10 DEF Stated
  <2>2. x \in Places
    BY DEF Context, Places, Given
  <2> HIDE DEF x
  <2>3. "command" \in {"play", "command"}
    OBVIOUS
  <2>4. Sound(AddDecision(db, "command", x, j.at), u) /\ Grown(db, AddDecision(db, "command", x, j.at))
    BY <1>1, <2>2, <2>3, DecisionAdded
  <2> QED
    BY <1>1, <2>1, <2>2, <2>4, RecommendationCommanded
<1>11. CASE j.command = "resolve"
  <2>1. PICK s \in {"resolved", "skipped"} : e = Resolve(db, j.row, s)
    BY <1>11 DEF Stated
  <2> QED
    BY <1>11, <2>1, ResolutionCommanded
<1>12. CASE j.command \in {"pause", "resume"}
  <2>1. e = AddPoint(db, j.command, j.n, j.context)
    BY <1>12 DEF Stated
  <2>2. Sound(AddPoint(db, j.command, j.n, j.context), u) /\ Grown(db, AddPoint(db, j.command, j.n, j.context)) /\ Commanded(db, AddPoint(db, j.command, j.n, j.context))
    BY <1>1, <1>12, PointAdded
  <2> QED
    BY <2>1, <2>2
<1>13. CASE j.command = "run-new"
  <2>1. e = [db EXCEPT !.status = "abandoned"]
    BY <1>13 DEF Stated
  <2> QED
    BY <2>1, StatusWritten
<1> QED
  BY <1>1, <1>3, <1>4, <1>5, <1>6, <1>7, <1>8, <1>9, <1>10, <1>11, <1>12, <1>13 DEF Commands

-------------------------------------------------------------------------------
(* Transitions *)

\* What holds at the start, and further whenever it held, holds up to n.
LEMMA Upwards ==
  ASSUME NEW n \in Nat, NEW S, 0 \in S, \A k \in 1..n : k - 1 \in S => k \in S
  PROVE  0..n \subseteq S
<1> SUFFICES ASSUME ~(0..n \subseteq S)
             PROVE  FALSE
  OBVIOUS
<1> DEFINE T == {k \in 0..n : k \notin S}
<1>1. T \in SUBSET (0..n) /\ T # {}
  OBVIOUS
<1> HIDE DEF T
<1>2. PICK m \in T : \A y \in T : m <= y
  BY <1>1, Least
<1>3. m \in 0..n /\ m \notin S
  BY <1>2 DEF T
<1>4. m \in 1..n
  BY <1>3
<1>5. m - 1 \in 0..n /\ ~(m <= m - 1)
  BY <1>4
<1>6. m - 1 \in S
  BY <1>2, <1>5 DEF T
<1> QED
  BY <1>3, <1>4, <1>6

Started(d, x) == [ok |-> TRUE, db |-> d, context |-> x]

Track(g, d, x, moves, at, time) ==
  /\ g[0] = Started(d, x)
  /\ \A k \in 1..Len(moves) : g[k] = Moved(g[k - 1], moves[k], at, time)
  /\ Transitions(d, x, moves, at, time) = g[Len(moves)]

\* Transitions are steps, each from the result of the one before.
LEMMA Steps ==
  ASSUME NEW d, NEW x, NEW moves \in Seq(Moves), NEW at, NEW time
  PROVE  \E g : Track(g, d, x, moves, at, time)
<1> DEFINE n == Len(moves)
           Next1(f, k) == IF k = 0 THEN Started(d, x) ELSE Moved(f[k - 1], moves[k], at, time)
           Is(f, m) == f = [k \in 0..m |-> Next1(f, k)]
           S == {m \in 0..n : \E f : Is(f, m)}
<1>1. n \in Nat
  OBVIOUS
<1>2. 0 \in S
  <2> DEFINE f == [k \in 0..0 |-> Started(d, x)]
  <2>1. \A k \in 0..0 : k = 0
    OBVIOUS
  <2>2. Is(f, 0)
    BY <2>1
  <2>3. 0 \in 0..n
    BY <1>1
  <2> HIDE DEF f, Is
  <2> QED
    BY <2>2, <2>3
<1>3. \A m \in 1..n : m - 1 \in S => m \in S
  <2> SUFFICES ASSUME NEW m \in 1..n, NEW f, Is(f, m - 1)
               PROVE  m \in 0..n /\ \E h : Is(h, m)
    OBVIOUS
  <2> DEFINE h == [k \in 0..m |-> IF k = m THEN Moved(f[m - 1], moves[m], at, time) ELSE f[k]]
  <2>1. m \in 0..n /\ m # 0 /\ \A k \in 0..m : k # m => k \in 0..(m - 1)
    BY <1>1
  <2>2. \A k \in 0..m : h[k] = Next1(h, k)
    <3> SUFFICES ASSUME NEW k \in 0..m
                 PROVE  h[k] = Next1(h, k)
      OBVIOUS
    <3>1. k # 0 => k - 1 \in 0..m /\ k - 1 # m
      BY <1>1
    <3>2. k # 0 => h[k - 1] = f[k - 1]
      BY <3>1
    <3>3. CASE k = m
      BY <2>1, <3>2, <3>3
    <3>4. CASE k # m
      <4>1. k \in 0..(m - 1) /\ h[k] = f[k]
        BY <2>1, <3>4
      <4>2. f[k] = Next1(f, k)
        BY <4>1
      <4> QED
        BY <3>2, <4>1, <4>2
    <3> QED
      BY <3>3, <3>4
  <2>3. Is(h, m)
    <3> DEFINE h2 == [k \in 0..m |-> Next1(h, k)]
    <3>1. h = h2
      <4> HIDE DEF Next1
      <4> QED
        BY <2>2
    <3> QED
      BY <3>1
  <2> QED
    BY <2>1, <2>3
<1>4. \E f : Is(f, n)
  <2>1. n \in S
    <3> HIDE DEF S, n
    <3>1. 0..n \subseteq S
      BY <1>1, <1>2, <1>3, Upwards
    <3>2. n \in 0..n
      BY <1>1
    <3> QED
      BY <3>1, <3>2
  <2> QED
    BY <2>1
<1> DEFINE g == CHOOSE f : Is(f, n)
<1>5. Is(g, n)
  BY <1>4
<1>6. Transitions(d, x, moves, at, time) = g[n]
  BY DEF Transitions, Started
<1>7. \A k \in 0..n : g[k] = Next1(g, k)
  <2> HIDE DEF g, Next1
  <2> QED
    BY <1>5
<1> HIDE DEF g
<1>8. g[0] = Started(d, x)
  BY <1>1, <1>7
<1>9. \A k \in 1..n : g[k] = Moved(g[k - 1], moves[k], at, time)
  BY <1>1, <1>7
<1> QED
  BY <1>6, <1>8, <1>9 DEF Track

\* The last turn of a combat has the greatest number, ...
LEMMA LastTurnIs ==
  ASSUME NEW d \in Tables, NEW c, TurnsOf(d, c) # {}
  PROVE  /\ LastTurn(d, c) \in TurnsOf(d, c)
         /\ \A v \in TurnsOf(d, c) : d.turns[v].number <= d.turns[LastTurn(d, c)].number
<1> DEFINE n == Len(d.turns)
           f == [t \in 1..n |-> d.turns[t].number]
<1>1. d.turns \in Seq(Turns) /\ n \in Nat /\ DOMAIN d.turns = 1..n
  BY TablesTyped
<1>2. TurnsOf(d, c) \in SUBSET (1..n)
  BY <1>1 DEF TurnsOf
<1>3. \A t \in 1..n : d.turns[t].number \in Nat
  <2>1. \A t \in 1..n : d.turns[t] \in Turns
    BY <1>1, Positions
  <2> QED
    BY <2>1 DEF Turns
<1>4. \A t \in 1..n : f[t] = d.turns[t].number
  OBVIOUS
<1> HIDE DEF f, n
<1>5. PICK t \in TurnsOf(d, c) : \A v \in TurnsOf(d, c) : f[v] <= f[t]
  <2>1. TurnsOf(d, c) # {}
    OBVIOUS
  <2>2. \A i \in TurnsOf(d, c) : f[i] \in Nat
    BY <1>2, <1>3, <1>4
  <2> QED
    BY <1>1, <1>2, <2>1, <2>2, Greatest
<1>6. \E w \in TurnsOf(d, c) : \A v \in TurnsOf(d, c) : d.turns[v].number <= d.turns[w].number
  BY <1>2, <1>4, <1>5
<1> QED
  BY <1>6 DEF LastTurn

\* ... and is the only one that has.
LEMMA LastTurnOnly ==
  ASSUME NEW d, NEW u, Sound(d, u), NEW c, NEW t \in TurnsOf(d, c),
         \A v \in TurnsOf(d, c) : d.turns[v].number <= d.turns[t].number
  PROVE  LastTurn(d, c) = t
<1> DEFINE w == LastTurn(d, c)
<1>1. d \in Tables /\ Connected(d, u)
  BY DEF Sound
<1>2. w \in TurnsOf(d, c) /\ d.turns[t].number <= d.turns[w].number
  BY <1>1, LastTurnIs
<1> HIDE DEF w
<1>3. d.turns[w].number <= d.turns[t].number
  BY <1>2
<1>4. w \in DOMAIN d.turns /\ t \in DOMAIN d.turns /\ d.turns[w].combat = c /\ d.turns[t].combat = c
  BY <1>2 DEF TurnsOf
<1>5. d.turns[w] \in Turns /\ d.turns[t] \in Turns
  BY <1>1, <1>4, TablesTyped, Positions
<1>6. d.turns[w].number \in Nat /\ d.turns[t].number \in Nat
  BY <1>5 DEF Turns
<1>7. d.turns[w].number = d.turns[t].number
  BY <1>2, <1>3, <1>6
<1>8. w = t
  BY <1>1, <1>4, <1>7 DEF Connected
<1> QED
  BY <1>8 DEF w

\* The next number of a combat's turns is above all others.
LEMMA NextNumber ==
  ASSUME NEW d \in Tables, NEW c
  PROVE  LET m == Max(Numbers(d, c) \cup {0}) + 1 IN
         /\ m \in Nat /\ m \notin Numbers(d, c)
         /\ \A t \in TurnsOf(d, c) : d.turns[t].number <= m
<1> DEFINE S == Numbers(d, c) \cup {0}
<1>1. \A t \in TurnsOf(d, c) : d.turns[t].number \in Nat
  <2>1. d.turns \in Seq(Turns)
    BY TablesTyped
  <2>2. \A t \in DOMAIN d.turns : d.turns[t] \in Turns
    BY <2>1, Positions
  <2> QED
    BY <2>2 DEF TurnsOf, Turns
<1>2. \E x \in S : \A y \in S : x >= y
  <2>1. CASE TurnsOf(d, c) = {}
    BY <2>1 DEF Numbers
  <2>2. CASE TurnsOf(d, c) # {}
    <3> DEFINE x == d.turns[LastTurn(d, c)].number
    <3>1. x \in Numbers(d, c) /\ x \in Nat /\ \A t \in TurnsOf(d, c) : d.turns[t].number <= x
      BY <1>1, <2>2, LastTurnIs DEF Numbers
    <3> HIDE DEF x
    <3>2. \A y \in S : x >= y
      BY <1>1, <3>1 DEF Numbers
    <3> QED
      BY <3>1, <3>2
  <2> QED
    BY <2>1, <2>2
<1>3. Max(S) \in S /\ \A y \in S : Max(S) >= y
  BY <1>2 DEF Max
<1>4. S \subseteq Nat
  BY <1>1 DEF Numbers
<1> DEFINE k == Max(S)
<1>5. k \in Nat /\ \A y \in S : y \in Nat /\ k >= y
  BY <1>3, <1>4
<1> HIDE DEF k
<1>6. k + 1 \in Nat /\ k + 1 \notin S /\ \A y \in S : y <= k + 1
  BY <1>5
<1>7. \A t \in TurnsOf(d, c) : d.turns[t].number \in S
  BY DEF Numbers
<1> QED
  BY <1>6, <1>7 DEF k

\* The last row is the newest, if no time is later than its own.
LEMMA NewestIsLast ==
  ASSUME NEW s, NEW n \in Nat \ {0}, DOMAIN s = 1..n, \A i \in 1..n : s[i].at \in Nat,
         \A i \in 1..n : s[i].at <= s[n].at
  PROVE  Newest(s) = n
<1> DEFINE S == {i \in DOMAIN s : \A j \in DOMAIN s : s[j].at <= s[i].at}
<1>1. n \in S /\ \A y \in S : n >= y
  OBVIOUS
<1>2. \A x \in S : (\A y \in S : x >= y) => x = n
  <2> SUFFICES ASSUME NEW x \in S, \A y \in S : x >= y
               PROVE  x = n
    OBVIOUS
  <2>1. x \in 1..n /\ x >= n
    BY <1>1
  <2> QED
    BY <2>1
<1>3. Newest(s) = CHOOSE x \in S : \A y \in S : x >= y
  BY DEF Newest, Max
<1> HIDE DEF S
<1> QED
  BY <1>1, <1>2, <1>3

\* Tables e and place y follow d by a transition: all else is as it was, and y
\* is the current place.
Follows(d, e, y, at, time) ==
  /\ y \in Places /\ Sound(e, time) /\ Grown(d, e)
  /\ e.status = d.status /\ e.points = d.points /\ e.decs = d.decs /\ e.rows = d.rows
  /\ Current(e, y, at)

\* Outside of a combat there is no turn.
LEMMA NoTurnOutside ==
  ASSUME NEW d, NEW u \in Nat, Sound(d, u), NEW x \in Places, NEW at \in Nat, Current(d, x, at), x.combat = 0
  PROVE  x.turn = 0
<1> SUFFICES ASSUME x.turn # 0
             PROVE  FALSE
  OBVIOUS
<1>1. x.turn \in DOMAIN d.turns /\ d.turns[x.turn].combat = 0
  BY DEF Current, Linked
<1>2. 0 \in DOMAIN d.combats
  BY <1>1 DEF Sound, Connected
<1>3. Len(d.combats) \in Nat /\ DOMAIN d.combats = 1..Len(d.combats)
  BY TablesTyped DEF Sound
<1> QED
  BY <1>2, <1>3

\* A turn ends, ...
LEMMA TurnLeft ==
  ASSUME NEW d, NEW u \in Nat, Sound(d, u), NEW x \in Places, NEW at \in Nat, Current(d, x, at),
         x.turn # 0
  PROVE  Follows(d, EndTurn(d, x.turn), [x EXCEPT !.turn = 0], at, u)
<1> DEFINE e == EndTurn(d, x.turn)
           y == [x EXCEPT !.turn = 0]
<1>1. y \in Places /\ y.floor = x.floor /\ y.combat = x.combat /\ y.turn = 0
  BY DEF Places
<1>2. x.turn \in DOMAIN d.turns
  BY DEF Current, Linked
<1>3. /\ Sound(e, u) /\ Grown(d, e)
      /\ e.status = d.status /\ e.floors = d.floors /\ e.combats = d.combats
      /\ e.points = d.points /\ e.decs = d.decs /\ e.rows = d.rows
      /\ DOMAIN e.turns = DOMAIN d.turns
      /\ e.turns[x.turn].open = FALSE
      /\ \A v \in DOMAIN d.turns :
           /\ e.turns[v].combat = d.turns[v].combat /\ e.turns[v].number = d.turns[v].number
           /\ e.turns[v].at = d.turns[v].at
  BY <1>2, TurnEnded, ZenonT(60)
<1> HIDE DEF e, y
<1>4. Linked(e, y)
  BY <1>1, <1>3 DEF Current, Linked
<1>5. OpenCombats(e) = IF y.combat = 0 THEN {} ELSE {y.combat}
  BY <1>1, <1>3 DEF Current, OpenCombats
<1>6. ASSUME y.combat # 0, TurnsOf(e, y.combat) # {}
      PROVE  LET t == LastTurn(e, y.combat) IN ~e.turns[t].open /\ e.turns[t].at <= at
  <2> DEFINE t == LastTurn(d, x.combat)
  <2>1. TurnsOf(e, y.combat) = TurnsOf(d, x.combat)
    BY <1>1, <1>3 DEF TurnsOf
  <2>2. t \in TurnsOf(d, x.combat) /\ \A v \in TurnsOf(d, x.combat) : d.turns[v].number <= d.turns[t].number
    BY <1>6, <2>1, LastTurnIs DEF Sound
  <2>3. x.turn = (IF d.turns[t].open THEN t ELSE 0) /\ d.turns[t].at <= at
    BY <1>1, <1>6, <2>1 DEF Current
  <2> HIDE DEF t
  <2>4. t = x.turn
    BY <2>3
  <2>5. \A v \in TurnsOf(e, y.combat) : e.turns[v].number <= e.turns[t].number
    BY <1>3, <2>1, <2>2 DEF TurnsOf
  <2>6. LastTurn(e, y.combat) = t
    BY <1>3, <2>1, <2>2, <2>5, LastTurnOnly
  <2> QED
    BY <1>2, <1>3, <2>3, <2>4, <2>6
<1>7. Current(e, y, at)
  BY <1>1, <1>3, <1>4, <1>5, <1>6 DEF Current
<1> QED
  BY <1>1, <1>3, <1>7 DEF Follows, e, y

\* ... or begins, ...
LEMMA TurnEntered ==
  ASSUME NEW d, NEW u \in Nat, Sound(d, u), NEW x \in Places, NEW at \in Nat, Current(d, x, at),
         x.combat # 0
  PROVE  Follows(d, AddTurn(d, x.combat, Max(Numbers(d, x.combat) \cup {0}) + 1, at),
                 [x EXCEPT !.turn = Len(d.turns) + 1], at, u)
<1> DEFINE m == Max(Numbers(d, x.combat) \cup {0}) + 1
           n == Len(d.turns)
           e == AddTurn(d, x.combat, m, at)
           y == [x EXCEPT !.turn = n + 1]
<1>1. d \in Tables /\ n \in Nat /\ DOMAIN d.turns = 1..n
  BY TablesTyped DEF Sound
<1>2. /\ m \in Nat /\ m \notin Numbers(d, x.combat)
      /\ \A t \in TurnsOf(d, x.combat) : d.turns[t].number <= m
  BY <1>1, NextNumber
<1> HIDE DEF m
<1>3. y \in Places /\ y.floor = x.floor /\ y.combat = x.combat /\ y.turn = n + 1
  BY <1>1 DEF Places
<1>4. x.combat \in DOMAIN d.combats
  BY DEF Current, Linked
<1>5. /\ Sound(e, u) /\ Grown(d, e)
      /\ e.status = d.status /\ e.floors = d.floors /\ e.combats = d.combats
      /\ e.points = d.points /\ e.decs = d.decs /\ e.rows = d.rows
      /\ DOMAIN e.turns = 1..(n + 1)
      /\ \A t \in 1..n : e.turns[t] = d.turns[t]
      /\ e.turns[n + 1] = [combat |-> x.combat, number |-> m, at |-> at, open |-> TRUE]
  BY <1>2, <1>4, TurnAdded
<1> HIDE DEF e, y, n
<1>6. n + 1 \in TurnsOf(e, y.combat)
  BY <1>1, <1>3, <1>5 DEF TurnsOf
<1>7. \A v \in TurnsOf(e, y.combat) : e.turns[v].number <= e.turns[n + 1].number
  <2> SUFFICES ASSUME NEW v \in TurnsOf(e, y.combat)
               PROVE  e.turns[v].number <= m
    BY <1>5
  <2>1. v \in 1..(n + 1) /\ e.turns[v].combat = x.combat
    BY <1>3, <1>5 DEF TurnsOf
  <2>2. CASE v = n + 1
    BY <1>2, <1>5, <2>2
  <2>3. CASE v # n + 1
    <3>1. v \in 1..n /\ e.turns[v] = d.turns[v]
      BY <1>1, <1>5, <2>1, <2>3
    <3>2. v \in TurnsOf(d, x.combat)
      BY <1>1, <2>1, <3>1 DEF TurnsOf
    <3> QED
      BY <1>2, <3>1, <3>2
  <2> QED
    BY <2>2, <2>3
<1>8. LastTurn(e, y.combat) = n + 1
  BY <1>5, <1>6, <1>7, LastTurnOnly
<1>9. Linked(e, y)
  BY <1>1, <1>3, <1>5 DEF Current, Linked
<1>10. OpenCombats(e) = IF y.combat = 0 THEN {} ELSE {y.combat}
  BY <1>3, <1>5 DEF Current, OpenCombats
<1>11. e.turns[n + 1].open /\ e.turns[n + 1].at <= at
  BY <1>5
<1>12. Current(e, y, at)
  BY <1>3, <1>5, <1>6, <1>8, <1>9, <1>10, <1>11 DEF Current
<1> QED
  BY <1>3, <1>5, <1>12 DEF Follows, e, y, m, n

\* ... a combat ends, ...
LEMMA CombatLeft ==
  ASSUME NEW d, NEW u \in Nat, Sound(d, u), NEW x \in Places, NEW at \in Nat, Current(d, x, at),
         x.combat # 0, x.turn = 0
  PROVE  Follows(d, EndCombat(d, x.combat), [x EXCEPT !.combat = 0], at, u)
<1> DEFINE e == EndCombat(d, x.combat)
           y == [x EXCEPT !.combat = 0]
<1>1. y \in Places /\ y.floor = x.floor /\ y.combat = 0 /\ y.turn = 0
  BY DEF Places
<1>2. x.combat \in DOMAIN d.combats
  BY DEF Current, Linked
<1>3. /\ Sound(e, u) /\ Grown(d, e)
      /\ e.status = d.status /\ e.floors = d.floors /\ e.turns = d.turns
      /\ e.points = d.points /\ e.decs = d.decs /\ e.rows = d.rows
      /\ DOMAIN e.combats = DOMAIN d.combats
      /\ e.combats[x.combat].open = FALSE
      /\ \A k \in DOMAIN d.combats : k # x.combat => e.combats[k] = d.combats[k]
  BY <1>2, CombatEnded, ZenonT(60)
<1> HIDE DEF e, y
<1>4. Linked(e, y)
  BY <1>1, <1>3 DEF Current, Linked
<1>5. OpenCombats(e) = {}
  <2>1. OpenCombats(d) = {x.combat}
    BY DEF Current
  <2>2. \A k \in DOMAIN d.combats : k # x.combat => ~d.combats[k].open
    BY <2>1 DEF OpenCombats
  <2> QED
    BY <1>3, <2>2 DEF OpenCombats
<1>6. Current(e, y, at)
  BY <1>1, <1>3, <1>4, <1>5 DEF Current
<1> QED
  BY <1>1, <1>3, <1>6 DEF Follows, e, y

\* ... or begins, ...
LEMMA CombatEntered ==
  ASSUME NEW d, NEW u \in Nat, Sound(d, u), NEW x \in Places, NEW at \in Nat, Current(d, x, at),
         x.combat = 0
  PROVE  Follows(d, AddCombat(d, x.floor, at), [x EXCEPT !.combat = Len(d.combats) + 1], at, u)
<1> DEFINE n == Len(d.combats)
           e == AddCombat(d, x.floor, at)
           y == [x EXCEPT !.combat = n + 1]
<1>1. d \in Tables /\ Connected(d, u) /\ n \in Nat /\ DOMAIN d.combats = 1..n
  BY TablesTyped DEF Sound
<1>2. x.turn = 0
  BY NoTurnOutside
<1>3. y \in Places /\ y.floor = x.floor /\ y.combat = n + 1 /\ y.turn = 0 /\ y.combat # 0
  BY <1>1, <1>2 DEF Places
<1>4. x.floor \in DOMAIN d.floors
  BY DEF Current, Linked
<1>5. /\ Sound(e, u) /\ Grown(d, e)
      /\ e.status = d.status /\ e.floors = d.floors /\ e.turns = d.turns
      /\ e.points = d.points /\ e.decs = d.decs /\ e.rows = d.rows
      /\ DOMAIN e.combats = 1..(n + 1)
      /\ \A c \in 1..n : e.combats[c] = d.combats[c]
      /\ e.combats[n + 1] = [floor |-> x.floor, at |-> at, open |-> TRUE]
  BY <1>4, CombatAdded
<1> HIDE DEF e, y, n
<1>6. Linked(e, y)
  BY <1>1, <1>3, <1>5 DEF Current, Linked
<1>7. OpenCombats(e) = {n + 1}
  <2>1. \A c \in 1..n : ~d.combats[c].open
    BY <1>1 DEF Current, OpenCombats
  <2>2. \A c : c \in 1..(n + 1) <=> (c \in 1..n \/ c = n + 1)
    BY <1>1
  <2> QED
    BY <1>5, <2>1, <2>2 DEF OpenCombats
<1>8. TurnsOf(e, y.combat) = {}
  <2> SUFFICES ASSUME NEW t \in DOMAIN d.turns, d.turns[t].combat = n + 1
               PROVE  FALSE
    BY <1>3, <1>5 DEF TurnsOf
  <2>1. n + 1 \in 1..n
    BY <1>1 DEF Connected
  <2> QED
    BY <1>1, <2>1
<1>9. Current(e, y, at)
  BY <1>3, <1>5, <1>6, <1>7, <1>8 DEF Current
<1> QED
  BY <1>3, <1>5, <1>9 DEF Follows, e, y, n

\* ... or the next floor is entered.
LEMMA FloorEntered ==
  ASSUME NEW d, NEW u \in Nat, Sound(d, u), NEW x \in Places, NEW at \in Nat, Current(d, x, at),
         x.combat = 0
  PROVE  Follows(d, AddFloor(IF d.floors[x.floor].ends = 0 THEN EndFloor(d, x.floor) ELSE d, u),
                 [x EXCEPT !.floor = Len(d.floors) + 1], at, u)
<1> DEFINE n == Len(d.floors)
           c == IF d.floors[x.floor].ends = 0 THEN EndFloor(d, x.floor) ELSE d
           e == AddFloor(c, u)
           y == [x EXCEPT !.floor = n + 1]
<1>1. d \in Tables /\ n \in Nat /\ DOMAIN d.floors = 1..n
  BY TablesTyped DEF Sound
<1>2. x.turn = 0
  BY NoTurnOutside
<1>3. y \in Places /\ y.floor = n + 1 /\ y.combat = 0 /\ y.turn = 0
  BY <1>1, <1>2 DEF Places
<1>4. x.floor \in DOMAIN d.floors
  BY DEF Current, Linked
<1>5. /\ Sound(c, u) /\ Grown(d, c) /\ Len(c.floors) = n
      /\ c.status = d.status /\ c.combats = d.combats /\ c.turns = d.turns
      /\ c.points = d.points /\ c.decs = d.decs /\ c.rows = d.rows
  <2>1. Grown(d, d)
    BY NothingWritten
  <2> QED
    BY <1>4, <2>1, FloorEnded
<1> HIDE DEF c, y
<1>6. u \in 0..u
  OBVIOUS
<1>7. /\ Sound(e, u) /\ Grown(c, e)
      /\ e.status = c.status /\ e.combats = c.combats /\ e.turns = c.turns
      /\ e.points = c.points /\ e.decs = c.decs /\ e.rows = c.rows
      /\ DOMAIN e.floors = 1..(n + 1)
      /\ e.floors[n + 1].at = u
  BY <1>5, <1>6, FloorAdded
<1> HIDE DEF e
<1>8. Grown(d, e)
  BY <1>1, <1>5, <1>7, GrownFurther DEF Sound
<1> HIDE DEF n
<1>9. Newest(e.floors) = n + 1
  <2>1. e \in Tables /\ Connected(e, u)
    BY <1>7 DEF Sound
  <2>2. \A i \in 1..(n + 1) : e.floors[i] \in Floors
    BY <1>7, <2>1, TablesTyped, Positions
  <2>3. \A i \in 1..(n + 1) : e.floors[i].at \in Nat
    BY <2>2 DEF Floors
  <2>4. \A i \in 1..(n + 1) : e.floors[i].at <= e.floors[n + 1].at
    BY <1>7, <2>1 DEF Connected
  <2>5. n + 1 \in Nat \ {0}
    BY <1>1
  <2> QED
    BY <1>7, <2>3, <2>4, <2>5, NewestIsLast
<1>10. n + 1 \in 1..(n + 1)
  BY <1>1
<1>11. Linked(e, y)
  BY <1>3, <1>7, <1>10 DEF Linked
<1>12. OpenCombats(e) = {}
  BY <1>5, <1>7 DEF Current, OpenCombats
<1>13. Current(e, y, at)
  BY <1>3, <1>5, <1>7, <1>9, <1>11, <1>12 DEF Current
<1> QED
  BY <1>3, <1>5, <1>7, <1>8, <1>13 DEF Follows, e, y, c, n

\* The sum of the lemmas: an allowed transition.
LEMMA WrittenFollows ==
  ASSUME NEW d, NEW u \in Nat, Sound(d, u), NEW x \in Places, NEW at \in Nat, Current(d, x, at),
         NEW m \in Moves, Allowed(d, x, m)
  PROVE  Follows(d, Written(d, x, m, at, u), Entered(d, x, m), at, u)
<1>1. CASE m = "end_turn"
  <2>1. x.turn # 0
    BY <1>1 DEF Allowed
  <2>2. Written(d, x, m, at, u) = EndTurn(d, x.turn) /\ Entered(d, x, m) = [x EXCEPT !.turn = 0]
    BY <1>1 DEF Written, Entered
  <2>3. Follows(d, EndTurn(d, x.turn), [x EXCEPT !.turn = 0], at, u)
    BY <2>1, TurnLeft
  <2> QED
    BY <2>2, <2>3
<1>2. CASE m = "start_turn"
  <2> DEFINE e == AddTurn(d, x.combat, Max(Numbers(d, x.combat) \cup {0}) + 1, at)
             y == [x EXCEPT !.turn = Len(d.turns) + 1]
  <2>1. x.combat # 0
    BY <1>2 DEF Allowed
  <2>2. Written(d, x, m, at, u) = e /\ Entered(d, x, m) = y
    BY <1>2 DEF Written, Entered
  <2>3. Follows(d, e, y, at, u)
    BY <2>1, TurnEntered
  <2> QED
    BY <2>2, <2>3
<1>3. CASE m = "end_combat"
  <2>1. x.combat # 0 /\ x.turn = 0
    BY <1>3 DEF Allowed
  <2>2. Written(d, x, m, at, u) = EndCombat(d, x.combat) /\ Entered(d, x, m) = [x EXCEPT !.combat = 0]
    BY <1>3 DEF Written, Entered
  <2>3. Follows(d, EndCombat(d, x.combat), [x EXCEPT !.combat = 0], at, u)
    BY <2>1, CombatLeft
  <2> QED
    BY <2>2, <2>3
<1>4. CASE m = "start_combat"
  <2> DEFINE e == AddCombat(d, x.floor, at)
             y == [x EXCEPT !.combat = Len(d.combats) + 1]
  <2>1. x.combat = 0
    BY <1>4 DEF Allowed
  <2>2. Written(d, x, m, at, u) = e /\ Entered(d, x, m) = y
    BY <1>4 DEF Written, Entered
  <2>3. Follows(d, e, y, at, u)
    BY <2>1, CombatEntered
  <2> QED
    BY <2>2, <2>3
<1>5. CASE m = "advance_floor"
  <2> DEFINE e == AddFloor(IF d.floors[x.floor].ends = 0 THEN EndFloor(d, x.floor) ELSE d, u)
             y == [x EXCEPT !.floor = Len(d.floors) + 1]
  <2>1. x.combat = 0
    BY <1>5 DEF Allowed
  <2>2. Written(d, x, m, at, u) = e /\ Entered(d, x, m) = y
    BY <1>5 DEF Written, Entered
  <2>3. Follows(d, e, y, at, u)
    BY <2>1, FloorEntered
  <2> QED
    BY <2>2, <2>3
<1> QED
  BY <1>1, <1>2, <1>3, <1>4, <1>5 DEF Moves

\* What follows what follows, follows.
LEMMA FollowsFurther ==
  ASSUME NEW d, NEW e, NEW f, NEW y, NEW z, NEW at, NEW u, d \in Tables,
         Follows(d, e, y, at, u), Follows(e, f, z, at, u)
  PROVE  Follows(d, f, z, at, u)
<1>1. e \in Tables /\ f \in Tables
  BY DEF Follows, Sound
<1>2. Grown(d, e) /\ Grown(e, f)
  BY DEF Follows
<1>3. Grown(d, f)
  BY <1>1, <1>2, GrownFurther
<1> QED
  BY <1>3 DEF Follows

\* However many transitions: the tables stay sound, and the place that results
\* is the current one.
LEMMA TransitionsHold ==
  ASSUME NEW d, NEW u \in Nat, Sound(d, u), NEW x \in Places, NEW at \in Nat, Current(d, x, at),
         NEW moves \in Seq(Moves)
  PROVE  LET t == Transitions(d, x, moves, at, u) IN Follows(d, t.db, t.context, at, u)
<1> DEFINE n == Len(moves)
<1>1. PICK g : Track(g, d, x, moves, at, u)
  BY Steps
<1>2. n \in Nat /\ \A k \in 1..n : moves[k] \in Moves
  OBVIOUS
<1>3. d \in Tables /\ Grown(d, d)
  BY NothingWritten DEF Sound
<1> HIDE DEF n
<1> DEFINE S == {k \in 0..n : Follows(d, g[k].db, g[k].context, at, u)}
<1>4. 0 \in S
  <2>1. 0 \in 0..n
    BY <1>2
  <2>2. g[0].db = d /\ g[0].context = x
    BY <1>1 DEF Track, Started
  <2>3. Follows(d, d, x, at, u)
    BY <1>3 DEF Follows
  <2> QED
    BY <2>1, <2>2, <2>3
<1>5. \A k \in 1..n : k - 1 \in S => k \in S
  <2> SUFFICES ASSUME NEW k \in 1..n, k - 1 \in S
               PROVE  k \in S
    OBVIOUS
  <2> DEFINE e == g[k - 1].db
             y == g[k - 1].context
             m == moves[k]
  <2>1. Follows(d, e, y, at, u) /\ k \in 0..n /\ m \in Moves
    BY <1>2
  <2>2. g[k] = Moved(g[k - 1], m, at, u)
    BY <1>1 DEF Track, n
  <2>3. CASE g[k - 1].ok /\ Allowed(e, y, m)
    <3>1. g[k].db = Written(e, y, m, at, u) /\ g[k].context = Entered(e, y, m)
      BY <2>2, <2>3 DEF Moved
    <3> HIDE DEF e, y, m
    <3>2. Sound(e, u) /\ y \in Places /\ Current(e, y, at)
      BY <2>1 DEF Follows
    <3>3. Allowed(e, y, m)
      BY <2>3
    <3>4. Follows(e, Written(e, y, m, at, u), Entered(e, y, m), at, u)
      BY <2>1, <3>2, <3>3, WrittenFollows
    <3>5. Follows(d, Written(e, y, m, at, u), Entered(e, y, m), at, u)
      BY <1>3, <2>1, <3>4, FollowsFurther
    <3> QED
      BY <2>1, <3>1, <3>5
  <2>4. CASE ~(g[k - 1].ok /\ Allowed(e, y, m))
    <3>1. g[k] = [g[k - 1] EXCEPT !.ok = FALSE]
      BY <2>2, <2>4 DEF Moved
    <3>2. g[k].db = e /\ g[k].context = y
      BY <3>1
    <3> QED
      BY <2>1, <3>2
  <2> QED
    BY <2>3, <2>4
<1>6. n \in S
  <2> HIDE DEF S
  <2>1. 0..n \subseteq S
    BY <1>2, <1>4, <1>5, Upwards
  <2> QED
    BY <1>2, <2>1
<1> QED
  BY <1>1, <1>6 DEF Track, n


-------------------------------------------------------------------------------
(* When a transaction writes the clock may be later than when it was accepted, *)
(* and there may be a fact more; neither changes what its transitions do.      *)

Alike(s, t) ==
  /\ s.ok = t.ok /\ s.context = t.context
  /\ s.db.combats = t.db.combats /\ s.db.turns = t.db.turns /\ Len(s.db.floors) = Len(t.db.floors)

CombatsThen(d, x, m, at) ==
  CASE m = "end_combat" -> [d.combats EXCEPT ![x.combat].open = FALSE]
    [] m = "start_combat" -> Append(d.combats, [floor |-> x.floor, at |-> at, open |-> TRUE])
    [] OTHER -> d.combats
TurnsThen(d, x, m, at) ==
  CASE m = "end_turn" -> [d.turns EXCEPT ![x.turn].open = FALSE]
    [] m = "start_turn" ->
         Append(d.turns, [combat |-> x.combat, number |-> Max(Numbers(d, x.combat) \cup {0}) + 1,
                          at |-> at, open |-> TRUE])
    [] OTHER -> d.turns

\* What a transition writes where.
LEMMA WrittenWhere ==
  ASSUME NEW d, NEW u \in Nat, Sound(d, u), NEW x \in Places, NEW at \in Nat, Current(d, x, at),
         NEW m \in Moves, Allowed(d, x, m)
  PROVE  LET e == Written(d, x, m, at, u) IN
         /\ e.combats = CombatsThen(d, x, m, at) /\ e.turns = TurnsThen(d, x, m, at)
         /\ Len(e.floors) = IF m = "advance_floor" THEN Len(d.floors) + 1 ELSE Len(d.floors)
<1>1. d \in Tables
  BY DEF Sound
<1>2. CASE m = "end_turn"
  BY <1>1, <1>2 DEF Written, EndTurn, Tables, CombatsThen, TurnsThen
<1>3. CASE m = "start_turn"
  BY <1>1, <1>3 DEF Written, AddTurn, Tables, CombatsThen, TurnsThen
<1>4. CASE m = "end_combat"
  BY <1>1, <1>4 DEF Written, EndCombat, Tables, CombatsThen, TurnsThen
<1>5. CASE m = "start_combat"
  BY <1>1, <1>5 DEF Written, AddCombat, Tables, CombatsThen, TurnsThen
<1>6. CASE m = "advance_floor"
  <2> DEFINE c == IF d.floors[x.floor].ends = 0 THEN EndFloor(d, x.floor) ELSE d
             e == AddFloor(c, u)
  <2>1. Written(d, x, m, at, u) = e
    BY <1>6 DEF Written
  <2>2. x.floor \in DOMAIN d.floors
    BY DEF Current, Linked
  <2>3. Sound(c, u) /\ Len(c.floors) = Len(d.floors) /\ c.combats = d.combats /\ c.turns = d.turns
    BY <2>2, FloorEnded
  <2> HIDE DEF c
  <2>4. u \in 0..u
    OBVIOUS
  <2>5. Len(e.floors) = Len(c.floors) + 1 /\ e.combats = c.combats /\ e.turns = c.turns
    BY <2>3, <2>4, FloorAdded
  <2> QED
    BY <1>6, <2>1, <2>3, <2>5 DEF CombatsThen, TurnsThen
<1> QED
  BY <1>2, <1>3, <1>4, <1>5, <1>6 DEF Moves

\* The next transition is allowed or not, and leads to the same place.
LEMMA MovedAlike ==
  ASSUME NEW s, NEW t, Alike(s, t), NEW m \in Moves, NEW at \in Nat, NEW u \in Nat, NEW v \in Nat,
         s.context \in Places,
         Sound(s.db, u), Current(s.db, s.context, at), Sound(t.db, v), Current(t.db, t.context, at)
  PROVE  Alike(Moved(s, m, at, u), Moved(t, m, at, v))
<1> DEFINE x == s.context
           d == s.db
           e == t.db
<1>1. /\ x = t.context /\ d.combats = e.combats /\ d.turns = e.turns /\ Len(d.floors) = Len(e.floors)
      /\ s.ok = t.ok
  BY DEF Alike
<1>2. Allowed(d, x, m) <=> Allowed(e, x, m)
  BY <1>1 DEF Allowed
<1>3. CASE s.ok /\ Allowed(d, x, m)
  <2>1. /\ Moved(s, m, at, u) = [ok |-> TRUE, db |-> Written(d, x, m, at, u), context |-> Entered(d, x, m)]
        /\ Moved(t, m, at, v) = [ok |-> TRUE, db |-> Written(e, x, m, at, v), context |-> Entered(e, x, m)]
    BY <1>1, <1>2, <1>3 DEF Moved
  <2>2. Entered(d, x, m) = Entered(e, x, m)
    BY <1>1 DEF Entered, Moves
  <2>3. Max(Numbers(d, x.combat) \cup {0}) = Max(Numbers(e, x.combat) \cup {0})
    BY <1>1 DEF Numbers, TurnsOf
  <2>4. x \in Places /\ Sound(d, u) /\ Current(d, x, at) /\ Sound(e, v) /\ Current(e, x, at)
    BY <1>1
  <2> HIDE DEF d, e, x
  <2> DEFINE d2 == Written(d, x, m, at, u)
             e2 == Written(e, x, m, at, v)
  <2>5. /\ d2.combats = CombatsThen(d, x, m, at) /\ d2.turns = TurnsThen(d, x, m, at)
        /\ Len(d2.floors) = IF m = "advance_floor" THEN Len(d.floors) + 1 ELSE Len(d.floors)
    BY <1>3, <2>4, WrittenWhere
  <2>6. /\ e2.combats = CombatsThen(e, x, m, at) /\ e2.turns = TurnsThen(e, x, m, at)
        /\ Len(e2.floors) = IF m = "advance_floor" THEN Len(e.floors) + 1 ELSE Len(e.floors)
    BY <1>2, <1>3, <2>4, WrittenWhere
  <2>7. CombatsThen(d, x, m, at) = CombatsThen(e, x, m, at) /\ TurnsThen(d, x, m, at) = TurnsThen(e, x, m, at)
    BY <1>1, <2>3 DEF CombatsThen, TurnsThen
  <2> HIDE DEF d2, e2
  <2> QED
    BY <1>1, <2>1, <2>2, <2>5, <2>6, <2>7 DEF Alike, d2, e2
<1>4. CASE ~(s.ok /\ Allowed(d, x, m))
  <2>1. Moved(s, m, at, u) = [s EXCEPT !.ok = FALSE] /\ Moved(t, m, at, v) = [t EXCEPT !.ok = FALSE]
    BY <1>1, <1>2, <1>4 DEF Moved
  <2> QED
    BY <2>1 DEF Alike
<1> QED
  BY <1>3, <1>4


\* So all transitions go through, or fail, in both, and lead to the same place.
LEMMA TransitionsAlike ==
  ASSUME NEW d, NEW u \in Nat, Sound(d, u), NEW e, NEW v \in Nat, Sound(e, v),
         NEW x \in Places, NEW at \in Nat, Current(d, x, at), Current(e, x, at),
         d.combats = e.combats, d.turns = e.turns, Len(d.floors) = Len(e.floors),
         NEW moves \in Seq(Moves)
  PROVE  Alike(Transitions(d, x, moves, at, u), Transitions(e, x, moves, at, v))
<1> DEFINE n == Len(moves)
<1>1. PICK g : Track(g, d, x, moves, at, u)
  BY Steps
<1>2. PICK h : Track(h, e, x, moves, at, v)
  BY Steps
<1>3. n \in Nat /\ \A k \in 1..n : moves[k] \in Moves
  OBVIOUS
<1> HIDE DEF n
<1> DEFINE Both(s, t) == /\ Alike(s, t) /\ s.context \in Places
                         /\ Sound(s.db, u) /\ Current(s.db, s.context, at)
                         /\ Sound(t.db, v) /\ Current(t.db, t.context, at)
           S == {k \in 0..n : Both(g[k], h[k])}
<1>4. 0 \in S
  <2>1. 0 \in 0..n
    BY <1>3
  <2>2. Both(g[0], h[0])
    BY <1>1, <1>2 DEF Track, Started, Alike
  <2> QED
    BY <2>1, <2>2
<1>5. \A k \in 1..n : k - 1 \in S => k \in S
  <2> SUFFICES ASSUME NEW k \in 1..n, k - 1 \in S
               PROVE  k \in S
    OBVIOUS
  <2> DEFINE s == g[k - 1]
             t == h[k - 1]
             m == moves[k]
  <2>1. Both(s, t) /\ k \in 0..n /\ m \in Moves
    BY <1>3
  <2>2. g[k] = Moved(s, m, at, u) /\ h[k] = Moved(t, m, at, v)
    BY <1>1, <1>2 DEF Track, n
  <2> HIDE DEF s, t, m
  <2>3. Alike(g[k], h[k])
    BY <2>1, <2>2, MovedAlike
  <2>4. s.ok = t.ok /\ s.context = t.context /\ (Allowed(s.db, s.context, m) <=> Allowed(t.db, t.context, m))
    BY <2>1 DEF Alike, Allowed
  <2>5. /\ g[k].context \in Places
        /\ Sound(g[k].db, u) /\ Current(g[k].db, g[k].context, at)
        /\ Sound(h[k].db, v) /\ Current(h[k].db, h[k].context, at)
    <3>1. CASE s.ok /\ Allowed(s.db, s.context, m)
      <4>1. /\ g[k].db = Written(s.db, s.context, m, at, u) /\ g[k].context = Entered(s.db, s.context, m)
            /\ h[k].db = Written(t.db, t.context, m, at, v) /\ h[k].context = Entered(t.db, t.context, m)
        BY <2>2, <2>4, <3>1 DEF Moved
      <4>2. Follows(s.db, g[k].db, g[k].context, at, u)
        BY <2>1, <3>1, <4>1, WrittenFollows
      <4>3. Follows(t.db, h[k].db, h[k].context, at, v)
        BY <2>1, <2>4, <3>1, <4>1, WrittenFollows
      <4> QED
        BY <4>2, <4>3 DEF Follows
    <3>2. CASE ~(s.ok /\ Allowed(s.db, s.context, m))
      <4>1. g[k] = [s EXCEPT !.ok = FALSE] /\ h[k] = [t EXCEPT !.ok = FALSE]
        BY <2>2, <2>4, <3>2 DEF Moved
      <4>2. g[k].db = s.db /\ g[k].context = s.context /\ h[k].db = t.db /\ h[k].context = t.context
        BY <4>1
      <4> QED
        BY <2>1, <4>2
    <3> QED
      BY <3>1, <3>2
  <2> QED
    BY <2>1, <2>3, <2>5
<1>6. n \in S
  <2> HIDE DEF S
  <2>1. 0..n \subseteq S
    BY <1>3, <1>4, <1>5, Upwards
  <2> QED
    BY <1>3, <2>1
<1> QED
  BY <1>1, <1>2, <1>6 DEF Track, n

-------------------------------------------------------------------------------
(* What waits *)

\* Revisions in order: who is up to an earlier one, and is not it, is not a later one.
LEMMA NeverBack ==
  ASSUME NEW a \in Revisions, NEW b \in Revisions, NEW c \in Revisions, Upto(a, b), Upto(b, c), a # b \/ b # c
  PROVE  a # c
<1> SUFFICES ASSUME a = c
             PROVE  FALSE
  OBVIOUS
<1>1. a = b
  BY UptoBothWays
<1>2. b = c
  BY UptoBothWays
<1> QED
  BY <1>1, <1>2

\* After what a command, or a pause, wrote: what waits is known, and has been
\* touched, unless it was only a checkpoint.
LEMMA CommandedKnown ==
  ASSUME NEW d \in Tables, NEW e \in Tables, NEW T, Known(d, T), Commanded(d, e)
  PROVE  Known(e, T \cup IF [e EXCEPT !.points = d.points] = d THEN {} ELSE Waiting(d))
<1> DEFINE T2 == T \cup IF [e EXCEPT !.points = d.points] = d THEN {} ELSE Waiting(d)
<1>1. \A i, k \in Waiting(e) : i = k
  BY DEF Known, Commanded
<1>2. ASSUME NEW i \in Waiting(e)
      PROVE  LET dec == e.decs[i] IN
             /\ dec.revision \in Revisions /\ Upto(dec.revision, Revision(e))
             /\ i \in T2 => dec.revision # Revision(e)
             /\ dec.born <= dec.points /\ dec.points <= Len(e.points)
             /\ \A k \in dec.born + 1 .. dec.points : e.points[k].kind = "pause"
  <2> DEFINE a == e.decs[i].revision
             b == e.decs[i].born
             m == e.decs[i].points
  <2>1. i \in Waiting(d) /\ a = d.decs[i].revision /\ b = d.decs[i].born /\ m = d.decs[i].points
    BY DEF Commanded
  <2>2. /\ a \in Revisions /\ Upto(a, Revision(d)) /\ (i \in T => a # Revision(d))
        /\ b <= m /\ m <= Len(d.points)
        /\ \A k \in b + 1 .. m : d.points[k].kind = "pause"
    BY <2>1 DEF Known
  <2>3. Revision(d) \in Revisions /\ Revision(e) \in Revisions /\ Upto(Revision(d), Revision(e))
    BY RevisionParts DEF Commanded
  <2>4. b \in Nat /\ m \in Nat
    <3>1. i \in DOMAIN e.decs
      BY DEF Waiting, Pending
    <3>2. e.decs[i] \in Decisions
      BY <3>1, TablesTyped
    <3> QED
      BY <3>2 DEF Decisions
  <2>5. Len(d.points) \in Nat /\ DOMAIN d.points = 1..Len(d.points) /\ Len(e.points) \in Nat
    BY TablesTyped
  <2>6. Len(d.points) <= Len(e.points) /\ \A k \in DOMAIN d.points : e.points[k] = d.points[k]
    BY DEF Commanded
  <2> HIDE DEF a, b, m
  <2>7. Upto(a, Revision(e))
    BY <2>2, <2>3, UptoFurther
  <2>8. i \in T2 => a # Revision(e)
    <3>1. CASE i \in T
      BY <2>2, <2>3, <3>1, NeverBack
    <3>2. CASE i \in T2 /\ i \notin T
      <4>1. [e EXCEPT !.points = d.points] # d
        BY <3>2
      <4>2. Revision(e) # Revision(d)
        BY <4>1 DEF Commanded
      <4> QED
        BY <2>2, <2>3, <4>2, NeverBack
    <3> QED
      BY <3>1, <3>2
  <2>9. m <= Len(e.points)
    BY <2>2, <2>4, <2>5, <2>6
  <2>10. \A k \in b + 1 .. m : e.points[k].kind = "pause"
    <3> SUFFICES ASSUME NEW k \in b + 1 .. m
                 PROVE  e.points[k].kind = "pause"
      OBVIOUS
    <3>1. k \in 1..Len(d.points)
      BY <2>2, <2>4, <2>5
    <3> QED
      BY <2>2, <2>5, <2>6, <3>1
  <2> QED
    BY <2>2, <2>7, <2>8, <2>9, <2>10 DEF a, b, m
<1> HIDE DEF T2
<1>3. Known(e, T2)
  BY <1>1, <1>2 DEF Known
<1> QED
  BY <1>3 DEF T2

\* One write after another.
LEMMA CommandedFurther ==
  ASSUME NEW d \in Tables, NEW c \in Tables, NEW e \in Tables, Commanded(d, c), Commanded(c, e)
  PROVE  Commanded(d, e)
<1>1. Revision(d) \in Revisions /\ Revision(c) \in Revisions /\ Revision(e) \in Revisions
  BY RevisionParts
<1>2. Upto(Revision(d), Revision(c)) /\ Upto(Revision(c), Revision(e))
  BY DEF Commanded
<1>3. Upto(Revision(d), Revision(e))
  BY <1>1, <1>2, UptoFurther
<1>4. Revision(e) = Revision(d) => [e EXCEPT !.points = d.points] = d
  <2> SUFFICES ASSUME Revision(e) = Revision(d)
               PROVE  [e EXCEPT !.points = d.points] = d
    OBVIOUS
  <2>1. Revision(c) = Revision(d)
    BY <1>1, <1>2, UptoBothWays
  <2>2. [c EXCEPT !.points = d.points] = d /\ [e EXCEPT !.points = c.points] = c
    BY <2>1 DEF Commanded
  <2>3. [[e EXCEPT !.points = c.points] EXCEPT !.points = d.points] = [e EXCEPT !.points = d.points]
    BY DEF Tables
  <2> QED
    BY <2>2, <2>3
<1>5. Waiting(e) \subseteq Waiting(d)
  BY DEF Commanded
<1>6. \A i \in Waiting(e) :
        /\ e.decs[i].revision = d.decs[i].revision
        /\ e.decs[i].born = d.decs[i].born /\ e.decs[i].points = d.decs[i].points
  BY DEF Commanded
<1>7. /\ Len(d.points) \in Nat /\ Len(c.points) \in Nat /\ Len(e.points) \in Nat
      /\ DOMAIN d.points = 1..Len(d.points) /\ DOMAIN c.points = 1..Len(c.points)
  BY TablesTyped
<1>8. Len(d.points) <= Len(e.points)
  BY <1>7 DEF Commanded
<1>9. \A k \in DOMAIN d.points : e.points[k] = d.points[k]
  <2> SUFFICES ASSUME NEW k \in DOMAIN d.points
               PROVE  e.points[k] = d.points[k]
    OBVIOUS
  <2>1. Len(d.points) <= Len(c.points)
    BY DEF Commanded
  <2>2. k \in DOMAIN c.points
    BY <1>7, <2>1
  <2> QED
    BY <2>2 DEF Commanded
<1>10. StockOnce(d) => StockOnce(e)
  BY DEF Commanded
<1> QED
  BY <1>3, <1>4, <1>5, <1>6, <1>8, <1>9, <1>10 DEF Commanded

-------------------------------------------------------------------------------
(* Transactions *)

\* What requests are.
LEMMA RequestTyped ==
  ASSUME NEW r \in AllRequests
  PROVE  /\ r.kind \in {"decision", "outcome", "resume", "pause"} /\ r.at \in Nat
         /\ r.kind # "outcome" => r.context \in Places
         /\ r.kind = "outcome" =>
              /\ r.moves \in Seq(Moves) /\ r.stock \in BOOLEAN
              /\ r.status \in {"verified", "not_performed", "unknown"}
         /\ r.kind = "pause" => r.stock \in BOOLEAN
  BY DEF AllRequests

\* What a decision remembers is not part of the revision.
LEMMA MemoryAside ==
  ASSUME NEW d, NEW u \in Nat, Sound(d, u), NEW i \in DOMAIN d.decs, NEW q \in Decisions,
         q.status = d.decs[i].status, q.edits = d.decs[i].edits
  PROVE  Revision([d EXCEPT !.decs = [d.decs EXCEPT ![i] = q]]) = Revision(d)
<1> DEFINE e == [d EXCEPT !.decs = [d.decs EXCEPT ![i] = q]]
<1>1. /\ e.status = d.status /\ e.floors = d.floors /\ e.combats = d.combats /\ e.turns = d.turns
      /\ e.rows = d.rows
      /\ DOMAIN e.decs = DOMAIN d.decs /\ e.decs[i] = q
      /\ \A k \in DOMAIN d.decs : k # i => e.decs[k] = d.decs[k]
  BY DecisionChanged
<1> HIDE DEF e
<1>2. \A k \in DOMAIN d.decs : e.decs[k].status = d.decs[k].status /\ e.decs[k].edits = d.decs[k].edits
  BY <1>1
<1>3. [k \in DOMAIN e.decs |-> <<e.decs[k].status, e.decs[k].edits>>]
        = [k \in DOMAIN d.decs |-> <<d.decs[k].status, d.decs[k].edits>>]
  BY <1>1, <1>2
<1> QED
  BY <1>1, <1>3 DEF Revision, e

\* A decision remembers the tables as they are now.
LEMMA KeepsKnown ==
  ASSUME NEW d, NEW u \in Nat, Sound(d, u), NEW i \in DOMAIN d.decs, NEW at \in Nat
  PROVE  LET e == Remember(d, i, at) IN
         /\ Sound(e, u) /\ Grown(d, e) /\ (StockOnce(d) => StockOnce(e)) /\ Revision(e) = Revision(d)
         /\ e.status = d.status /\ e.floors = d.floors /\ e.combats = d.combats /\ e.turns = d.turns
         /\ e.points = d.points /\ e.rows = d.rows
         /\ Len(e.decs) = Len(d.decs) /\ DOMAIN e.decs = DOMAIN d.decs
         /\ e.decs[i].by = d.decs[i].by /\ e.decs[i].status = d.decs[i].status
         /\ e.decs[i].born = d.decs[i].born
         /\ e.decs[i].revision = Revision(d) /\ e.decs[i].points = Len(d.points)
         /\ \A k \in DOMAIN d.decs : k # i => e.decs[k] = d.decs[k]
<1> DEFINE c == d.decs[i]
           v == Revision(d)
           n == Len(d.points)
           q == [c EXCEPT !.at = at, !.revision = v, !.points = n]
           e == Remember(d, i, at)
<1>1. d \in Tables /\ c \in Decisions /\ d.decs \in Seq(Decisions) /\ n \in Nat
  BY TablesTyped DEF Sound
<1>2. v \in Revisions
  BY <1>1, RevisionParts
<1>3. e = [d EXCEPT !.decs = [d.decs EXCEPT ![i] = q]]
  <2>1. [d.decs EXCEPT ![i].at = at, ![i].revision = v, ![i].points = n] = [d.decs EXCEPT ![i] = q]
    <3> HIDE DEF v, n
    <3> QED
      BY <1>1
  <2>2. e = [d EXCEPT !.decs = [d.decs EXCEPT ![i].at = at, ![i].revision = v, ![i].points = n]]
    <3>1. e = [d EXCEPT !.decs[i].at = at, !.decs[i].revision = v, !.decs[i].points = n]
      BY DEF Remember
    <3> HIDE DEF v, n, e
    <3> QED
      BY <1>1, <3>1 DEF Tables
  <2> QED
    BY <2>1, <2>2
<1>4. /\ q \in Decisions /\ q.by = c.by /\ q.status = c.status /\ q.edits = c.edits /\ q.born = c.born
      /\ q.revision = v /\ q.points = n
  <2> HIDE DEF c, v, n
  <2> QED
    BY <1>1, <1>2 DEF Decisions
<1> HIDE DEF q, v, n, e
<1>5. Revision(e) = Revision(d)
  BY <1>3, <1>4, MemoryAside
<1>6. /\ Sound(e, u) /\ Grown(d, e) /\ (StockOnce(d) => StockOnce(e))
      /\ e.status = d.status /\ e.floors = d.floors /\ e.combats = d.combats /\ e.turns = d.turns
      /\ e.points = d.points /\ e.rows = d.rows
      /\ Len(e.decs) = Len(d.decs) /\ DOMAIN e.decs = DOMAIN d.decs /\ e.decs[i] = q
      /\ \A k \in DOMAIN d.decs : k # i => e.decs[k] = d.decs[k]
  BY <1>3, <1>4, DecisionChanged
<1> QED
  BY <1>4, <1>5, <1>6 DEF e, v, n

\* The checkpoints before a decision was made are left out of account.
LEMMA BornThen ==
  ASSUME NEW d, NEW u \in Nat, Sound(d, u), NEW i \in DOMAIN d.decs, NEW n \in Nat
  PROVE  LET e == [d EXCEPT !.decs[i].born = n] IN
         /\ Sound(e, u) /\ Grown(d, e) /\ (StockOnce(d) => StockOnce(e))
         /\ e.status = d.status /\ e.floors = d.floors /\ e.combats = d.combats /\ e.turns = d.turns
         /\ e.points = d.points /\ e.rows = d.rows
         /\ Len(e.decs) = Len(d.decs) /\ DOMAIN e.decs = DOMAIN d.decs
         /\ e.decs[i].by = d.decs[i].by /\ e.decs[i].status = d.decs[i].status /\ e.decs[i].born = n
         /\ \A k \in DOMAIN d.decs : k # i => e.decs[k] = d.decs[k]
<1> DEFINE c == d.decs[i]
           q == [c EXCEPT !.born = n]
           e == [d EXCEPT !.decs[i].born = n]
<1>1. d \in Tables /\ c \in Decisions /\ d.decs \in Seq(Decisions)
  BY TablesTyped DEF Sound
<1>2. e = [d EXCEPT !.decs = [d.decs EXCEPT ![i] = q]]
  BY <1>1 DEF Tables
<1>3. q \in Decisions /\ q.by = c.by /\ q.status = c.status /\ q.born = n
  <2> HIDE DEF c
  <2> QED
    BY <1>1 DEF Decisions
<1> HIDE DEF q, e
<1>4. /\ Sound(e, u) /\ Grown(d, e) /\ (StockOnce(d) => StockOnce(e))
      /\ e.status = d.status /\ e.floors = d.floors /\ e.combats = d.combats /\ e.turns = d.turns
      /\ e.points = d.points /\ e.rows = d.rows
      /\ Len(e.decs) = Len(d.decs) /\ DOMAIN e.decs = DOMAIN d.decs /\ e.decs[i] = q
      /\ \A k \in DOMAIN d.decs : k # i => e.decs[k] = d.decs[k]
  BY <1>2, <1>3, DecisionChanged
<1> QED
  BY <1>3, <1>4 DEF e

Kept(d, e, u, T) == Sound(e, u) /\ Grown(d, e) /\ StockOnce(e) /\ Known(e, T)

\* Where no outcome is part of what is added, and nothing new is pending, what a
\* decision did to the inventory is on record once still.
LEMMA StockStays ==
  ASSUME NEW d, NEW e, StockOnce(d), DOMAIN e.decs = DOMAIN d.decs, Pending(e) \subseteq Pending(d),
         \A i \in DOMAIN d.decs : StockOf(e, i) = StockOf(d, i)
  PROVE  StockOnce(e)
  BY DEF StockOnce

\* A fact that is not of a decision, or not of the inventory, is no stock of one.
LEMMA NoStockAdded ==
  ASSUME NEW d, NEW u \in Nat, Sound(d, u), NEW r \in Facts, r.dec \in {0} \cup DOMAIN d.decs,
         r.kind # "stock" \/ r.dec = 0,
         \A i \in DOMAIN d.rows :
           r.by = "play" \/ (r.by = "checkpoint" /\ d.rows[i].kind = "stock") => d.rows[i].at <= r.at,
         StockOnce(d)
  PROVE  StockOnce(AddRow(d, r))
<1> DEFINE e == AddRow(d, r)
           n == Len(d.rows)
<1>1. d \in Tables
  BY DEF Sound
<1>2. /\ e.decs = d.decs /\ e.rows[n + 1] = r /\ DOMAIN e.rows = 1..(n + 1)
      /\ \A i \in DOMAIN d.rows : e.rows[i] = d.rows[i]
  BY RowAdded
<1> HIDE DEF e
<1>3. n \in Nat /\ DOMAIN d.rows = 1..n /\ 0 \notin DOMAIN d.decs
  BY <1>1, TablesTyped
<1>4. \A i \in DOMAIN d.decs : StockOf(e, i) = StockOf(d, i)
  <2> SUFFICES ASSUME NEW i \in DOMAIN d.decs, NEW k
               PROVE  k \in StockOf(e, i) <=> k \in StockOf(d, i)
    OBVIOUS
  <2>1. k = n + 1 => k \notin StockOf(e, i) /\ k \notin StockOf(d, i)
    BY <1>2, <1>3 DEF StockOf
  <2>2. k # n + 1 => (k \in DOMAIN e.rows <=> k \in DOMAIN d.rows)
    BY <1>2, <1>3
  <2> QED
    BY <1>2, <2>1, <2>2 DEF StockOf
<1>5. Pending(e) = Pending(d)
  BY <1>2 DEF Pending
<1> QED
  BY <1>2, <1>4, <1>5, StockStays DEF e

\* Tables e are d with one more decision, of the player, that waits.
Decided(d, e, u) ==
  LET n == Len(d.decs) IN
  /\ Sound(e, u) /\ Grown(d, e) /\ StockOnce(e)
  /\ n \in Nat /\ DOMAIN d.decs = 1..n /\ DOMAIN e.decs = 1..(n + 1)
  /\ \A i \in 1..n : e.decs[i] = d.decs[i]
  /\ e.decs[n + 1].by = "play" /\ e.decs[n + 1].status = "recommended"

\* The player adds a recommendation.
LEMMA DecisionOfPlay ==
  ASSUME NEW d, NEW u \in Nat, Sound(d, u), StockOnce(d), NEW x \in Places, NEW at \in Nat
  PROVE  Decided(d, AddDecision(d, "play", x, at), u)
<1> DEFINE e == AddDecision(d, "play", x, at)
           n == Len(d.decs)
<1>1. "play" \in {"play", "command"}
  OBVIOUS
<1>2. e.decs[n + 1] = [by |-> "play", status |-> "recommended", edits |-> 0, context |-> x,
                       at |-> at, revision |-> <<>>, points |-> 0, born |-> 0]
  BY <1>1, DecisionAdded
<1>3. /\ Sound(e, u) /\ Grown(d, e) /\ StockOnce(e)
      /\ n \in Nat /\ DOMAIN d.decs = 1..n /\ DOMAIN e.decs = 1..(n + 1)
      /\ \A i \in 1..n : e.decs[i] = d.decs[i]
  BY <1>1, <1>2, DecisionAdded
<1> QED
  BY <1>2, <1>3 DEF Decided

\* A decision is prepared: it is the only one that waits, and remembers the tables.
LEMMA PreparedHolds ==
  ASSUME now \in Nat, Sound(db, now), StockOnce(db), touched \subseteq DOMAIN db.decs,
         NEW r \in AllRequests, r.kind = "decision", MayPrepare(r)
  PROVE  Kept(db, Prepared(r), now, touched)
<1> DEFINE f == Row("evidence", "play", r.at, 0)
           c == AddRow(db, f)
           x == r.context
           i == Len(db.decs) + 1
           d == AddDecision(c, "play", x, r.at)
           b == [d EXCEPT !.decs[i].born = Len(d.points)]
           e == Remember(b, i, r.at)
<1>1. r.at \in Nat /\ x \in Places
  BY RequestTyped
<1>2. /\ f \in Facts /\ f.dec = 0 /\ f.kind = "evidence"
      /\ \A k \in DOMAIN db.rows : db.rows[k].at <= f.at
  BY <1>1 DEF Row, Facts, MayPrepare, Chronological
<1>3. Pending(db) = {}
  BY DEF MayPrepare
<1>4. Prepared(r) = e
  BY DEF Prepared
<1> HIDE DEF f, x
<1>5. Sound(c, now) /\ Grown(db, c) /\ StockOnce(c) /\ c.decs = db.decs
  BY <1>2, RowAdded, NoStockAdded
<1> HIDE DEF c
<1>6. /\ Sound(d, now) /\ Grown(c, d) /\ StockOnce(d)
      /\ i \in Nat \ {0} /\ DOMAIN d.decs = 1..i
      /\ DOMAIN db.decs = 1..(i - 1)
      /\ \A k \in 1..(i - 1) : d.decs[k] = db.decs[k]
      /\ d.decs[i].by = "play" /\ d.decs[i].status = "recommended"
  <2> DEFINE n == Len(c.decs)
  <2>3. /\ Sound(d, now) /\ Grown(c, d) /\ StockOnce(d)
        /\ n \in Nat /\ DOMAIN c.decs = 1..n /\ DOMAIN d.decs = 1..(n + 1)
        /\ \A k \in 1..n : d.decs[k] = c.decs[k]
        /\ d.decs[n + 1].by = "play" /\ d.decs[n + 1].status = "recommended"
    <3>1. Decided(c, d, now)
      BY <1>1, <1>5, DecisionOfPlay
    <3> QED
      BY <3>1 DEF Decided
  <2>4. n = Len(db.decs) /\ i = n + 1
    BY <1>5
  <2> HIDE DEF n, i, d
  <2>5. i - 1 = n /\ i \in Nat \ {0}
    BY <2>3, <2>4
  <2> QED
    BY <1>5, <2>3, <2>4, <2>5
<1>7. i \in DOMAIN d.decs /\ Len(d.points) \in Nat
  BY <1>6, TablesTyped DEF Sound
<1> HIDE DEF d, i
<1>8. /\ Sound(b, now) /\ Grown(d, b) /\ StockOnce(b) /\ b.points = d.points
      /\ DOMAIN b.decs = DOMAIN d.decs
      /\ b.decs[i].by = "play" /\ b.decs[i].status = "recommended" /\ b.decs[i].born = Len(d.points)
      /\ \A k \in DOMAIN d.decs : k # i => b.decs[k] = d.decs[k]
  BY <1>6, <1>7, BornThen
<1> HIDE DEF b
<1>9. /\ Sound(e, now) /\ Grown(b, e) /\ StockOnce(e) /\ Revision(e) = Revision(b)
      /\ e.points = b.points /\ DOMAIN e.decs = DOMAIN b.decs
      /\ e.decs[i].born = Len(d.points)
      /\ e.decs[i].revision = Revision(b) /\ e.decs[i].points = Len(b.points)
      /\ \A k \in DOMAIN b.decs : k # i => e.decs[k] = b.decs[k]
  BY <1>1, <1>7, <1>8, KeepsKnown
<1> HIDE DEF e
<1>10. Grown(db, e)
  <2>1. db \in Tables /\ c \in Tables /\ d \in Tables /\ b \in Tables /\ e \in Tables
    BY <1>5, <1>6, <1>8, <1>9 DEF Sound
  <2>2. Grown(db, d)
    BY <1>5, <1>6, <2>1, GrownFurther
  <2>3. Grown(db, b)
    BY <1>8, <2>1, <2>2, GrownFurther
  <2> QED
    BY <1>9, <2>1, <2>3, GrownFurther
<1>11. Waiting(e) \subseteq {i}
  <2> SUFFICES ASSUME NEW k \in Waiting(e), k # i
               PROVE  FALSE
    OBVIOUS
  <2>1. k \in 1..i /\ e.decs[k].status = "recommended"
    BY <1>6, <1>8, <1>9 DEF Waiting, Pending
  <2>2. k \in 1..(i - 1)
    BY <1>6, <2>1
  <2>3. e.decs[k] = db.decs[k]
    BY <1>6, <1>8, <1>9, <2>1, <2>2
  <2> QED
    BY <1>3, <1>6, <2>1, <2>2, <2>3 DEF Pending
<1>12. i \notin touched
  BY <1>6
<1>13. Revision(b) \in Revisions /\ Upto(Revision(b), Revision(b))
  BY <1>8, RevisionParts, UptoItself DEF Sound
<1>14. /\ e.decs[i].revision \in Revisions /\ Upto(e.decs[i].revision, Revision(e))
       /\ e.decs[i].born = Len(d.points) /\ e.decs[i].points = Len(d.points) /\ Len(e.points) = Len(d.points)
  BY <1>8, <1>9, <1>13
<1>15. \A n \in Nat : n <= n /\ n + 1 .. n = {}
  OBVIOUS
<1>16. Known(e, touched)
  BY <1>7, <1>11, <1>12, <1>14, <1>15 DEF Known
<1> QED
  BY <1>4, <1>9, <1>10, <1>16 DEF Kept

\* Play is resumed: nothing waits.
LEMMA ResumedHolds ==
  ASSUME now \in Nat, Sound(db, now), StockOnce(db), Known(db, touched),
         NEW r \in AllRequests, r.kind = "resume", MayResume(r)
  PROVE  Kept(db, Resumed(r), now, touched)
<1> DEFINE f == Row("resume", "play", r.at, 0)
           x == Here(r.context)
           c == AddPoint(db, "resume", r.at, x)
           e == AddRow(c, f)
<1>1. r.at \in Nat /\ x \in Places
  BY RequestTyped DEF Here, Context, Places
<1>2. Resumed(r) = e
  BY DEF Resumed
<1>3. "resume" \in {"pause", "resume"}
  OBVIOUS
<1> HIDE DEF x
<1>4. /\ Sound(c, now) /\ Grown(db, c) /\ c.decs = db.decs /\ c.rows = db.rows
  BY <1>1, <1>3, PointAdded, SMTT(30)
<1>5. /\ f \in Facts /\ f.dec = 0 /\ f.kind = "resume"
      /\ \A k \in DOMAIN c.rows : c.rows[k].at <= f.at
  BY <1>1, <1>4 DEF Row, Facts, MayResume, Chronological
<1> HIDE DEF c, f
<1>6. StockOnce(c)
  BY <1>4, SameFacts
<1>7. Sound(e, now) /\ Grown(c, e) /\ StockOnce(e) /\ e.decs = c.decs
  BY <1>4, <1>5, <1>6, RowAdded, NoStockAdded
<1> HIDE DEF e
<1>8. Grown(db, e)
  BY <1>4, <1>7, GrownFurther DEF Sound
<1>9. Waiting(e) = {}
  BY <1>4, <1>7 DEF MayResume, Waiting, Pending
<1>10. Known(e, touched)
  BY <1>9 DEF Known
<1> QED
  BY <1>2, <1>7, <1>8, <1>10 DEF Kept

\* Play is paused: for what waits this is like a command.
LEMMA PausedHolds ==
  ASSUME now \in Nat, Sound(db, now), StockOnce(db), Known(db, touched),
         NEW r \in AllRequests, r.kind = "pause", MayPause(r)
  PROVE  LET e == PausedThen(r) IN
         Kept(db, e, now, touched \cup Touched(e)) /\ e.decs = db.decs
<1> DEFINE f == Row("stock", "checkpoint", r.at, 0)
           x == Here(r.context)
           c == IF r.stock THEN AddRow(db, f) ELSE db
           e == AddPoint(c, "pause", r.at, x)
<1>1. r.at \in Nat /\ x \in Places /\ r.stock \in BOOLEAN
  BY RequestTyped DEF Here, Context, Places
<1>2. PausedThen(r) = e
  BY DEF PausedThen
<1>3. "pause" \in {"pause", "resume"}
  OBVIOUS
<1>4. f \in Facts /\ f.dec = 0 /\ f.kind = "stock" /\ f.by = "checkpoint" /\ f.at = r.at
  BY <1>1 DEF Row, Facts
<1>5. r.stock => \A k \in DOMAIN db.rows : db.rows[k].kind = "stock" => db.rows[k].at <= f.at
  BY <1>4 DEF MayPause
<1> HIDE DEF f, x
<1>6. Sound(c, now) /\ Grown(db, c) /\ Commanded(db, c) /\ c.decs = db.decs
  <2>1. CASE ~r.stock
    BY <2>1, NothingWritten
  <2>2. CASE r.stock
    <3>1. \A i \in DOMAIN db.rows :
            f.by = "play" \/ (f.by = "checkpoint" /\ db.rows[i].kind = "stock") => db.rows[i].at <= f.at
      BY <1>4, <1>5, <2>2
    <3>2. Commanded(db, AddRow(db, f))
      BY <1>4, <3>1, FactCommanded
    <3>3. Sound(AddRow(db, f), now) /\ Grown(db, AddRow(db, f)) /\ AddRow(db, f).decs = db.decs
      BY <1>4, <3>1, RowAdded
    <3> QED
      BY <2>2, <3>2, <3>3
  <2> QED
    BY <2>1, <2>2
<1> HIDE DEF c
<1>7. Sound(e, now) /\ Grown(c, e) /\ Commanded(c, e) /\ e.decs = c.decs
  BY <1>1, <1>3, <1>6, PointAdded
<1> HIDE DEF e
<1>8. db \in Tables /\ c \in Tables /\ e \in Tables
  BY <1>6, <1>7 DEF Sound
<1>9. Grown(db, e) /\ Commanded(db, e)
  BY <1>6, <1>7, <1>8, GrownFurther, CommandedFurther
<1>10. StockOnce(e)
  BY <1>9 DEF Commanded
<1>11. Touched(e) = IF [e EXCEPT !.points = db.points] = db THEN {} ELSE Waiting(db)
  BY DEF Touched, Waiting
<1>12. Known(e, touched \cup Touched(e))
  BY <1>8, <1>9, <1>11, CommandedKnown
<1> QED
  BY <1>2, <1>6, <1>7, <1>9, <1>10, <1>12 DEF Kept

\* The current place is a matter of these tables only.
LEMMA CurrentSame ==
  ASSUME NEW d, NEW e, e.status = d.status, e.floors = d.floors, e.combats = d.combats, e.turns = d.turns,
         e.points = d.points, NEW x, NEW at, Current(d, x, at)
  PROVE  Current(e, x, at)
<1>1. Linked(e, x)
  BY DEF Current, Linked
<1>2. OpenCombats(e) = OpenCombats(d)
  BY DEF OpenCombats
<1>3. TurnsOf(e, x.combat) = TurnsOf(d, x.combat)
  BY DEF TurnsOf
<1>4. LastTurn(e, x.combat) = LastTurn(d, x.combat)
  BY <1>3 DEF LastTurn
<1> QED
  BY <1>1, <1>2, <1>3, <1>4 DEF Current

Stocking(r) == IF r.stock THEN AddRow(db, Row("stock", "play", r.at, r.dec)) ELSE db
Moving(r) == Transitions(Stocking(r), db.decs[r.dec].context, r.moves, r.at, now)
Rowing(r) == AddRow(Moving(r).db, Row("outcome", "play", r.at, r.dec))

\* The inventory of an outcome comes with it.
LEMMA StockingHolds ==
  ASSUME now \in Nat, Sound(db, now), NEW r \in AllRequests, r.kind = "outcome", Holds(r)
  PROVE  LET c == Stocking(r) IN
         /\ Sound(c, now) /\ Grown(db, c)
         /\ c.status = db.status /\ c.floors = db.floors /\ c.combats = db.combats /\ c.turns = db.turns
         /\ c.points = db.points /\ c.decs = db.decs
         /\ \A k \in DOMAIN c.rows : c.rows[k].at <= r.at
         /\ \A i \in DOMAIN db.decs : i # r.dec \/ ~r.stock => StockOf(c, i) = StockOf(db, i)
         /\ r.stock => StockOf(c, r.dec) = StockOf(db, r.dec) \cup {Len(db.rows) + 1}
<1> DEFINE f == Row("stock", "play", r.at, r.dec)
           c == Stocking(r)
           n == Len(db.rows)
<1>1. r.at \in Nat /\ r.stock \in BOOLEAN
  BY RequestTyped
<1>2. r.dec \in DOMAIN db.decs /\ \A k \in DOMAIN db.rows : db.rows[k].at <= r.at
  BY DEF Holds, Waiting, Pending, Chronological
<1>3. db \in Tables /\ Len(db.decs) \in Nat /\ DOMAIN db.decs = 1..Len(db.decs) /\ n \in Nat /\ DOMAIN db.rows = 1..n
  BY TablesTyped DEF Sound
<1>4. CASE ~r.stock
  <2>1. c = db
    BY <1>4 DEF Stocking
  <2>2. Grown(db, db)
    BY NothingWritten
  <2> QED
    BY <1>2, <1>4, <2>1, <2>2
<1>5. CASE r.stock
  <2>1. c = AddRow(db, f)
    BY <1>5 DEF Stocking
  <2>2. f \in Facts /\ f.kind = "stock" /\ f.dec = r.dec /\ f.at = r.at
    BY <1>1, <1>2, <1>3 DEF Row, Facts
  <2> HIDE DEF f
  <2>3. /\ Sound(c, now) /\ Grown(db, c)
        /\ c.status = db.status /\ c.floors = db.floors /\ c.combats = db.combats /\ c.turns = db.turns
        /\ c.points = db.points /\ c.decs = db.decs
        /\ c.rows[n + 1] = f
        /\ \A i \in DOMAIN db.rows : c.rows[i] = db.rows[i]
        /\ DOMAIN c.rows = 1..(n + 1)
    BY <1>2, <2>1, <2>2, RowAdded
  <2> HIDE DEF c, n
  <2>4. ASSUME NEW k \in DOMAIN c.rows
        PROVE  c.rows[k].at <= r.at
    <3>1. CASE k = n + 1
      BY <1>1, <2>2, <2>3, <3>1
    <3>2. CASE k # n + 1
      <4>1. k \in DOMAIN db.rows
        BY <1>3, <2>3, <3>2
      <4> QED
        BY <1>2, <2>3, <4>1
    <3> QED
      BY <3>1, <3>2
  <2>5. ASSUME NEW i \in DOMAIN db.decs, i # r.dec, NEW k
        PROVE  k \in StockOf(c, i) <=> k \in StockOf(db, i)
    <3>1. k = n + 1 => k \notin StockOf(c, i) /\ k \notin StockOf(db, i)
      BY <1>3, <2>2, <2>3, <2>5 DEF StockOf
    <3>2. k # n + 1 => (k \in DOMAIN c.rows <=> k \in DOMAIN db.rows)
      BY <1>3, <2>3
    <3> QED
      BY <2>3, <3>1, <3>2 DEF StockOf
  <2>6. ASSUME NEW k
        PROVE  k \in StockOf(c, r.dec) <=> k \in StockOf(db, r.dec) \/ k = n + 1
    <3>1. n + 1 \in StockOf(c, r.dec)
      BY <1>3, <2>2, <2>3 DEF StockOf
    <3>2. k # n + 1 => (k \in DOMAIN c.rows <=> k \in DOMAIN db.rows)
      BY <1>3, <2>3
    <3> QED
      BY <2>3, <3>1, <3>2 DEF StockOf
  <2>7. StockOf(c, r.dec) = StockOf(db, r.dec) \cup {n + 1}
    BY <2>6
  <2>8. \A i \in DOMAIN db.decs : i # r.dec => StockOf(c, i) = StockOf(db, i)
    BY <2>5
  <2> QED
    BY <1>5, <2>3, <2>4, <2>7, <2>8 DEF c, n
<1> QED
  BY <1>1, <1>4, <1>5

\* The transitions are those that were found possible, whatever the clock says now.
LEMMA MovingHolds ==
  ASSUME now \in Nat, Sound(db, now), NEW r \in AllRequests, r.kind = "outcome", Holds(r)
  PROVE  /\ Follows(Stocking(r), Moving(r).db, Moving(r).context, r.at, now)
         /\ Moving(r).context = NextContext(r)
<1> DEFINE c == Stocking(r)
           x == db.decs[r.dec].context
<1>1. r.at \in Nat /\ r.moves \in Seq(Moves)
  BY RequestTyped
<1>2. r.dec \in DOMAIN db.decs /\ Current(db, x, r.at)
  BY DEF Holds, Waiting, Pending
<1>3. x \in Places
  <2>1. db.decs[r.dec] \in Decisions
    BY <1>2, TablesTyped DEF Sound
  <2> QED
    BY <2>1 DEF Decisions
<1>4. /\ Sound(c, now)
      /\ c.status = db.status /\ c.floors = db.floors /\ c.combats = db.combats /\ c.turns = db.turns
      /\ c.points = db.points
  BY StockingHolds
<1>5. Current(c, x, r.at)
  BY <1>2, <1>4, CurrentSame
<1>6. Moving(r) = Transitions(c, x, r.moves, r.at, now)
  BY DEF Moving
<1>7. NextContext(r) = Transitions(db, x, r.moves, r.at, now).context
  BY DEF NextContext
<1> HIDE DEF c, x
<1>8. Follows(c, Moving(r).db, Moving(r).context, r.at, now)
  BY <1>1, <1>3, <1>4, <1>5, <1>6, TransitionsHold
<1>9. Alike(Transitions(db, x, r.moves, r.at, now), Transitions(c, x, r.moves, r.at, now))
  BY <1>1, <1>2, <1>3, <1>4, <1>5, TransitionsAlike
<1> QED
  BY <1>6, <1>7, <1>8, <1>9 DEF Alike, c

\* Inventory, transitions and outcome are written, ...
LEMMA RowingHolds ==
  ASSUME now \in Nat, Sound(db, now), NEW r \in AllRequests, r.kind = "outcome", Holds(r)
  PROVE  LET g == Rowing(r) IN
         /\ Sound(g, now) /\ Grown(db, g) /\ g.points = db.points /\ g.decs = db.decs
         /\ Current(g, NextContext(r), r.at)
         /\ \A i \in DOMAIN db.decs : i # r.dec \/ ~r.stock => StockOf(g, i) = StockOf(db, i)
         /\ r.stock => StockOf(g, r.dec) = StockOf(db, r.dec) \cup {Len(db.rows) + 1}
<1> DEFINE c == Stocking(r)
           d == Moving(r).db
           f == Row("outcome", "play", r.at, r.dec)
           g == AddRow(d, f)
           n == Len(d.rows)
<1>1. r.at \in Nat
  BY RequestTyped
<1>2. r.dec \in DOMAIN db.decs /\ r.dec \in Nat
  <2>1. r.dec \in DOMAIN db.decs
    BY DEF Holds, Waiting, Pending
  <2> QED
    BY <2>1, TablesTyped DEF Sound
<1>3. /\ Sound(c, now) /\ Grown(db, c) /\ c.points = db.points /\ c.decs = db.decs
      /\ \A k \in DOMAIN c.rows : c.rows[k].at <= r.at
      /\ \A i \in DOMAIN db.decs : i # r.dec \/ ~r.stock => StockOf(c, i) = StockOf(db, i)
      /\ r.stock => StockOf(c, r.dec) = StockOf(db, r.dec) \cup {Len(db.rows) + 1}
  BY StockingHolds
<1>4. Follows(c, d, NextContext(r), r.at, now)
  BY MovingHolds
<1>5. Rowing(r) = g
  BY DEF Rowing
<1>6. f \in Facts /\ f.kind = "outcome" /\ f.dec = r.dec /\ f.at = r.at
  BY <1>1, <1>2 DEF Row, Facts
<1> HIDE DEF c, d, f
<1>7. /\ Sound(d, now) /\ Grown(c, d) /\ d.points = c.points /\ d.decs = c.decs /\ d.rows = c.rows
      /\ Current(d, NextContext(r), r.at)
  BY <1>4 DEF Follows
<1>8. /\ Sound(g, now) /\ Grown(d, g)
      /\ g.status = d.status /\ g.floors = d.floors /\ g.combats = d.combats /\ g.turns = d.turns
      /\ g.points = d.points /\ g.decs = d.decs
      /\ g.rows[n + 1] = f /\ DOMAIN g.rows = 1..(n + 1)
      /\ \A i \in DOMAIN d.rows : g.rows[i] = d.rows[i]
  BY <1>2, <1>3, <1>6, <1>7, RowAdded
<1>9. n \in Nat /\ DOMAIN d.rows = 1..n
  BY <1>7, TablesTyped DEF Sound
<1> HIDE DEF g, n
<1>10. ASSUME NEW i
       PROVE  StockOf(g, i) = StockOf(c, i)
  <2> SUFFICES ASSUME NEW k
               PROVE  k \in StockOf(g, i) <=> k \in StockOf(c, i)
    OBVIOUS
  <2>1. k = n + 1 => k \notin StockOf(g, i) /\ k \notin StockOf(c, i)
    BY <1>6, <1>7, <1>8, <1>9 DEF StockOf
  <2>2. k # n + 1 => (k \in DOMAIN g.rows <=> k \in DOMAIN c.rows)
    BY <1>7, <1>8, <1>9
  <2> QED
    BY <1>7, <1>8, <2>1, <2>2 DEF StockOf
<1>11. Current(g, NextContext(r), r.at)
  BY <1>7, <1>8, CurrentSame
<1>12. Grown(db, g)
  <2>1. db \in Tables /\ c \in Tables /\ d \in Tables /\ g \in Tables
    BY <1>3, <1>7, <1>8 DEF Sound
  <2>2. Grown(db, d)
    BY <1>3, <1>7, <2>1, GrownFurther
  <2> QED
    BY <1>8, <2>1, <2>2, GrownFurther
<1>13. Sound(g, now) /\ g.points = db.points /\ g.decs = db.decs
  BY <1>3, <1>7, <1>8
<1>14. /\ \A i \in DOMAIN db.decs : i # r.dec \/ ~r.stock => StockOf(g, i) = StockOf(db, i)
       /\ r.stock => StockOf(g, r.dec) = StockOf(db, r.dec) \cup {Len(db.rows) + 1}
  BY <1>3, <1>10
<1> QED
  BY <1>5, <1>11, <1>12, <1>13, <1>14

\* Tables e are d with decision i settled.
Settled(d, e, i, s, u) ==
  /\ Sound(e, u) /\ Grown(d, e)
  /\ e.status = d.status /\ e.floors = d.floors /\ e.combats = d.combats /\ e.turns = d.turns
  /\ e.points = d.points /\ e.rows = d.rows
  /\ DOMAIN e.decs = DOMAIN d.decs /\ e.decs[i].status = s /\ e.decs[i].born = d.decs[i].born
  /\ \A k \in DOMAIN d.decs : k # i => e.decs[k] = d.decs[k]

\* A decision is settled.
LEMMA ResolveSettles ==
  ASSUME NEW d, NEW u \in Nat, Sound(d, u), NEW i \in DOMAIN d.decs, NEW s \in {"resolved", "skipped"}
  PROVE  Settled(d, Resolve(d, i, s), i, s, u)
<1> DEFINE e == Resolve(d, i, s)
<1>1. d \in Tables
  BY DEF Sound
<1>2. PICK q \in Decisions :
        /\ e = [d EXCEPT !.decs = [d.decs EXCEPT ![i] = q]]
        /\ q.status = s /\ q.born = d.decs[i].born
  BY <1>1, ResolvedTyped
<1> HIDE DEF e
<1>3. /\ Sound(e, u) /\ Grown(d, e)
      /\ e.status = d.status /\ e.floors = d.floors /\ e.combats = d.combats /\ e.turns = d.turns
      /\ e.points = d.points /\ e.rows = d.rows
      /\ DOMAIN e.decs = DOMAIN d.decs /\ e.decs[i] = q
      /\ \A k \in DOMAIN d.decs : k # i => e.decs[k] = d.decs[k]
  BY <1>2, DecisionChanged
<1> QED
  BY <1>2, <1>3 DEF Settled, e

Resolving(r) ==
  CASE r.status = "verified" -> Resolve(Rowing(r), r.dec, "resolved")
    [] r.status = "not_performed" -> Resolve(Rowing(r), r.dec, "skipped")
    [] r.status = "unknown" -> Rowing(r)

\* ... the decision is settled, unless it is not known, ...
LEMMA ResolvingHolds ==
  ASSUME now \in Nat, Sound(db, now), StockOnce(db),
         NEW r \in AllRequests, r.kind = "outcome", Holds(r)
  PROVE  LET h == Resolving(r) IN
         /\ Sound(h, now) /\ Grown(db, h) /\ StockOnce(h) /\ h.points = db.points
         /\ DOMAIN h.decs = DOMAIN db.decs /\ Current(h, NextContext(r), r.at)
         /\ h.decs[r.dec].born = db.decs[r.dec].born
         /\ \A k \in DOMAIN db.decs : k # r.dec => h.decs[k] = db.decs[k]
<1> DEFINE g == Rowing(r)
           h == Resolving(r)
<1>1. r.dec \in Pending(db) /\ r.dec \in DOMAIN db.decs /\ (r.stock => r.status = "verified")
  BY DEF Holds, Waiting, Pending
<1>2. r.stock \in BOOLEAN /\ r.status \in {"verified", "not_performed", "unknown"}
  BY RequestTyped
<1>3. /\ Sound(g, now) /\ Grown(db, g) /\ g.points = db.points /\ g.decs = db.decs
      /\ Current(g, NextContext(r), r.at)
      /\ \A i \in DOMAIN db.decs : i # r.dec \/ ~r.stock => StockOf(g, i) = StockOf(db, i)
      /\ r.stock => StockOf(g, r.dec) = StockOf(db, r.dec) \cup {Len(db.rows) + 1}
  BY RowingHolds
<1> HIDE DEF g
<1>4. StockOf(db, r.dec) = {}
  BY <1>1 DEF StockOnce
<1>5. CASE r.status = "unknown"
  <2>1. h = g
    BY <1>5 DEF Resolving, g
  <2>2. ~r.stock
    BY <1>1, <1>5
  <2>3. StockOnce(g)
    BY <1>3, <2>2 DEF StockOnce, Pending
  <2> QED
    BY <1>3, <2>1, <2>3
<1>6. CASE r.status # "unknown"
  <2>1. PICK s \in {"resolved", "skipped"} : h = Resolve(g, r.dec, s)
    BY <1>2, <1>6 DEF Resolving, g
  <2>2. r.dec \in DOMAIN g.decs /\ g \in Tables
    BY <1>1, <1>3 DEF Sound
  <2>3. Settled(g, h, r.dec, s, now)
    BY <1>3, <2>1, <2>2, ResolveSettles
  <2> HIDE DEF h
  <2>4. /\ Sound(h, now) /\ Grown(g, h)
        /\ h.status = g.status /\ h.floors = g.floors /\ h.combats = g.combats /\ h.turns = g.turns
        /\ h.points = g.points /\ h.rows = g.rows
        /\ DOMAIN h.decs = DOMAIN g.decs
        /\ h.decs[r.dec].status = s /\ h.decs[r.dec].born = g.decs[r.dec].born
        /\ \A k \in DOMAIN g.decs : k # r.dec => h.decs[k] = g.decs[k]
    BY <2>3 DEF Settled
  <2>5. Current(h, NextContext(r), r.at)
    BY <1>3, <2>4, CurrentSame
  <2>6. Grown(db, h)
    BY <1>3, <2>4, GrownFurther DEF Sound
  <2>7. \A i : StockOf(h, i) = StockOf(g, i)
    BY <2>4 DEF StockOf
  <2>8. r.dec \notin Pending(h)
    BY <2>4 DEF Pending
  <2>9. StockOf(h, r.dec) # {} => Cardinality(StockOf(h, r.dec)) = 1
    <3>1. StockOf(h, r.dec) # {} => StockOf(h, r.dec) = {Len(db.rows) + 1}
      BY <1>1, <1>2, <1>3, <1>4, <2>7
    <3>2. Cardinality({Len(db.rows) + 1}) = 1
      BY FS_Singleton
    <3> QED
      BY <3>1, <3>2
  <2>10. \A i \in DOMAIN db.decs : i # r.dec => (i \in Pending(h) <=> i \in Pending(db))
    BY <1>3, <2>4 DEF Pending
  <2>11. StockOnce(h)
    <3> SUFFICES ASSUME NEW i \in DOMAIN db.decs, StockOf(h, i) # {}
                 PROVE  Cardinality(StockOf(h, i)) = 1 /\ i \notin Pending(h)
      BY <1>3, <2>4 DEF StockOnce
    <3>1. CASE i = r.dec
      BY <2>8, <2>9, <3>1
    <3>2. CASE i # r.dec
      BY <1>3, <2>7, <2>10, <3>2 DEF StockOnce
    <3> QED
      BY <3>1, <3>2
  <2> QED
    BY <1>3, <2>4, <2>5, <2>6, <2>11 DEF h
<1> QED
  BY <1>5, <1>6

\* ... and the tables are remembered with it.
LEMMA RecordedHolds ==
  ASSUME now \in Nat, Sound(db, now), StockOnce(db), Known(db, touched),
         NEW r \in AllRequests, r.kind = "outcome", Holds(r)
  PROVE  LET e == Recorded(r) IN
         /\ Kept(db, e, now, touched)
         /\ Current(e, NextContext(r), r.at)
         /\ \A k \in DOMAIN db.decs : k # r.dec => e.decs[k] = db.decs[k]
         /\ r.dec \notin touched
         /\ \A k \in db.decs[r.dec].born + 1 .. Len(db.points) : db.points[k].kind = "pause"
<1> DEFINE h == Resolving(r)
           i == r.dec
           e == Remember(h, i, r.at)
           n == Len(db.points)
           m == db.decs[i].points
           b == db.decs[i].born
<1>1. r.at \in Nat /\ r.status \in {"verified", "not_performed", "unknown"}
  BY RequestTyped
<1>2. i \in Waiting(db) /\ i \in DOMAIN db.decs /\ Unchanged(r)
  BY DEF Holds, Waiting, Pending
<1>3. Recorded(r) = e
  BY <1>1 DEF Recorded, Resolving, Rowing, Moving, Stocking
<1>4. /\ db.decs[i].revision \in Revisions
      /\ i \in touched => db.decs[i].revision # Revision(db)
      /\ b <= m /\ m <= n
      /\ \A k \in b + 1 .. m : db.points[k].kind = "pause"
      /\ \A k \in Waiting(db) : k = i
  BY <1>2 DEF Known
<1>5. Revision(db) = db.decs[i].revision /\ (n = m \/ (n = m + 1 /\ db.points[n].kind = "pause"))
  BY <1>2 DEF Unchanged
<1>6. i \notin touched
  BY <1>4, <1>5
<1>7. n \in Nat /\ b \in Nat /\ m \in Nat
  <2>1. db.decs[i] \in Decisions /\ n \in Nat
    BY <1>2, TablesTyped DEF Sound
  <2> QED
    BY <2>1 DEF Decisions
<1>8. \A k \in b + 1 .. n : db.points[k].kind = "pause"
  <2> SUFFICES ASSUME NEW k \in b + 1 .. n
               PROVE  db.points[k].kind = "pause"
    OBVIOUS
  <2> HIDE DEF b, m, n
  <2>1. k \in b + 1 .. m \/ (k = n /\ n = m + 1)
    BY <1>4, <1>5, <1>7
  <2> QED
    BY <1>4, <1>5, <2>1 DEF n
<1>9. /\ Sound(h, now) /\ Grown(db, h) /\ StockOnce(h) /\ h.points = db.points
      /\ DOMAIN h.decs = DOMAIN db.decs /\ Current(h, NextContext(r), r.at)
      /\ h.decs[i].born = b
      /\ \A k \in DOMAIN db.decs : k # i => h.decs[k] = db.decs[k]
  BY ResolvingHolds
<1>10. i \in DOMAIN h.decs
  BY <1>2, <1>9
<1> HIDE DEF h, i, b
<1>11. /\ Sound(e, now) /\ Grown(h, e) /\ StockOnce(e) /\ Revision(e) = Revision(h)
       /\ e.status = h.status /\ e.floors = h.floors /\ e.combats = h.combats /\ e.turns = h.turns
       /\ e.points = h.points
       /\ DOMAIN e.decs = DOMAIN h.decs
       /\ e.decs[i].born = h.decs[i].born
       /\ e.decs[i].revision = Revision(h) /\ e.decs[i].points = Len(h.points)
       /\ \A k \in DOMAIN h.decs : k # i => e.decs[k] = h.decs[k]
  BY <1>1, <1>9, <1>10, KeepsKnown
<1> HIDE DEF e
<1>12. Grown(db, e)
  BY <1>9, <1>11, GrownFurther DEF Sound
<1>13. Current(e, NextContext(r), r.at)
  BY <1>9, <1>11, CurrentSame
<1>14. \A k \in DOMAIN db.decs : k # i => e.decs[k] = db.decs[k]
  BY <1>9, <1>11
<1>15. Waiting(e) \subseteq {i}
  <2> SUFFICES ASSUME NEW k \in Waiting(e), k # i
               PROVE  FALSE
    OBVIOUS
  <2>1. k \in DOMAIN db.decs /\ e.decs[k].status = "recommended" /\ e.decs[k].by = "play"
    BY <1>9, <1>11 DEF Waiting, Pending
  <2>2. k \in Waiting(db)
    BY <1>14, <2>1 DEF Waiting, Pending
  <2> QED
    BY <1>4, <2>2
<1>16. Revision(h) \in Revisions /\ Upto(Revision(h), Revision(h))
  BY <1>9, RevisionParts, UptoItself DEF Sound
<1>17. /\ e.decs[i].revision \in Revisions /\ Upto(e.decs[i].revision, Revision(e))
       /\ e.decs[i].born = b /\ e.decs[i].points = n /\ Len(e.points) = n /\ e.points = db.points
  BY <1>9, <1>11, <1>16
<1>18. b <= n /\ n <= n
  BY <1>4, <1>7
<1>19. Known(e, touched)
  BY <1>6, <1>8, <1>15, <1>17, <1>18 DEF Known
<1> QED
  BY <1>3, <1>6, <1>8, <1>11, <1>12, <1>13, <1>14, <1>19 DEF Kept, i, b

-------------------------------------------------------------------------------
(* Steps *)

\* Transactions and commands are told apart.
LEMMA KindsApart ==
  /\ \A b \in Begun : "op" \in DOMAIN b /\ "command" \notin DOMAIN b /\ b.request \in AllRequests /\ b.op \in Ops
  /\ \A g \in Given : "command" \in DOMAIN g /\ "op" \notin DOMAIN g
  /\ \A b \in Begun : b \notin Given
<1>1. \A b \in Begun : DOMAIN b = {"op", "request"} /\ b.request \in AllRequests /\ b.op \in Ops
  BY DEF Begun
<1>2. \A g \in Given : DOMAIN g = {"at", "command", "row", "n", "context"}
  BY DEF Given
<1> QED
  BY <1>1, <1>2

\* What LedgerInv is made of.
LEMMA InvParts ==
  ASSUME LedgerInv
  PROVE  /\ now \in Nat /\ now \in Times /\ Sound(db, now) /\ StockOnce(db) /\ Known(db, touched)
         /\ touched \subseteq DOMAIN db.decs /\ db \in Tables
         /\ lock \in Procs \cup {None} /\ None \notin Procs
         /\ \A p \in Procs : job[p] = None \/ job[p] \in Begun \/ job[p] \in Given
  BY LedgerAssumption DEF LedgerInv, LedgerTyped, Times, Sound

\* A process whose job stays the same has found what it has found, for tables
\* only grow.
LEMMA FoundByOthers ==
  ASSUME LedgerInv, NEW p, \A q \in Procs : q # p => job'[q] = job[q],
         now' \in Nat, now <= now', db' \in Tables, Grown(db, db')
  PROVE  \A q \in Procs : q # p => (job[q] \in Given /\ job[q] # None => Finds(job[q]))'
<1> SUFFICES ASSUME NEW q \in Procs, q # p, (job[q] \in Given /\ job[q] # None)'
             PROVE  Finds(job[q])'
  OBVIOUS
<1>1. job'[q] = job[q] /\ job[q] \in Given /\ Finds(job[q])
  BY DEF LedgerInv, FoundStays
<1>2. job[q].at \in Nat /\ now \in Nat
  BY <1>1, InvParts DEF Given
<1>3. job[q].at <= now'
  BY <1>1, <1>2 DEF Finds
<1>4. /\ DOMAIN db.floors \subseteq DOMAIN db'.floors /\ DOMAIN db.combats \subseteq DOMAIN db'.combats
      /\ DOMAIN db.turns \subseteq DOMAIN db'.turns /\ DOMAIN db.decs \subseteq DOMAIN db'.decs
  <2>1. db \in Tables
    BY InvParts
  <2>2. /\ Len(db.floors) \in Nat /\ Len(db.combats) \in Nat /\ Len(db.turns) \in Nat /\ Len(db.decs) \in Nat
        /\ DOMAIN db.floors = 1..Len(db.floors) /\ DOMAIN db.combats = 1..Len(db.combats)
        /\ DOMAIN db.turns = 1..Len(db.turns) /\ DOMAIN db.decs = 1..Len(db.decs)
    BY <2>1, TablesTyped
  <2>3. /\ Len(db'.floors) \in Nat /\ Len(db'.combats) \in Nat /\ Len(db'.turns) \in Nat /\ Len(db'.decs) \in Nat
        /\ DOMAIN db'.floors = 1..Len(db'.floors) /\ DOMAIN db'.combats = 1..Len(db'.combats)
        /\ DOMAIN db'.turns = 1..Len(db'.turns) /\ DOMAIN db'.decs = 1..Len(db'.decs)
    BY TablesTyped
  <2>4. /\ Len(db.floors) <= Len(db'.floors) /\ Len(db.combats) <= Len(db'.combats)
        /\ Len(db.turns) <= Len(db'.turns) /\ Len(db.decs) <= Len(db'.decs)
    BY DEF Grown
  <2>5. \A m, n \in Nat : m <= n => 1..m \subseteq 1..n
    OBVIOUS
  <2> QED
    BY <2>2, <2>3, <2>4, <2>5
<1> QED
  BY <1>1, <1>3, <1>4 DEF Finds

\* The lock and what it protects stay while the tables do.
LEMMA HoldsStays ==
  ASSUME NEW p \in Procs, db' = db, job'[p] = job[p], Holds(job[p].request)
  PROVE  Holds(job[p].request)'
  BY DEF Holds, MayPrepare, Unchanged, MayResume, MayPause, MayCheckpoint

\* So do they for all whose job stays.
LEMMA LockedByOthers ==
  ASSUME LedgerInv, NEW p, \A q \in Procs : q # p => job'[q] = job[q], db' = db
  PROVE  \A q \in Procs : q # p => (job[q] \in Begun /\ job[q] # None => Holds(job[q].request))'
<1> SUFFICES ASSUME NEW q \in Procs, q # p, (job[q] \in Begun /\ job[q] # None)'
             PROVE  Holds(job[q].request)'
  OBVIOUS
<1>1. job'[q] = job[q] /\ Holds(job[q].request)
  BY DEF LedgerInv, Locked
<1> QED
  BY <1>1, HoldsStays

\* A request that is accepted.
LEMMA Requested ==
  ASSUME LedgerInv, NEW r \in Requests, Accepted(r)
  PROVE  r \in AllRequests /\ Holds(r)
<1>1. db \in Tables /\ now \in Nat
  BY InvParts
<1>2. Contexts \subseteq Places
  <2>1. DOMAIN db.floors \subseteq Nat /\ DOMAIN db.combats \subseteq Nat /\ DOMAIN db.turns \subseteq Nat
    BY <1>1, TablesTyped
  <2> QED
    BY <2>1 DEF Contexts, Context, Places
<1>3. 0..now \subseteq Nat
  BY <1>1
<1>4. CASE \E x \in Contexts, at \in 0..now : r = Decision(x, at) \/ r = Resume(x, at)
  <2>1. r.kind \in {"decision", "resume"} /\ r \in AllRequests
    BY <1>2, <1>3, <1>4 DEF Decision, Resume, AllRequests
  <2> QED
    BY <2>1 DEF Accepted, Holds
<1>5. CASE \E x \in Contexts, at \in 0..now, s \in BOOLEAN : r = Pause(x, at, s)
  <2>1. r.kind = "pause" /\ r \in AllRequests
    BY <1>2, <1>3, <1>5 DEF Pause, AllRequests
  <2> QED
    BY <2>1 DEF Accepted, Holds
<1>6. CASE \E i \in Pending(db), at \in 0..now, st \in {"verified", "not_performed", "unknown"}, s \in BOOLEAN,
              m \in Seq(Moves) :
             r = Outcome(i, at, st, s, m) /\ (s \/ m # <<>> => st = "verified")
  <2>1. Pending(db) \subseteq Nat
    BY <1>1, TablesTyped DEF Pending
  <2>2. r.kind = "outcome" /\ r \in AllRequests /\ (r.stock \/ r.moves # <<>> => r.status = "verified")
    BY <1>3, <1>6, <2>1 DEF Outcome, AllRequests
  <2>3. MayRecord(r)
    BY <2>2 DEF Accepted
  <2>4. r.dec \in Waiting(db) /\ Unchanged(r) /\ Current(db, db.decs[r.dec].context, r.at) /\ Chronological(db, r.at)
    BY <2>3 DEF MayRecord, Waiting
  <2> QED
    BY <2>2, <2>4 DEF Holds
<1> DEFINE A == {Decision(x, at) : x \in Contexts, at \in 0..now}
           B == {Outcome(i, at, "verified", s, m) : i \in Pending(db), at \in 0..now, s \in BOOLEAN, m \in MoveSets}
           C == {Outcome(i, at, s, FALSE, <<>>) : i \in Pending(db), at \in 0..now, s \in {"not_performed", "unknown"}}
           D == {Resume(x, at) : x \in Contexts, at \in 0..now}
           E == {Pause(x, at, s) : x \in Contexts, at \in 0..now, s \in BOOLEAN}
<1>7. Requests = A \cup B \cup C \cup D \cup E
  BY DEF Requests
<1>9. CASE r \in A
  BY <1>4, <1>9
<1>10. CASE r \in D
  BY <1>4, <1>10
<1>11. CASE r \in E
  BY <1>5, <1>11
<1>8. MoveSets \subseteq Seq(Moves) /\ <<>> \in Seq(Moves)
  BY LedgerAssumption
<1>12. CASE r \in B
  <2>1. PICK i \in Pending(db), at \in 0..now, s \in BOOLEAN, m \in MoveSets : r = Outcome(i, at, "verified", s, m)
    BY <1>12
  <2>2. m \in Seq(Moves)
    BY <1>8
  <2> QED
    BY <1>6, <2>1, <2>2
<1>13. CASE r \in C
  <2>1. PICK i \in Pending(db), at \in 0..now, s \in {"not_performed", "unknown"} : r = Outcome(i, at, s, FALSE, <<>>)
    BY <1>13 DEF Outcome
  <2> QED
    BY <1>6, <1>8, <2>1
<1> HIDE DEF A, B, C, D, E
<1> QED
  BY <1>7, <1>9, <1>10, <1>11, <1>12, <1>13

\* The clock.
LEMMA TickHolds == ASSUME LedgerInv, Tick PROVE LedgerInv'
<1>1. now \in Nat /\ now' = now + 1 /\ now' \in Times /\ now' \in Nat /\ now <= now'
  BY InvParts, LedgerAssumption DEF Tick, Times
<1>2. db' = db /\ job' = job /\ UNCHANGED <<lock, used, commands, touched>>
  BY DEF Tick
<1>3. LedgerTyped'
  BY <1>1, <1>2 DEF LedgerInv, LedgerTyped
<1>4. Connected(db, now)'
  <2>1. db \in Tables /\ Connected(db, now)
    BY InvParts DEF Sound
  <2>2. \A f \in DOMAIN db.floors : db.floors[f].at \in Nat
    <3>1. \A f \in DOMAIN db.floors : db.floors[f] \in Floors
      BY <2>1, TablesTyped, Positions
    <3> QED
      BY <3>1 DEF Floors
  <2>3. \A f \in DOMAIN db.floors : db.floors[f].at <= now'
    BY <1>1, <2>1, <2>2 DEF Connected
  <2> QED
    BY <1>2, <2>1, <2>3 DEF Connected
<1>5. (InOrder(db) /\ StockOnce(db) /\ Known(db, touched))'
  BY <1>2 DEF LedgerInv
<1>6. \A q \in Procs : q # None => (job[q] \in Begun /\ job[q] # None => Holds(job[q].request))'
  BY <1>2, LockedByOthers
<1>7. Locked'
  BY <1>2, <1>6, LedgerAssumption DEF LedgerInv, Locked
<1>8. Grown(db, db') /\ db' \in Tables
  BY <1>2, InvParts, NothingWritten
<1>9. \A q \in Procs : q # None => (job[q] \in Given /\ job[q] # None => Finds(job[q]))'
  BY <1>1, <1>2, <1>8, FoundByOthers
<1>10. FoundStays'
  BY <1>9, LedgerAssumption DEF FoundStays
<1> QED
  BY <1>3, <1>4, <1>5, <1>7, <1>10 DEF LedgerInv

\* The conjuncts that are about the tables and not about jobs, where they stay.
LEMMA TablesStay ==
  ASSUME LedgerInv, db' = db, now' = now, touched' = touched
  PROVE  /\ (Connected(db, now) /\ InOrder(db) /\ StockOnce(db) /\ Known(db, touched))'
         /\ now' \in Nat /\ now <= now' /\ db' \in Tables /\ Grown(db, db')
         /\ now' \in Times /\ touched' \subseteq DOMAIN db'.decs
<1>1. now \in Nat /\ now \in Times /\ db \in Tables /\ Grown(db, db) /\ touched \subseteq DOMAIN db.decs
  BY InvParts, NothingWritten
<1>2. now <= now
  BY <1>1
<1> QED
  BY <1>1, <1>2 DEF LedgerInv

\* A request is accepted under the lock.
LEMMA BeginHolds == ASSUME LedgerInv, NEW p \in Procs, NEW o \in Ops, Begin(p, o) PROVE LedgerInv'
<1>1. PICK r \in Requests : Accepted(r) /\ job' = [job EXCEPT ![p] = [op |-> o, request |-> r]]
  BY DEF Begin
<1>2. /\ lock = None /\ lock' = p /\ db' = db /\ now' = now /\ touched' = touched
      /\ used' = used /\ commands' = commands
  BY DEF Begin
<1>3. r \in AllRequests /\ Holds(r)
  BY <1>1, Requested
<1> DEFINE b == [op |-> o, request |-> r]
<1>4. b \in Begun /\ b.request = r
  BY <1>3 DEF Begun
<1> HIDE DEF b
<1>5. job \in [Procs -> {None} \cup Begun \cup Given]
  BY DEF LedgerInv, LedgerTyped
<1>6. job' = [job EXCEPT ![p] = b]
  BY <1>1 DEF b
<1>7. /\ job' \in [Procs -> {None} \cup Begun \cup Given]
      /\ job'[p] = b /\ \A q \in Procs : q # p => job'[q] = job[q]
  BY <1>4, <1>5, <1>6
<1>8. LedgerTyped'
  BY <1>2, <1>7, TablesStay DEF LedgerInv, LedgerTyped
<1>9. Locked'
  <2> SUFFICES ASSUME NEW q \in Procs, (job[q] \in Begun /\ job[q] # None)'
               PROVE  (lock = q /\ Holds(job[q].request))'
    BY DEF Locked
  <2>1. CASE q = p
    <3>1. job'[p].request = r
      BY <1>4, <1>7
    <3>2. Holds(job[p].request)'
      BY <1>2, <1>3, <3>1 DEF Holds, MayPrepare, Unchanged, MayResume, MayPause, MayCheckpoint
    <3> QED
      BY <1>2, <2>1, <3>2
  <2>2. CASE q # p
    <3>1. job[q] \in Begun /\ job[q] # None
      BY <1>7, <2>2
    <3>2. lock = q
      BY <3>1 DEF LedgerInv, Locked
    <3> QED
      BY <1>2, <3>2, LedgerAssumption
  <2> QED
    BY <2>1, <2>2
<1>10. FoundStays'
  <2>1. \A q \in Procs : q # p => (job[q] \in Given /\ job[q] # None => Finds(job[q]))'
    BY <1>2, <1>7, TablesStay, FoundByOthers
  <2>2. job'[p] \notin Given
    BY <1>4, <1>7, KindsApart
  <2> QED
    BY <2>1, <2>2 DEF FoundStays
<1> QED
  BY <1>2, <1>8, <1>9, <1>10, TablesStay DEF LedgerInv

\* A command has looked for what it writes to.
LEMMA StartHolds == ASSUME LedgerInv, NEW p \in Procs, NEW j \in Jobs, Start(p, j) PROVE LedgerInv'
<1>1. /\ job' = [job EXCEPT ![p] = j] /\ commands' = commands + 1 /\ Found(j)
      /\ lock' = lock /\ db' = db /\ now' = now /\ touched' = touched /\ used' = used
  BY DEF Start
<1>2. j \in Given /\ j.at = now
  <2>1. now \in Nat /\ DOMAIN db.floors \subseteq Nat /\ DOMAIN db.combats \subseteq Nat /\ DOMAIN db.turns \subseteq Nat
    BY InvParts, TablesTyped
  <2>2. Nowhere \in Places /\ \A y \in Contexts : Here(y) \in Places
    BY <2>1 DEF Contexts, Here, Nowhere, Context, Places
  <2>3. \A n \in 1..MaxRows : n \in Nat
    BY LedgerAssumption
  <2>4. \A n \in 0..now : n \in Nat
    BY <2>1
  <2>5. ASSUME NEW c \in Commands, NEW i \in Nat, NEW n \in Nat, NEW x \in Places
        PROVE  Job(c, i, n, x) \in Given /\ Job(c, i, n, x).at = now
    BY <2>1 DEF Job, Given
  <2>6. \E c \in Commands, i \in Nat, n \in Nat, x \in Places : j = Job(c, i, n, x)
    <3> DEFINE A == {Job(c, 0, 0, Nowhere) : c \in {"floor-start", "inventory", "run-new"}}
               B == {Job(c, i, 0, Nowhere) : c \in {"floor-finish", "combat-start", "combat-finish", "turn-finish", "decision"},
                                             i \in 1..MaxRows}
               C == {Job(c, i, n, Nowhere) : c \in {"turn-start", "resolve"}, i, n \in 1..MaxRows}
               D == {Job(c, 0, n, x) : c \in {"pause", "resume"}, n \in 0..now, x \in {Nowhere} \cup {Here(y) : y \in Contexts}}
    <3>1. j \in A \/ j \in B \/ j \in C \/ j \in D
      BY DEF Jobs
    <3>2. CASE j \in A
      BY <2>2, <3>2 DEF Commands
    <3>3. CASE j \in B
      BY <2>2, <2>3, <3>3 DEF Commands
    <3>4. CASE j \in C
      BY <2>2, <2>3, <3>4 DEF Commands
    <3>5. CASE j \in D
      BY <2>2, <2>4, <3>5 DEF Commands
    <3> QED
      BY <3>1, <3>2, <3>3, <3>4, <3>5
  <2> QED
    BY <2>5, <2>6
<1>3. Finds(j)
  <2>1. j.at <= now
    BY <1>2, InvParts
  <2> QED
    BY <1>1, <2>1 DEF Found, Finds, OpenCombats
<1>4. job \in [Procs -> {None} \cup Begun \cup Given] /\ commands \in Nat
  BY DEF LedgerInv, LedgerTyped
<1>5. /\ job' \in [Procs -> {None} \cup Begun \cup Given]
      /\ job'[p] = j /\ \A q \in Procs : q # p => job'[q] = job[q]
  BY <1>1, <1>2, <1>4
<1>6. LedgerTyped'
  BY <1>1, <1>4, <1>5, TablesStay DEF LedgerInv, LedgerTyped
<1>7. Locked'
  <2>1. \A q \in Procs : q # p => (job[q] \in Begun /\ job[q] # None => Holds(job[q].request))'
    BY <1>1, <1>5, LockedByOthers
  <2>2. job'[p] \notin Begun
    BY <1>2, <1>5, KindsApart
  <2> QED
    BY <1>1, <1>5, <2>1, <2>2 DEF LedgerInv, Locked
<1>8. FoundStays'
  <2>1. \A q \in Procs : q # p => (job[q] \in Given /\ job[q] # None => Finds(job[q]))'
    BY <1>1, <1>5, TablesStay, FoundByOthers
  <2>2. Finds(job[p])'
    BY <1>1, <1>3, <1>5 DEF Finds
  <2> QED
    BY <2>1, <2>2 DEF FoundStays
<1> QED
  BY <1>1, <1>6, <1>7, <1>8, TablesStay DEF LedgerInv

\* A job is given up, and with it the lock if it was held.
LEMMA GivenUpHolds ==
  ASSUME LedgerInv, NEW p \in Procs, job' = [job EXCEPT ![p] = None],
         (lock' = lock /\ job[p] \in Given) \/ (lock' = None /\ job[p] \in Begun /\ job[p] # None),
         UNCHANGED <<now, db, used, commands, touched>>
  PROVE  LedgerInv'
<1>1. job \in [Procs -> {None} \cup Begun \cup Given]
  BY DEF LedgerInv, LedgerTyped
<1>2. /\ job' \in [Procs -> {None} \cup Begun \cup Given]
      /\ job'[p] = None /\ \A q \in Procs : q # p => job'[q] = job[q]
  BY <1>1
<1>3. LedgerTyped'
  BY <1>2, TablesStay DEF LedgerInv, LedgerTyped
<1>4. Locked'
  <2>1. \A q \in Procs : q # p => (job[q] \in Begun /\ job[q] # None => Holds(job[q].request))'
    BY <1>2, LockedByOthers
  <2>2. ASSUME NEW q \in Procs, q # p, job'[q] \in Begun, job'[q] # None
        PROVE  lock' = q
    <3>1. lock = q
      BY <1>2, <2>2 DEF LedgerInv, Locked
    <3>2. job[p] \in Begun /\ job[p] # None => lock = p
      BY DEF LedgerInv, Locked
    <3> QED
      BY <2>2, <3>1, <3>2
  <2> QED
    BY <1>2, <2>1, <2>2 DEF Locked
<1>5. FoundStays'
  <2>1. \A q \in Procs : q # p => (job[q] \in Given /\ job[q] # None => Finds(job[q]))'
    BY <1>2, TablesStay, FoundByOthers
  <2> QED
    BY <1>2, <2>1 DEF FoundStays
<1> QED
  BY <1>3, <1>4, <1>5, TablesStay DEF LedgerInv

\* Which transaction, and which command.
LEMMA WhichJob ==
  ASSUME LedgerInv, NEW p \in Procs
  PROVE  /\ Transaction(p) => job[p] \in Begun /\ job[p] # None /\ lock = p /\ Holds(job[p].request)
         /\ Command(p) => job[p] \in Given /\ job[p] # None /\ Finds(job[p])
<1>1. job[p] = None \/ job[p] \in Begun \/ job[p] \in Given
  BY InvParts
<1>2. Transaction(p) => job[p] \in Begun /\ job[p] # None
  BY <1>1, KindsApart DEF Transaction
<1>3. Command(p) => job[p] \in Given /\ job[p] # None
  BY <1>1, KindsApart DEF Command
<1> QED
  BY <1>2, <1>3 DEF LedgerInv, Locked, FoundStays

\* The transaction of a request is rolled back, ...
LEMMA RollbackHolds == ASSUME LedgerInv, NEW p \in Procs, Rollback(p) PROVE LedgerInv'
  BY WhichJob, GivenUpHolds DEF Rollback

\* ... or a command fails.
LEMMA FailHolds == ASSUME LedgerInv, NEW p \in Procs, Fail(p) PROVE LedgerInv'
  BY WhichJob, GivenUpHolds DEF Fail

\* A statement commits: nobody is in a transaction.
LEMMA WriteHolds == ASSUME LedgerInv, NEW p \in Procs, Write(p) PROVE LedgerInv'
<1> DEFINE j == job[p]
           e == Stated(j)
<1>1. /\ Command(p) /\ lock = None /\ db' = e /\ job' = [job EXCEPT ![p] = Follow(j)]
      /\ touched' = touched \cup Touched(db')
      /\ now' = now /\ lock' = lock /\ used' = used /\ commands' = commands
  <2>1. job' = [job EXCEPT ![p] = Follow(@)]
    BY DEF Write
  <2>2. job \in [Procs -> {None} \cup Begun \cup Given]
    BY DEF LedgerInv, LedgerTyped
  <2>3. job' = [job EXCEPT ![p] = Follow(j)]
    BY <2>1, <2>2
  <2> QED
    BY <2>3 DEF Write
<1>2. j \in Given /\ j # None /\ Finds(j)
  BY <1>1, WhichJob
<1>3. now \in Nat /\ now \in Times /\ Sound(db, now) /\ StockOnce(db) /\ Known(db, touched) /\ db \in Tables
      /\ touched \subseteq DOMAIN db.decs
  BY InvParts
<1>4. Sound(e, now) /\ Grown(db, e) /\ Commanded(db, e)
  BY <1>2, <1>3, StatedHolds DEF Finds
<1>5. e \in Tables /\ Connected(e, now) /\ InOrder(e)
  BY <1>4 DEF Sound
<1> DEFINE f == Follow(j)
<1>6. (f = None) \/ (f \in Given /\ f.at <= now /\ f.command \in {"floor-evidence", "recommend"}
                     /\ (f.command = "recommend" => j.command = "decision" /\ f.row = j.row))
  <2>1. j.command = "floor-finish" => f = [j EXCEPT !.command = "floor-evidence", !.at = now]
    BY DEF Follow
  <2>2. j.command = "decision" => f = [j EXCEPT !.command = "recommend"]
    BY DEF Follow
  <2>3. j.command # "floor-finish" /\ j.command # "decision" => f = None
    BY DEF Follow
  <2>4. j.at <= now
    BY <1>2 DEF Finds
  <2> HIDE DEF f, j
  <2>5. CASE j.command = "floor-finish"
    <3>1. "floor-evidence" \in Commands
      BY DEF Commands
    <3>2. f \in Given
      BY <1>2, <1>3, <2>1, <2>5, <3>1 DEF Given
    <3>3. f.at = now /\ f.command = "floor-evidence"
      BY <1>2, <2>1, <2>5 DEF Given
    <3>4. f.at <= now
      BY <1>3, <3>3
    <3> QED
      BY <3>2, <3>3, <3>4
  <2>6. CASE j.command = "decision"
    BY <1>2, <2>2, <2>4, <2>6 DEF Given, Commands
  <2> QED
    BY <2>3, <2>5, <2>6
<1> HIDE DEF e, f
<1>7. job \in [Procs -> {None} \cup Begun \cup Given]
  BY DEF LedgerInv, LedgerTyped
<1>8. /\ job' \in [Procs -> {None} \cup Begun \cup Given]
      /\ job'[p] = f /\ \A q \in Procs : q # p => job'[q] = job[q]
  <2>1. f \in {None} \cup Begun \cup Given
    BY <1>6
  <2>2. job' = [job EXCEPT ![p] = f]
    BY <1>1 DEF f
  <2> HIDE DEF j
  <2> QED
    BY <1>7, <2>1, <2>2
<1>9. Touched(e) = IF [e EXCEPT !.points = db.points] = db THEN {} ELSE Waiting(db)
  BY DEF Touched, Waiting
<1>10. touched' = touched \cup Touched(e)
  BY <1>1
<1>11. Known(e, touched')
  BY <1>3, <1>4, <1>5, <1>9, <1>10, CommandedKnown
<1>12. touched' \subseteq DOMAIN e.decs
  <2>1. DOMAIN db.decs \subseteq DOMAIN e.decs
    <3>1. /\ Len(db.decs) \in Nat /\ DOMAIN db.decs = 1..Len(db.decs)
          /\ Len(e.decs) \in Nat /\ DOMAIN e.decs = 1..Len(e.decs)
      BY <1>3, <1>5, TablesTyped
    <3> QED
      BY <1>4, <3>1 DEF Grown
  <2>2. Waiting(db) \subseteq DOMAIN db.decs
    BY DEF Waiting, Pending
  <2> QED
    BY <1>3, <1>9, <1>10, <2>1, <2>2
<1>13. StockOnce(e)
  BY <1>3, <1>4 DEF Commanded
<1>14. LedgerTyped'
  BY <1>1, <1>3, <1>5, <1>8, <1>12 DEF LedgerInv, LedgerTyped
<1>15. (Connected(db, now) /\ InOrder(db) /\ StockOnce(db) /\ Known(db, touched))'
  BY <1>1, <1>5, <1>11, <1>13
<1>16. Locked'
  <2> SUFFICES ASSUME NEW q \in Procs, job'[q] \in Begun, job'[q] # None
               PROVE  FALSE
    BY DEF Locked
  <2>1. CASE q = p
    BY <1>6, <1>8, <2>1, KindsApart
  <2>2. CASE q # p
    <3>1. lock = q
      BY <1>8, <2>2 DEF LedgerInv, Locked
    <3> QED
      BY <1>1, <3>1, LedgerAssumption
  <2> QED
    BY <2>1, <2>2
<1>17. FoundStays'
  <2>1. \A q \in Procs : q # p => (job[q] \in Given /\ job[q] # None => Finds(job[q]))'
    <3>1. now' \in Nat /\ now <= now' /\ db' \in Tables /\ Grown(db, db')
      BY <1>1, <1>3, <1>4, <1>5
    <3> QED
      BY <1>8, <3>1, FoundByOthers
  <2>2. (job[p] \in Given /\ job[p] # None => Finds(job[p]))'
    <3> SUFFICES ASSUME f # None
                 PROVE  Finds(job[p])'
      BY <1>8
    <3>1. f.at <= now' /\ job'[p] = f
      BY <1>1, <1>6, <1>8
    <3>2. f.command = "recommend" => f.row \in DOMAIN db'.floors
      <4>1. j.command = "decision" => j.row \in DOMAIN db.floors
        BY <1>2 DEF Finds
      <4>2. DOMAIN db.floors \subseteq DOMAIN e.floors
        <5>1. /\ Len(db.floors) \in Nat /\ DOMAIN db.floors = 1..Len(db.floors)
              /\ Len(e.floors) \in Nat /\ DOMAIN e.floors = 1..Len(e.floors)
          BY <1>3, <1>5, TablesTyped
        <5> QED
          BY <1>4, <5>1 DEF Grown
      <4> QED
        BY <1>1, <1>6, <4>1, <4>2
    <3>3. f.command \in {"floor-evidence", "recommend"}
      BY <1>6
    <3> QED
      BY <3>1, <3>2, <3>3 DEF Finds
  <2> QED
    BY <2>1, <2>2 DEF FoundStays
<1> QED
  BY <1>14, <1>15, <1>16, <1>17 DEF LedgerInv

\* What the transaction of a request leaves, ...
LEMMA AppliedHolds ==
  ASSUME LedgerInv, NEW r \in AllRequests, Holds(r)
  PROVE  LET e == Applied(r) IN
         Kept(db, e, now, touched \cup IF r.kind = "pause" THEN Touched(e) ELSE {})
<1> DEFINE e == Applied(r)
<1>1. now \in Nat /\ Sound(db, now) /\ StockOnce(db) /\ Known(db, touched) /\ touched \subseteq DOMAIN db.decs
  BY InvParts
<1>2. CASE r.kind = "decision"
  <2>1. e = Prepared(r)
    BY <1>2 DEF Applied
  <2>2. MayPrepare(r)
    BY <1>2 DEF Holds
  <2>3. Kept(db, Prepared(r), now, touched)
    BY <1>1, <1>2, <2>2, PreparedHolds
  <2> QED
    BY <1>2, <2>1, <2>3
<1>3. CASE r.kind = "outcome"
  <2>1. e = Recorded(r)
    BY <1>3 DEF Applied
  <2>2. Kept(db, Recorded(r), now, touched)
    BY <1>1, <1>3, RecordedHolds
  <2> QED
    BY <1>3, <2>1, <2>2
<1>4. CASE r.kind = "resume"
  <2>1. e = Resumed(r)
    BY <1>4 DEF Applied
  <2>2. MayResume(r)
    BY <1>4 DEF Holds
  <2>3. Kept(db, Resumed(r), now, touched)
    BY <1>1, <1>4, <2>2, ResumedHolds
  <2> QED
    BY <1>4, <2>1, <2>3
<1>5. CASE r.kind = "pause"
  <2>1. e = PausedThen(r)
    BY <1>5 DEF Applied
  <2>2. MayPause(r)
    BY <1>5 DEF Holds
  <2>3. Kept(db, PausedThen(r), now, touched \cup Touched(PausedThen(r)))
    BY <1>1, <1>5, <2>2, PausedHolds
  <2> QED
    BY <1>5, <2>1, <2>3
<1> QED
  BY <1>2, <1>3, <1>4, <1>5, RequestTyped

\* ... when it commits.
LEMMA CommitHolds == ASSUME LedgerInv, NEW p \in Procs, Commit(p) PROVE LedgerInv'
<1> DEFINE r == job[p].request
           e == Applied(r)
           T == touched \cup IF r.kind = "pause" THEN Touched(e) ELSE {}
<1>1. /\ Transaction(p) /\ db' = e /\ used' = used \cup {job[p].op} /\ lock' = None
      /\ job' = [job EXCEPT ![p] = None] /\ touched' = T
      /\ now' = now /\ commands' = commands
  BY DEF Commit
<1>2. job[p] \in Begun /\ job[p] # None /\ lock = p /\ Holds(r)
  BY <1>1, WhichJob
<1>3. r \in AllRequests /\ job[p].op \in Ops
  BY <1>2, KindsApart
<1>4. now \in Nat /\ now \in Times /\ db \in Tables /\ touched \subseteq DOMAIN db.decs
  BY InvParts
<1>5. Kept(db, e, now, T)
  BY <1>2, <1>3, AppliedHolds
<1>6. Touched(e) \subseteq DOMAIN db.decs
  BY DEF Touched, Pending
<1>7. T \subseteq DOMAIN db.decs
  BY <1>4, <1>6
<1> HIDE DEF r, e, T
<1>8. e \in Tables /\ Connected(e, now) /\ InOrder(e) /\ StockOnce(e) /\ Known(e, T) /\ Grown(db, e)
  BY <1>5 DEF Kept, Sound
<1>9. DOMAIN db.decs \subseteq DOMAIN e.decs
  <2>1. /\ Len(db.decs) \in Nat /\ DOMAIN db.decs = 1..Len(db.decs)
        /\ Len(e.decs) \in Nat /\ DOMAIN e.decs = 1..Len(e.decs)
    BY <1>4, <1>8, TablesTyped
  <2> QED
    BY <1>8, <2>1 DEF Grown
<1>10. job \in [Procs -> {None} \cup Begun \cup Given] /\ used \subseteq Ops
  BY DEF LedgerInv, LedgerTyped
<1>11. /\ job' \in [Procs -> {None} \cup Begun \cup Given]
       /\ job'[p] = None /\ \A q \in Procs : q # p => job'[q] = job[q]
  BY <1>1, <1>10
<1>12. LedgerTyped'
  BY <1>1, <1>3, <1>4, <1>7, <1>8, <1>9, <1>10, <1>11 DEF LedgerInv, LedgerTyped
<1>13. (Connected(db, now) /\ InOrder(db) /\ StockOnce(db) /\ Known(db, touched))'
  BY <1>1, <1>8
<1>14. Locked'
  <2> SUFFICES ASSUME NEW q \in Procs, job'[q] \in Begun, job'[q] # None
               PROVE  FALSE
    BY DEF Locked
  <2>1. q # p
    BY <1>11
  <2>2. lock = q
    BY <1>11, <2>1 DEF LedgerInv, Locked
  <2> QED
    BY <1>2, <2>1, <2>2
<1>15. FoundStays'
  <2>1. now' \in Nat /\ now <= now' /\ db' \in Tables /\ Grown(db, db')
    BY <1>1, <1>4, <1>8
  <2>2. \A q \in Procs : q # p => (job[q] \in Given /\ job[q] # None => Finds(job[q]))'
    BY <1>11, <2>1, FoundByOthers
  <2> QED
    BY <1>11, <2>2 DEF FoundStays
<1> QED
  BY <1>12, <1>13, <1>14, <1>15 DEF LedgerInv


\* The invariant holds at first: a run with its first floor, and nobody at work.
LEMMA InitHolds == ASSUME Init PROVE LedgerInv
<1>1. /\ now = 0 /\ db = NewRun /\ lock = None /\ used = {} /\ commands = 0 /\ touched = {}
      /\ job = [p \in Procs |-> None]
  BY DEF Init
<1>2. /\ db.status = "active" /\ db.floors = <<[at |-> 0, ends |-> 0]>> /\ db.combats = <<>>
      /\ db.turns = <<>> /\ db.points = <<>> /\ db.decs = <<>> /\ db.rows = <<>>
  BY <1>1 DEF NewRun
<1>3. db \in Tables
  <2>1. [at |-> 0, ends |-> 0] \in Floors
    BY DEF Floors
  <2>2. <<[at |-> 0, ends |-> 0]>> \in Seq(Floors)
    BY <2>1
  <2>3. /\ <<>> \in Seq(Combats) /\ <<>> \in Seq(Turns) /\ <<>> \in Seq(Points)
        /\ <<>> \in Seq(Decisions) /\ <<>> \in Seq(Facts) /\ "active" \in RunStatuses
    BY DEF RunStatuses
  <2>4. NewRun \in Tables
    BY <2>2, <2>3 DEF NewRun, Tables
  <2> QED
    BY <1>1, <2>4
<1>4. /\ DOMAIN db.floors = {1} /\ db.floors[1].at = 0
      /\ DOMAIN db.combats = {} /\ DOMAIN db.turns = {} /\ DOMAIN db.decs = {} /\ DOMAIN db.rows = {}
  <2>1. Len(db.floors) = 1 /\ db.floors[1] = [at |-> 0, ends |-> 0]
    BY <1>2
  <2> QED
    BY <1>2, <2>1
<1>5. LedgerTyped
  BY <1>1, <1>3, LedgerAssumption DEF LedgerTyped, Times
<1>6. Connected(db, now)
  BY <1>1, <1>4 DEF Connected
<1>7. InOrder(db) /\ StockOnce(db)
  BY <1>4 DEF InOrder, StockOnce
<1>8. Known(db, touched)
  <2>1. Waiting(db) = {}
    BY <1>4 DEF Waiting, Pending
  <2> QED
    BY <2>1 DEF Known
<1>9. Locked /\ FoundStays
  BY <1>1 DEF Locked, FoundStays
<1> QED
  BY <1>5, <1>6, <1>7, <1>8, <1>9 DEF LedgerInv

\* Every step keeps the invariant.
LEMMA LedgerInductive == LedgerInv /\ [Next]_vars => LedgerInv'
<1> SUFFICES ASSUME LedgerInv, [Next]_vars
             PROVE  LedgerInv'
  OBVIOUS
<1>1. CASE Tick
  BY <1>1, TickHolds
<1>2. ASSUME NEW p \in Procs, NEW o \in Ops, Begin(p, o)
      PROVE  LedgerInv'
  BY <1>2, BeginHolds
<1>3. ASSUME NEW p \in Procs, NEW j \in Jobs, Start(p, j)
      PROVE  LedgerInv'
  BY <1>3, StartHolds
<1>4. ASSUME NEW p \in Procs, Commit(p)
      PROVE  LedgerInv'
  BY <1>4, CommitHolds
<1>5. ASSUME NEW p \in Procs, Rollback(p)
      PROVE  LedgerInv'
  BY <1>5, RollbackHolds
<1>6. ASSUME NEW p \in Procs, Write(p)
      PROVE  LedgerInv'
  BY <1>6, WriteHolds
<1>7. ASSUME NEW p \in Procs, Fail(p)
      PROVE  LedgerInv'
  BY <1>7, FailHolds
<1>8. CASE UNCHANGED vars
  <2>1. /\ now' = now /\ db' = db /\ lock' = lock /\ job' = job /\ used' = used
        /\ commands' = commands /\ touched' = touched
    BY <1>8 DEF vars
  <2>2. (Connected(db, now) /\ InOrder(db) /\ StockOnce(db) /\ Known(db, touched))'
    BY <2>1, TablesStay
  <2>3. LedgerTyped'
    BY <2>1 DEF LedgerInv, LedgerTyped
  <2>4. \A q \in Procs : (job[q] \in Begun /\ job[q] # None => Holds(job[q].request))'
    <3> SUFFICES ASSUME NEW q \in Procs, job'[q] \in Begun, job'[q] # None
                 PROVE  Holds(job[q].request)'
      OBVIOUS
    <3>1. Holds(job[q].request)
      BY <2>1 DEF LedgerInv, Locked
    <3> QED
      BY <2>1, <3>1, HoldsStays
  <2>5. Locked'
    BY <2>1, <2>4 DEF LedgerInv, Locked
  <2>6. FoundStays'
    BY <2>1 DEF LedgerInv, FoundStays, Finds
  <2> QED
    BY <2>2, <2>3, <2>5, <2>6 DEF LedgerInv
<1> QED
  BY <1>1, <1>2, <1>3, <1>4, <1>5, <1>6, <1>7, <1>8 DEF Next

\* For any number of processes, commands, operation ids and rows, and whatever
\* the clock does: the tables stay connected, a waiting decision remembers a
\* revision that is never written back, and an accepted request stays acceptable
\* until its transaction ends.
THEOREM LedgerInvariant == Spec => []LedgerInv
<1>1. Init => LedgerInv
  BY InitHolds
<1> QED
  BY <1>1, LedgerInductive, PTL DEF Spec

\* The jobs of the invariant are those of the type.
LEMMA TypeHolds == ASSUME LedgerInv PROVE TypeOK
<1>1. LedgerTyped /\ Connected(db, now)
  BY DEF LedgerInv
<1>2. \A p \in Procs : job[p] \in {None} \cup {job[q] : q \in {q \in Procs : Transaction(q) # Command(q)}}
  <2> SUFFICES ASSUME NEW p \in Procs, job[p] # None
               PROVE  Transaction(p) # Command(p)
    OBVIOUS
  <2>1. job[p] \in Begun \/ job[p] \in Given
    BY InvParts
  <2>2. CASE job[p] \in Begun
    <3>1. Transaction(p) = TRUE /\ Command(p) = FALSE
      BY <2>2, KindsApart DEF Transaction, Command
    <3> QED
      BY <3>1
  <2>3. CASE job[p] \in Given
    <3>1. Transaction(p) = FALSE /\ Command(p) = TRUE
      BY <2>3, KindsApart DEF Transaction, Command
    <3> QED
      BY <3>1
  <2> QED
    BY <2>1, <2>2, <2>3
<1>3. job \in [Procs -> {None} \cup {job[p] : p \in {q \in Procs : Transaction(q) # Command(q)}}]
  <2>1. job = [p \in Procs |-> job[p]]
    BY <1>1 DEF LedgerTyped
  <2> QED
    BY <1>2, <2>1
<1>4. db.status \in {"active", "abandoned"}
  BY <1>1, TablesTyped DEF LedgerTyped, RunStatuses
<1> QED
  BY <1>1, <1>3, <1>4 DEF TypeOK, LedgerTyped, Connected

\* A fact that was read from an image is replayed after all that was on record
\* when it was committed, and a decision's belongings are written once at most,
\* when it is settled, whichever processes retry the outcome.
THEOREM FactsStayInOrder == Spec => []FactsInOrder
<1>1. LedgerInv => FactsInOrder
  <2> SUFFICES ASSUME LedgerInv
               PROVE  FactsInOrder
    OBVIOUS
  <2>1. InOrder(db) /\ StockOnce(db)
    BY DEF LedgerInv
  <2>2. \A i : Stocked(i) = StockOf(db, i)
    BY DEF Stocked, StockOf
  <2>3. TypeOK
    BY TypeHolds
  <2>4. \A i \in DOMAIN db.decs :
          Stocked(i) # {} => Cardinality(Stocked(i)) = 1 /\ i \notin Pending(db)
    BY <2>1, <2>2 DEF StockOnce
  <2> QED
    BY <2>1, <2>3, <2>4 DEF FactsInOrder, InOrder
<1> QED
  BY <1>1, LedgerInvariant, PTL

\* What a transaction settles is the decision of its outcome, which no command
\* touched, and with nothing but pauses since it was made.
LEMMA CommitSettles ==
  ASSUME LedgerInv, NEW p \in Procs, Commit(p)
  PROVE  /\ \A i \in DOMAIN db.decs :
              Settles(i) =>
                /\ i \notin touched
                /\ \A k \in db.decs[i].born + 1 .. Len(db.points) : db.points[k].kind = "pause"
         /\ \A q \in Procs :
              lock = q /\ db' # db /\ Transaction(q) /\ job[q].request.kind = "outcome" =>
                Current(db', NextContext(job[q].request), job[q].request.at)
<1> DEFINE r == job[p].request
<1>1. Transaction(p) /\ db' = Applied(r)
  BY DEF Commit
<1>2. job[p] \in Begun /\ lock = p /\ Holds(r)
  BY <1>1, WhichJob
<1>3. r \in AllRequests
  BY <1>2, KindsApart
<1>4. now \in Nat /\ Sound(db, now) /\ StockOnce(db) /\ Known(db, touched)
  BY InvParts
<1> HIDE DEF r
<1>5. CASE r.kind = "outcome"
  <2>1. db' = Recorded(r)
    BY <1>1, <1>5 DEF Applied
  <2>2. /\ Current(db', NextContext(r), r.at)
        /\ \A k \in DOMAIN db.decs : k # r.dec => db'.decs[k] = db.decs[k]
        /\ r.dec \notin touched
        /\ \A k \in db.decs[r.dec].born + 1 .. Len(db.points) : db.points[k].kind = "pause"
    BY <1>2, <1>3, <1>4, <1>5, <2>1, RecordedHolds
  <2>3. \A i \in DOMAIN db.decs : Settles(i) => i = r.dec
    BY <2>2 DEF Settles, Pending
  <2>4. \A q \in Procs : lock = q => job[q].request = r
    BY <1>2 DEF r
  <2> QED
    BY <2>2, <2>3, <2>4
<1>6. CASE r.kind # "outcome"
  <2>1. \A i \in DOMAIN db.decs : ~Settles(i)
    <3>1. CASE r.kind = "decision"
      <4>1. Pending(db) = {}
        BY <1>2, <3>1 DEF Holds, MayPrepare
      <4> QED
        BY <4>1 DEF Settles
    <3>2. CASE r.kind = "resume"
      <4>1. Pending(db) = {}
        BY <1>2, <3>2 DEF Holds, MayResume
      <4> QED
        BY <4>1 DEF Settles
    <3>3. CASE r.kind = "pause"
      <4>1. db' = PausedThen(r) /\ MayPause(r)
        BY <1>1, <1>2, <3>3 DEF Applied, Holds
      <4>2. db'.decs = db.decs
        BY <1>3, <1>4, <3>3, <4>1, PausedHolds
      <4> QED
        BY <4>2 DEF Settles, Pending
    <3> QED
      BY <1>3, <1>6, <3>1, <3>2, <3>3, RequestTyped
  <2>2. \A q \in Procs : lock = q => job[q].request.kind # "outcome"
    BY <1>2, <1>6 DEF r
  <2> QED
    BY <2>1, <2>2
<1> QED
  BY <1>5, <1>6

\* An outcome is committed to the ledger its decision was prepared against, with
\* pauses alone in between, and the context on its receipt is the current one.
THEOREM OutcomesOnSameLedger == Spec => OutcomeOnSameLedger
<1> DEFINE Same ==
      /\ \A i \in DOMAIN db.decs :
           Settles(i) =>
             /\ i \notin touched
             /\ \A k \in db.decs[i].born + 1 .. Len(db.points) : db.points[k].kind = "pause"
      /\ \A p \in Procs :
           lock = p /\ db' # db /\ Transaction(p) /\ job[p].request.kind = "outcome" =>
             Current(db', NextContext(job[p].request), job[p].request.at)
<1>1. LedgerInv /\ [Next]_vars => [Same]_vars
  <2> SUFFICES ASSUME LedgerInv, Next
               PROVE  Same
    OBVIOUS
  <2>1. CASE db' = db
    BY <2>1 DEF Settles, Pending
  <2>2. CASE lock = None
    BY <2>2, LedgerAssumption DEF Settles
  <2>3. CASE \E p \in Procs : Commit(p)
    BY <2>3, CommitSettles
  <2>4. db' = db \/ lock = None \/ \E p \in Procs : Commit(p)
    BY DEF Next, Tick, Begin, Start, Rollback, Write, Fail
  <2> QED
    BY <2>1, <2>2, <2>3, <2>4
<1> QED
  BY <1>1, LedgerInvariant, PTL DEF Spec, OutcomeOnSameLedger

-------------------------------------------------------------------------------
(* What is done to one element of a list after the other *)

GoAlong(g, h, n) == g[0] = h[0] /\ \A k \in 1..n : g[k - 1] = h[k - 1] => g[k] = h[k]
Together(g, h, n) == \A k \in 0..n : g[k] = h[k]

\* Two courses that begin alike, and go on alike while they are, are alike.
LEMMA Alongside ==
  ASSUME NEW n \in Nat, NEW g, NEW h, GoAlong(g, h, n)
  PROVE  Together(g, h, n)
<1> DEFINE S == {k \in 0..n : g[k] = h[k]}
<1>1. 0 \in S
  BY DEF GoAlong
<1>2. \A k \in 1..n : k - 1 \in S => k \in S
  BY DEF GoAlong
<1>3. 0..n \subseteq S
  <2> HIDE DEF S
  <2> QED
    BY <1>1, <1>2, Upwards
<1> QED
  BY <1>3 DEF Together

\* g is the course that step st takes from base through s.
Course(g, X, st, base, s) ==
  /\ g \in [0..Len(s) -> X] /\ g[0] = base
  /\ \A k \in 1..Len(s) : g[k] = st[<<g[k - 1], s[k]>>]

\* A step that stays in X leads from base through every list.
LEMMA Iterates ==
  ASSUME NEW X, NEW D, NEW st \in [X \X D -> X], NEW base \in X, NEW s \in Seq(D)
  PROVE  \E g : Course(g, X, st, base, s)
<1> DEFINE n == Len(s)
           Leads(g, m) == g[0] = base /\ \A k \in 1..m : g[k] = st[<<g[k - 1], s[k]>>]
           T == {m \in 0..n : \E g \in [0..m -> X] : Leads(g, m)}
<1>1. n \in Nat /\ \A k \in 1..n : s[k] \in D
  OBVIOUS
<1> HIDE DEF n
<1>2. 0 \in T
  <2> DEFINE g == [k \in 0..0 |-> base]
  <2>1. g \in [0..0 -> X] /\ Leads(g, 0)
    OBVIOUS
  <2>2. 0 \in 0..n
    BY <1>1
  <2> HIDE DEF g, Leads
  <2> QED
    BY <2>1, <2>2
<1>3. \A m \in 1..n : m - 1 \in T => m \in T
  <2> SUFFICES ASSUME NEW m \in 1..n, NEW g \in [0..(m - 1) -> X], Leads(g, m - 1)
               PROVE  m \in 0..n /\ \E h \in [0..m -> X] : Leads(h, m)
    OBVIOUS
  <2> DEFINE h == [k \in 0..m |-> IF k = m THEN st[<<g[m - 1], s[m]>>] ELSE g[k]]
  <2>1. m \in Nat \ {0} /\ m \in 0..n /\ m - 1 \in 0..(m - 1) /\ s[m] \in D
    BY <1>1
  <2>2. g[m - 1] \in X
    BY <2>1
  <2>3. <<g[m - 1], s[m]>> \in X \X D
    BY <2>1, <2>2
  <2>4. st[<<g[m - 1], s[m]>>] \in X
    BY <2>3
  <2>5. \A k \in 0..m : k # m => k \in 0..(m - 1)
    BY <2>1
  <2>6. h \in [0..m -> X]
    BY <2>4, <2>5
  <2>7. h[0] = base
    BY <2>1
  <2>8. \A k \in 1..m : h[k] = st[<<h[k - 1], s[k]>>]
    <3> SUFFICES ASSUME NEW k \in 1..m
                 PROVE  h[k] = st[<<h[k - 1], s[k]>>]
      OBVIOUS
    <3>1. k - 1 \in 0..m /\ k - 1 # m
      BY <2>1
    <3>2. h[k - 1] = g[k - 1]
      BY <3>1
    <3>3. CASE k = m
      <4>1. m \in 0..m
        BY <2>1
      <4>2. h[m] = st[<<g[m - 1], s[m]>>]
        BY <4>1
      <4> HIDE DEF h
      <4> QED
        BY <3>2, <3>3, <4>2
    <3>4. CASE k # m
      <4>1. k \in 1..(m - 1)
        BY <2>1, <3>4
      <4>2. h[k] = g[k]
        BY <2>1, <3>4
      <4> HIDE DEF h
      <4> QED
        BY <3>2, <4>1, <4>2
    <3> QED
      BY <3>3, <3>4
  <2> HIDE DEF h
  <2> QED
    BY <2>1, <2>6, <2>7, <2>8
<1>4. n \in T
  <2> HIDE DEF T
  <2>1. 0..n \subseteq T
    BY <1>1, <1>2, <1>3, Upwards
  <2>2. n \in 0..n
    BY <1>1
  <2> QED
    BY <2>1, <2>2
<1> QED
  BY <1>4 DEF n, Course

-------------------------------------------------------------------------------
(* The belongings *)

Knowledge == [current : Belongings, coverage : [Categories -> Levels]]

LEMMA BelongingsAre ==
  /\ \A h \in Belongings : DOMAIN h = Categories /\ \A c \in Categories : h[c] \in [Items[c] -> Nat]
  /\ \A h : (h = [c \in Categories |-> h[c]] /\ \A c \in Categories : h[c] \in [Items[c] -> Nat]) => h \in Belongings
  BY DEF Belongings

LEMMA ChangesAre ==
  ASSUME NEW ch \in Changes
  PROVE  /\ ch.category \in Categories /\ ch.item \in Items[ch.category]
         /\ ch.action \in {"acquired", "removed", "consumed", "replaced"}
         /\ Gives(ch) \subseteq Items[ch.category]
         /\ Takes(ch) /\ ch.action # "replaced" => Gives(ch) = {}
         /\ ch.action = "replaced" => Takes(ch) /\ Gives(ch) = {ch.related}
         /\ ~Takes(ch) => ch.action = "acquired"
  BY DEF Changes, Gives, Takes

\* What is taken is one less.
LEMMA LessIs ==
  ASSUME NEW h \in Belongings, NEW ch \in Changes, Takes(ch) => h[ch.category][ch.item] > 0
  PROVE  /\ Less(h, ch) \in Belongings
         /\ \A c \in Categories : \A i \in Items[c] :
              Less(h, ch)[c][i] = IF Takes(ch) /\ c = ch.category /\ i = ch.item THEN h[c][i] - 1 ELSE h[c][i]
<1>1. CASE ~Takes(ch)
  BY <1>1 DEF Less
<1>2. CASE Takes(ch)
  <2> DEFINE d == ch.category
             x == ch.item
             f == [h[d] EXCEPT ![x] = h[d][x] - 1]
             l == [h EXCEPT ![d] = f]
  <2>1. Less(h, ch) = l
    BY <1>2 DEF Less
  <2>2. d \in Categories /\ x \in Items[d]
    BY ChangesAre
  <2>3. DOMAIN h = Categories /\ \A c \in Categories : h[c] \in [Items[c] -> Nat]
    BY BelongingsAre
  <2>4. h[d][x] \in Nat /\ h[d][x] > 0
    BY <1>2, <2>2, <2>3
  <2> HIDE DEF d, x
  <2>5. f \in [Items[d] -> Nat] /\ \A i \in Items[d] : f[i] = IF i = x THEN h[d][i] - 1 ELSE h[d][i]
    BY <2>2, <2>3, <2>4
  <2> HIDE DEF f
  <2>6. \A c \in Categories : l[c] = IF c = d THEN f ELSE h[c]
    BY <2>2, <2>3
  <2>7. l = [c \in Categories |-> l[c]]
    BY <2>3
  <2> HIDE DEF l
  <2>8. \A c \in Categories : l[c] \in [Items[c] -> Nat]
    BY <2>3, <2>5, <2>6
  <2>9. l \in Belongings
    BY <2>7, <2>8, BelongingsAre
  <2> QED
    BY <1>2, <2>1, <2>5, <2>6, <2>9 DEF d, x
<1> QED
  BY <1>1, <1>2

\* What is given is one more.
LEMMA MoreIs ==
  ASSUME NEW h \in Belongings, NEW ch \in Changes
  PROVE  /\ More(h, ch) \in Belongings
         /\ \A c \in Categories : \A i \in Items[c] :
              More(h, ch)[c][i] = IF c = ch.category /\ i \in Gives(ch) THEN h[c][i] + 1 ELSE h[c][i]
<1> DEFINE d == ch.category
           G == Gives(ch)
           f == [i \in DOMAIN h[d] |-> IF i \in G THEN h[d][i] + 1 ELSE h[d][i]]
           l == [h EXCEPT ![d] = f]
<1>1. More(h, ch) = l
  BY DEF More
<1>2. d \in Categories
  BY ChangesAre
<1>3. DOMAIN h = Categories /\ \A c \in Categories : h[c] \in [Items[c] -> Nat]
  BY BelongingsAre
<1> HIDE DEF d, G
<1>4. f \in [Items[d] -> Nat] /\ \A i \in Items[d] : f[i] = IF i \in G THEN h[d][i] + 1 ELSE h[d][i]
  BY <1>2, <1>3
<1> HIDE DEF f
<1>5. \A c \in Categories : l[c] = IF c = d THEN f ELSE h[c]
  BY <1>2, <1>3
<1>6. l = [c \in Categories |-> l[c]]
  BY <1>3
<1> HIDE DEF l
<1>7. \A c \in Categories : l[c] \in [Items[c] -> Nat]
  BY <1>3, <1>4, <1>5
<1>8. l \in Belongings
  BY <1>6, <1>7, BelongingsAre
<1> QED
  BY <1>1, <1>4, <1>5, <1>8 DEF d, G

\* What a change makes of the memory, item by item.
LEMMA ChangedIs ==
  ASSUME NEW m \in Knowledge, NEW ch \in Changes
  PROVE  LET here == Takes(ch) /\ m.current[ch.category][ch.item] > 0
             less(c, i) == IF here /\ c = ch.category /\ i = ch.item
                           THEN m.current[c][i] - 1 ELSE m.current[c][i]
             had == ch.category = "relic" /\ \E i \in Gives(ch) : less(ch.category, i) > 0
             q == Changed(m, ch)
         IN  /\ q \in Knowledge
             /\ \A c \in Categories : \A i \in Items[c] :
                  q.current[c][i] = IF ~had /\ c = ch.category /\ i \in Gives(ch) THEN less(c, i) + 1 ELSE less(c, i)
             /\ \A c \in Categories :
                  q.coverage[c] = IF Takes(ch) /\ ~here /\ m.coverage[c] = "complete" /\ c = ch.category
                                  THEN "partial" ELSE m.coverage[c]
<1> DEFINE here == Takes(ch) /\ m.current[ch.category][ch.item] > 0
           less(c, i) == IF here /\ c = ch.category /\ i = ch.item THEN m.current[c][i] - 1 ELSE m.current[c][i]
           had == ch.category = "relic" /\ \E i \in Gives(ch) : less(ch.category, i) > 0
           l == IF here THEN Less(m.current, ch) ELSE m.current
           q == Changed(m, ch)
<1>1. m.current \in Belongings /\ m.coverage \in [Categories -> Levels]
  BY DEF Knowledge
<1>2. ch.category \in Categories /\ Gives(ch) \subseteq Items[ch.category]
  BY ChangesAre
<1>3. l \in Belongings /\ \A c \in Categories : \A i \in Items[c] : l[c][i] = less(c, i)
  BY <1>1, LessIs
<1>4. had <=> (ch.category = "relic" /\ \E i \in Gives(ch) : l["relic"][i] > 0)
  BY <1>2, <1>3
<1> DEFINE cur == IF had THEN l ELSE More(l, ch)
           cov == IF Takes(ch) /\ ~here /\ m.coverage[ch.category] = "complete"
                  THEN [m.coverage EXCEPT ![ch.category] = "partial"] ELSE m.coverage
<1>5. q = [current |-> cur, coverage |-> cov]
  BY <1>4 DEF Changed
<1>6. cur \in Belongings
  BY <1>3, MoreIs
<1>7. \A c \in Categories : \A i \in Items[c] :
        cur[c][i] = IF ~had /\ c = ch.category /\ i \in Gives(ch) THEN less(c, i) + 1 ELSE less(c, i)
  <2> HIDE DEF l, less, had, here
  <2> QED
    BY <1>3, MoreIs
<1>8. /\ cov \in [Categories -> Levels]
      /\ \A c \in Categories :
            cov[c] = IF Takes(ch) /\ ~here /\ m.coverage[c] = "complete" /\ c = ch.category
                     THEN "partial" ELSE m.coverage[c]
  BY <1>1, <1>2 DEF Levels
<1> HIDE DEF cur, cov
<1>9. q \in Knowledge /\ q.current = cur /\ q.coverage = cov
  BY <1>5, <1>6, <1>8 DEF Knowledge
<1> QED
  BY <1>7, <1>8, <1>9

\* What a row makes of the memory.
LEMMA LearnedIs ==
  ASSUME NEW m \in Knowledge, NEW row \in Rows
  PROVE  Learned(m, row) \in Knowledge
<1>1. CASE row \in EventRows
  BY <1>1, ChangedIs DEF EventRows, Learned
<1>2. CASE row \in BaselineRows
  <2>1. /\ row.kind = "baseline" /\ row.levels \in [Categories -> Levels] /\ row.items \in Belongings
        /\ m.current \in Belongings /\ m.coverage \in [Categories -> Levels]
    BY <1>2 DEF BaselineRows, Knowledge
  <2> DEFINE holds(c) == CASE row.levels[c] = "complete" -> row.items[c]
                           [] row.levels[c] = "partial" -> Merged(m.current[c], row.items[c])
                           [] row.levels[c] = "unknown" -> m.current[c]
             level(c) == CASE row.levels[c] = "complete" -> "complete"
                           [] row.levels[c] = "partial" /\ m.coverage[c] = "unknown" -> "partial"
                           [] OTHER -> m.coverage[c]
             cur == [c \in Categories |-> holds(c)]
             cov == [c \in Categories |-> level(c)]
  <2>2. Learned(m, row) = [current |-> cur, coverage |-> cov]
    BY <2>1 DEF Learned, Observed
  <2>3. cov \in [Categories -> Levels]
    BY <2>1 DEF Levels
  <2>4. \A c \in Categories : cur[c] \in [Items[c] -> Nat]
    <3> SUFFICES ASSUME NEW c \in Categories
                 PROVE  cur[c] \in [Items[c] -> Nat]
      OBVIOUS
    <3>1. /\ m.current[c] \in [Items[c] -> Nat] /\ row.items[c] \in [Items[c] -> Nat]
          /\ row.levels[c] \in {"complete", "partial", "unknown"}
      BY <2>1, BelongingsAre DEF Levels
    <3>2. Merged(m.current[c], row.items[c]) \in [Items[c] -> Nat]
      BY <3>1 DEF Merged
    <3> QED
      BY <3>1, <3>2
  <2>5. cur = [c \in Categories |-> cur[c]]
    <3> HIDE DEF holds
    <3> QED
      OBVIOUS
  <2>6. cur \in Belongings
    BY <2>4, <2>5, BelongingsAre
  <2> HIDE DEF cur, cov
  <2> QED
    BY <2>2, <2>3, <2>6 DEF Knowledge
<1> QED
  BY <1>1, <1>2 DEF Rows

LEMMA NoMemoryIs == NoMemory \in Knowledge
<1>1. Nothing \in Belongings
  <2>1. \A c \in Categories : Nothing[c] \in [Items[c] -> Nat]
    BY DEF Nothing
  <2>2. Nothing = [c \in Categories |-> Nothing[c]]
    BY DEF Nothing
  <2> QED
    BY <2>1, <2>2, BelongingsAre
<1> QED
  BY <1>1 DEF NoMemory, Knowledge, Levels

\* g is what is known after each of the rows.
Learns(g, rows) ==
  /\ g \in [0..Len(rows) -> Knowledge] /\ g[0] = NoMemory
  /\ \A k \in 1..Len(rows) : g[k] = Learned(g[k - 1], rows[k])
  /\ Replayed(rows) = g[Len(rows)]

\* The rows are learned one after the other.
LEMMA InTurn ==
  ASSUME NEW rows \in Seq(Rows)
  PROVE  \E g : Learns(g, rows)
<1> DEFINE n == Len(rows)
           After1(f, k) == IF k = 0 THEN NoMemory ELSE Learned(f[k - 1], rows[k])
           Is(f) == f = [k \in 0..n |-> After1(f, k)]
<1>1. n \in Nat /\ \A k \in 1..n : rows[k] \in Rows
  OBVIOUS
<1>2. PICK st :
        /\ st \in [Knowledge \X Rows -> Knowledge]
        /\ \A m \in Knowledge, row \in Rows : st[<<m, row>>] = Learned(m, row)
  <2> DEFINE f == [p \in Knowledge \X Rows |-> Learned(p[1], p[2])]
  <2>1. f \in [Knowledge \X Rows -> Knowledge]
    BY LearnedIs
  <2>2. \A m \in Knowledge, row \in Rows : f[<<m, row>>] = Learned(m, row)
    OBVIOUS
  <2> HIDE DEF f
  <2> QED
    BY <2>1, <2>2
<1>3. PICK g :
        /\ g \in [0..n -> Knowledge] /\ g[0] = NoMemory
        /\ \A k \in 1..n : g[k] = st[<<g[k - 1], rows[k]>>]
  <2>1. st \in [Knowledge \X Rows -> Knowledge]
    BY <1>2
  <2>2. \E g : Course(g, Knowledge, st, NoMemory, rows)
    BY <2>1, NoMemoryIs, Iterates
  <2> QED
    BY <2>2 DEF Course
<1>4. PICK h : Replayed(rows) = h[n] /\ ((\E f : Is(f)) => Is(h))
  <2> DEFINE f == CHOOSE f : Is(f)
  <2>1. Replayed(rows) = f[n]
    BY DEF Replayed, Folded
  <2> HIDE DEF Is
  <2> QED
    BY <2>1
<1> HIDE DEF n
<1>5. \A k \in 1..n : k - 1 \in 0..n /\ k \in 0..n /\ k # 0
  BY <1>1
<1>6. \A k \in 1..n : g[k] = Learned(g[k - 1], rows[k])
  BY <1>1, <1>2, <1>3, <1>5
<1>7. Is(g)
  <2>1. \A k \in 0..n : k # 0 => k \in 1..n
    BY <1>1
  <2>2. \A k \in 0..n : g[k] = After1(g, k)
    BY <1>3, <1>6, <2>1
  <2> HIDE DEF After1
  <2> QED
    BY <1>3, <2>2
<1>8. Is(h)
  <2> HIDE DEF Is
  <2> QED
    BY <1>4, <1>7
<1>9. h[0] = NoMemory /\ \A k \in 1..n : h[k] = Learned(h[k - 1], rows[k])
  <2>1. \A k \in 0..n : h[k] = After1(h, k)
    <3> HIDE DEF After1
    <3> QED
      BY <1>8
  <2>2. 0 \in 0..n
    BY <1>1
  <2> QED
    BY <1>5, <2>1, <2>2
<1>10. \A k \in 0..n : g[k] = h[k]
  <2>1. g[0] = h[0]
    BY <1>3, <1>9
  <2>2. \A k \in 1..n : g[k - 1] = h[k - 1] => g[k] = h[k]
    BY <1>6, <1>9
  <2>3. GoAlong(g, h, n)
    BY <2>1, <2>2 DEF GoAlong
  <2>4. Together(g, h, n)
    BY <1>1, <2>3, Alongside
  <2> QED
    BY <2>4 DEF Together
<1>11. n \in 0..n
  BY <1>1
<1> QED
  BY <1>3, <1>4, <1>6, <1>10, <1>11 DEF Learns, n

\* A further row.
LEMMA LearnsFurther ==
  ASSUME NEW rows \in Seq(Rows), NEW row \in Rows
  PROVE  Replayed(Append(rows, row)) = Learned(Replayed(rows), row)
<1> DEFINE n == Len(rows)
           more == Append(rows, row)
<1>1. /\ n \in Nat /\ more \in Seq(Rows) /\ Len(more) = n + 1
      /\ \A k \in 1..n : more[k] = rows[k] /\ k \in 1..(n + 1)
      /\ more[n + 1] = row
  OBVIOUS
<1> HIDE DEF more
<1>2. PICK g : Learns(g, rows)
  BY InTurn
<1>3. PICK h : Learns(h, more)
  BY <1>1, InTurn
<1>4. g[0] = h[0] /\ \A k \in 1..n : g[k - 1] = h[k - 1] => g[k] = h[k]
  BY <1>1, <1>2, <1>3 DEF Learns
<1>5. \A k \in 0..n : g[k] = h[k]
  <2> HIDE DEF n
  <2> QED
    <3>1. GoAlong(g, h, n)
      BY <1>4 DEF GoAlong
    <3>2. Together(g, h, n)
      BY <1>1, <3>1, Alongside
    <3> QED
      BY <3>2 DEF Together
<1>6. n \in 0..n /\ n + 1 \in 1..(n + 1) /\ n + 1 - 1 = n
  BY <1>1
<1>7. h[n + 1] = Learned(h[n], row)
  BY <1>1, <1>3, <1>6 DEF Learns
<1> QED
  BY <1>1, <1>2, <1>3, <1>5, <1>6, <1>7 DEF Learns, more

LEMMA NothingLearns == Replayed(<<>>) = NoMemory
<1>1. <<>> \in Seq(Rows) /\ Len(<<>>) = 0
  OBVIOUS
<1>2. PICK g : Learns(g, <<>>)
  BY <1>1, InTurn
<1> QED
  BY <1>1, <1>2 DEF Learns

LEMMA ReplayedIs ==
  ASSUME NEW rows \in Seq(Rows)
  PROVE  Replayed(rows) \in Knowledge
<1>1. PICK g : Learns(g, rows)
  BY InTurn
<1>2. Len(rows) \in 0..Len(rows)
  OBVIOUS
<1> QED
  BY <1>1, <1>2 DEF Learns

\* What is known of the belongings is so.
TrueAt(m, has) ==
  \A c \in Categories : \A i \in Items[c] :
    m.current[c][i] <= has[c][i] /\ (m.coverage[c] = "complete" => m.current[c][i] = has[c][i])

LEMMA ItemsTrue ==
  ASSUME NEW m \in Knowledge, NEW has \in Belongings
  PROVE  TrueOf(m, has) <=> TrueAt(m, has)
<1>1. \A c \in Categories : m.current[c] \in [Items[c] -> Nat] /\ has[c] \in [Items[c] -> Nat]
  BY BelongingsAre DEF Knowledge
<1>2. \A c \in Categories : m.current[c] = has[c] <=> \A i \in Items[c] : m.current[c][i] = has[c][i]
  BY <1>1
<1>3. \A c \in Categories : AtMost(m.current[c], has[c]) <=> \A i \in Items[c] : m.current[c][i] <= has[c][i]
  BY <1>1 DEF AtMost
<1>4. \A c \in Categories : \A i \in Items[c] : m.current[c][i] \in Nat /\ has[c][i] \in Nat
  BY <1>1
<1>5. \A x, y \in Nat : x = y => x <= y
  OBVIOUS
<1> QED
  BY <1>2, <1>3, <1>4, <1>5 DEF TrueOf, TrueAt

Games == [ok : BOOLEAN, has : Belongings]

\* What a change makes of the belongings.
LEMMA HitsIs ==
  ASSUME NEW r \in Games, NEW ch \in Changes
  PROVE  LET q == Hits(r, ch)
             less(c, i) == IF Takes(ch) /\ c = ch.category /\ i = ch.item THEN r.has[c][i] - 1 ELSE r.has[c][i]
         IN  /\ q \in Games
             /\ q.ok => /\ r.ok /\ (Takes(ch) => r.has[ch.category][ch.item] > 0)
                        /\ ch.category = "relic" => \A i \in Gives(ch) : less(ch.category, i) = 0
                        /\ \A c \in Categories : \A i \in Items[c] :
                             q.has[c][i] = IF c = ch.category /\ i \in Gives(ch) THEN less(c, i) + 1 ELSE less(c, i)
             /\ \A c \in Categories \ {ch.category} : q.has[c] = r.has[c]
<1> DEFINE q == Hits(r, ch)
           less(c, i) == IF Takes(ch) /\ c = ch.category /\ i = ch.item THEN r.has[c][i] - 1 ELSE r.has[c][i]
           l == Less(r.has, ch)
           may == Takes(ch) => r.has[ch.category][ch.item] > 0
           ok == /\ r.ok /\ may
                 /\ \A i \in Gives(ch) : l[ch.category][i] < IF ch.category = "relic" THEN 1 ELSE MaxCopies
<1>1. r.ok \in BOOLEAN /\ r.has \in Belongings
  BY DEF Games
<1>2. ch.category \in Categories /\ Gives(ch) \subseteq Items[ch.category]
  BY ChangesAre
<1>3. q.ok = ok /\ q.has = (IF ok THEN More(l, ch) ELSE r.has) /\ q = [ok |-> q.ok, has |-> q.has]
  BY DEF Hits
<1>4. may => l \in Belongings /\ \A c \in Categories : \A i \in Items[c] : l[c][i] = less(c, i)
  BY <1>1, LessIs
<1>5. ASSUME ok
      PROVE  /\ More(l, ch) \in Belongings
             /\ \A c \in Categories : \A i \in Items[c] :
                  More(l, ch)[c][i] = IF c = ch.category /\ i \in Gives(ch) THEN less(c, i) + 1 ELSE less(c, i)
             /\ \A c \in Categories \ {ch.category} : More(l, ch)[c] = r.has[c]
  <2>1. l \in Belongings /\ \A c \in Categories : \A i \in Items[c] : l[c][i] = less(c, i)
    BY <1>4, <1>5
  <2> HIDE DEF l
  <2>2. More(l, ch) \in Belongings
    BY <2>1, MoreIs
  <2>3. \A c \in Categories : \A i \in Items[c] :
          More(l, ch)[c][i] = IF c = ch.category /\ i \in Gives(ch) THEN less(c, i) + 1 ELSE less(c, i)
    <3> HIDE DEF less
    <3> QED
      BY <2>1, MoreIs
  <2>4. ASSUME NEW c \in Categories \ {ch.category}
        PROVE  More(l, ch)[c] = r.has[c]
    <3>1. More(l, ch)[c] \in [Items[c] -> Nat] /\ r.has[c] \in [Items[c] -> Nat]
      BY <1>1, <2>2, BelongingsAre
    <3>2. \A i \in Items[c] : More(l, ch)[c][i] = r.has[c][i]
      BY <2>3
    <3> QED
      BY <3>1, <3>2
  <2> QED
    BY <2>2, <2>3, <2>4
<1>6. q \in Games
  <2>1. q.ok \in BOOLEAN
    BY <1>3
  <2>2. q.has \in Belongings
    <3> HIDE DEF ok, q, l
    <3> QED
      BY <1>1, <1>3, <1>5
  <2> HIDE DEF q
  <2> QED
    BY <1>3, <2>1, <2>2 DEF Games
<1>7. ASSUME ok, ch.category = "relic"
      PROVE  \A i \in Gives(ch) : less(ch.category, i) = 0
  <2>1. l \in Belongings /\ \A c \in Categories : \A i \in Items[c] : l[c][i] = less(c, i)
    BY <1>4, <1>7
  <2>2. l[ch.category] \in [Items[ch.category] -> Nat]
    BY <1>2, <2>1, BelongingsAre
  <2>3. \A i \in Gives(ch) : l[ch.category][i] \in Nat /\ l[ch.category][i] < 1
    BY <1>2, <1>7, <2>2
  <2>4. \A i \in Gives(ch) : l[ch.category][i] = 0
    BY <2>3
  <2> HIDE DEF l, less
  <2> QED
    BY <1>2, <2>1, <2>4
<1>8. ok => r.ok /\ may
  OBVIOUS
<1> HIDE DEF q, less, l, ok
<1> QED
  BY <1>3, <1>5, <1>6, <1>7, <1>8 DEF q, less

\* Arithmetic of what is known, x, and what there is, y, of one item.
LEMMA HandKeeps ==
  ASSUME NEW m \in Knowledge, NEW r \in Games, NEW ch \in Changes, TrueAt(m, r.has), Hits(r, ch).ok
  PROVE  TrueAt(Changed(m, ch), Hits(r, ch).has)
<1> DEFINE here == Takes(ch) /\ m.current[ch.category][ch.item] > 0
           lx(c, i) == IF here /\ c = ch.category /\ i = ch.item THEN m.current[c][i] - 1 ELSE m.current[c][i]
           ly(c, i) == IF Takes(ch) /\ c = ch.category /\ i = ch.item THEN r.has[c][i] - 1 ELSE r.has[c][i]
           had == ch.category = "relic" /\ \E i \in Gives(ch) : lx(ch.category, i) > 0
           q == Changed(m, ch)
           new == Hits(r, ch).has
<1>1. /\ \A c \in Categories : \A i \in Items[c] :
            q.current[c][i] = IF ~had /\ c = ch.category /\ i \in Gives(ch) THEN lx(c, i) + 1 ELSE lx(c, i)
      /\ \A c \in Categories :
            q.coverage[c] = IF Takes(ch) /\ ~here /\ m.coverage[c] = "complete" /\ c = ch.category
                            THEN "partial" ELSE m.coverage[c]
  BY ChangedIs
<1>2. /\ Takes(ch) => r.has[ch.category][ch.item] > 0
      /\ ch.category = "relic" => \A i \in Gives(ch) : ly(ch.category, i) = 0
      /\ \A c \in Categories : \A i \in Items[c] :
            new[c][i] = IF c = ch.category /\ i \in Gives(ch) THEN ly(c, i) + 1 ELSE ly(c, i)
  BY HitsIs
<1>3. /\ ch.category \in Categories /\ ch.item \in Items[ch.category] /\ Gives(ch) \subseteq Items[ch.category]
  BY ChangesAre
<1>4. \A c \in Categories : \A i \in Items[c] : m.current[c][i] \in Nat /\ r.has[c][i] \in Nat
  BY BelongingsAre DEF Knowledge, Games
<1> HIDE DEF q, new
<1>5. \A c \in Categories : \A i \in Items[c] : lx(c, i) \in Nat /\ ly(c, i) \in Nat /\ lx(c, i) <= ly(c, i)
  BY <1>2, <1>3, <1>4 DEF TrueAt
<1>6. \A c \in Categories : q.coverage[c] = "complete" => \A i \in Items[c] : lx(c, i) = ly(c, i)
  <2> SUFFICES ASSUME NEW c \in Categories, q.coverage[c] = "complete", NEW i \in Items[c]
               PROVE  lx(c, i) = ly(c, i)
    OBVIOUS
  <2>1. m.coverage[c] = "complete" /\ m.current[c][i] = r.has[c][i]
    BY <1>1 DEF TrueAt
  <2>2. c = ch.category => ~Takes(ch) \/ here
    BY <1>1, <2>1
  <2> QED
    BY <2>1, <2>2
<1>7. ~had
  <2> HIDE DEF lx, ly, here
  <2> SUFFICES ASSUME ch.category = "relic", NEW i \in Gives(ch), lx(ch.category, i) > 0
               PROVE  FALSE
    OBVIOUS
  <2>1. ly(ch.category, i) = 0 /\ i \in Items[ch.category]
    BY <1>2, <1>3
  <2>2. lx(ch.category, i) \in Nat /\ lx(ch.category, i) <= 0
    BY <1>3, <1>5, <2>1
  <2> QED
    BY <2>2
<1> HIDE DEF lx, ly, had, here
<1> QED
  BY <1>1, <1>2, <1>5, <1>6, <1>7 DEF TrueAt, q, new

\* What is reported of a change, if anything, leaves what is known true.
LEMMA ToldKeeps ==
  ASSUME NEW m \in Knowledge, NEW r \in Games, NEW ch \in Changes, TrueAt(m, r.has), Hits(r, ch).ok
  PROVE  /\ Said(m, ch) = {} => TrueAt(m, Hits(r, ch).has)
         /\ \A e \in Said(m, ch) : e \in Changes /\ TrueAt(Changed(m, e), Hits(r, ch).has)
<1>1. CASE ~(Takes(ch) /\ m.current[ch.category][ch.item] = 0)
  BY <1>1, HandKeeps DEF Said
<1>2. CASE Takes(ch) /\ m.current[ch.category][ch.item] = 0
  <2> DEFINE d == ch.category
             x == ch.item
             ly(c, i) == IF c = d /\ i = x THEN r.has[c][i] - 1 ELSE r.has[c][i]
             new == Hits(r, ch).has
  <2>1. /\ r.has[d][x] > 0
        /\ d = "relic" => \A i \in Gives(ch) : ly(d, i) = 0
        /\ \A c \in Categories : \A i \in Items[c] :
              new[c][i] = IF c = d /\ i \in Gives(ch) THEN ly(c, i) + 1 ELSE ly(c, i)
    <3> HIDE DEF new
    <3> QED
      BY <1>2, HitsIs DEF new
  <2>2. d \in Categories /\ x \in Items[d] /\ Gives(ch) \subseteq Items[d]
    BY ChangesAre
  <2>3. \A c \in Categories : \A i \in Items[c] : m.current[c][i] \in Nat /\ r.has[c][i] \in Nat
    BY BelongingsAre DEF Knowledge, Games
  <2> HIDE DEF new, d, x
  <2>4. m.coverage[d] # "complete" /\ m.current[d][x] = 0
    BY <1>2, <2>1, <2>2, <2>3 DEF TrueAt, d, x
  <2>5. \A c \in Categories : \A i \in Items[c] :
          m.current[c][i] <= ly(c, i) /\ (c # d /\ m.coverage[c] = "complete" => m.current[c][i] = ly(c, i))
    BY <2>1, <2>2, <2>3, <2>4 DEF TrueAt
  <2>6. \A c \in Categories : \A i \in Items[c] : ly(c, i) \in Nat
    BY <2>1, <2>2, <2>3
  <2> HIDE DEF ly
  <2>7. CASE ch.action # "replaced"
    <3>1. Said(m, ch) = {}
      BY <1>2, <2>7 DEF Said
    <3>2. Gives(ch) = {}
      BY <1>2, <2>7, ChangesAre
    <3>3. \A c \in Categories : \A i \in Items[c] : new[c][i] = ly(c, i)
      BY <2>1, <3>2
    <3>4. TrueAt(m, new)
      BY <2>4, <2>5, <3>3 DEF TrueAt
    <3> QED
      BY <3>1, <3>4 DEF new
  <2>8. CASE ch.action = "replaced"
    <3> DEFINE e == [category |-> d, action |-> "acquired", item |-> ch.related, related |-> ch.related]
    <3>1. Said(m, ch) = {e}
      BY <1>2, <2>8 DEF Said, d
    <3>2. e \in Changes /\ e.category = d /\ Gives(e) = Gives(ch) /\ ~Takes(e)
      <4>1. PICK c \in Categories :
              ch \in [category : {c}, action : {"acquired", "removed", "consumed", "replaced"},
                      item : Items[c], related : Items[c] \cup {Lacking}]
        BY DEF Changes
      <4>2. ch.category = c /\ ch.related \in Items[c]
        BY <2>8, <4>1 DEF Changes
      <4>3. e = [category |-> c, action |-> "acquired", item |-> ch.related, related |-> ch.related]
        BY <4>2 DEF d
      <4> HIDE DEF e
      <4>4. e \in [category : {c}, action : {"acquired", "removed", "consumed", "replaced"},
                   item : Items[c], related : Items[c] \cup {Lacking}]
        BY <4>2, <4>3
      <4>5. e.action = "acquired" /\ e.item = ch.related /\ e.category = c
        BY <4>3
      <4>6. e \in Changes
        BY <4>4, <4>5 DEF Changes
      <4>7. Gives(e) = {ch.related} /\ Gives(ch) = {ch.related} /\ ~Takes(e)
        BY <2>8, <4>5 DEF Gives, Takes
      <4> QED
        BY <4>2, <4>5, <4>6, <4>7 DEF d
    <3> HIDE DEF e
    <3>3. \A c \in Categories : \A i \in Items[c] :
            \/ Changed(m, e).current[c][i] = m.current[c][i]
            \/ c = d /\ i \in Gives(ch) /\ Changed(m, e).current[c][i] = m.current[c][i] + 1
      <4>1. LET had == e.category = "relic" /\ \E i \in Gives(e) : m.current[e.category][i] > 0
            IN  \A c \in Categories : \A i \in Items[c] :
                  Changed(m, e).current[c][i] =
                    IF ~had /\ c = e.category /\ i \in Gives(e) THEN m.current[c][i] + 1 ELSE m.current[c][i]
        <5> DEFINE here == Takes(e) /\ m.current[e.category][e.item] > 0
                   less(c, i) == IF here /\ c = e.category /\ i = e.item THEN m.current[c][i] - 1 ELSE m.current[c][i]
                   h2 == e.category = "relic" /\ \E i \in Gives(e) : less(e.category, i) > 0
        <5>1. \A c \in Categories : \A i \in Items[c] :
                Changed(m, e).current[c][i] =
                  IF ~h2 /\ c = e.category /\ i \in Gives(e) THEN less(c, i) + 1 ELSE less(c, i)
          BY <3>2, ChangedIs
        <5>2. ~here
          BY <3>2
        <5>3. \A c \in Categories : \A i \in Items[c] : less(c, i) = m.current[c][i]
          BY <5>2
        <5>4. h2 <=> e.category = "relic" /\ \E i \in Gives(e) : m.current[e.category][i] > 0
          BY <5>2
        <5> HIDE DEF less, h2, here
        <5> QED
          BY <5>1, <5>3, <5>4
      <4> QED
        BY <3>2, <4>1
    <3>4. \A c \in Categories : Changed(m, e).coverage[c] = m.coverage[c]
      BY <3>2, ChangedIs
    <3>5. TrueAt(Changed(m, e), new)
      <4> SUFFICES ASSUME NEW c \in Categories, NEW i \in Items[c]
                   PROVE  /\ Changed(m, e).current[c][i] <= new[c][i]
                          /\ Changed(m, e).coverage[c] = "complete" => Changed(m, e).current[c][i] = new[c][i]
        BY DEF TrueAt
      <4>1. m.current[c][i] \in Nat /\ ly(c, i) \in Nat /\ m.current[c][i] <= ly(c, i)
        BY <2>3, <2>5, <2>6
      <4>2. new[c][i] = IF c = d /\ i \in Gives(ch) THEN ly(c, i) + 1 ELSE ly(c, i)
        BY <2>1
      <4>3. Changed(m, e).current[c][i] <= new[c][i]
        BY <3>3, <4>1, <4>2
      <4>4. ASSUME Changed(m, e).coverage[c] = "complete"
            PROVE  Changed(m, e).current[c][i] = new[c][i]
        <5>1. m.coverage[c] = "complete" /\ c # d
          BY <2>4, <3>4, <4>4
        <5>2. m.current[c][i] = ly(c, i)
          BY <2>5, <5>1
        <5> QED
          BY <3>3, <4>2, <5>1, <5>2
      <4> QED
        BY <4>3, <4>4
    <3> QED
      BY <3>1, <3>2, <3>5 DEF new
  <2> QED
    BY <2>7, <2>8
<1> QED
  BY <1>1, <1>2


-------------------------------------------------------------------------------
(* What is reported of an input *)

Reports == [memory : Knowledge, events : Seq(Changes)]

LEMMA SaidIs ==
  ASSUME NEW m \in Knowledge, NEW ch \in Changes
  PROVE  Said(m, ch) \subseteq Changes
<1>1. CASE ~(Takes(ch) /\ m.current[ch.category][ch.item] = 0)
  BY <1>1 DEF Said
<1>2. CASE Takes(ch) /\ m.current[ch.category][ch.item] = 0 /\ ch.action # "replaced"
  BY <1>2 DEF Said
<1>3. CASE Takes(ch) /\ m.current[ch.category][ch.item] = 0 /\ ch.action = "replaced"
  <2> DEFINE e == [category |-> ch.category, action |-> "acquired", item |-> ch.related, related |-> ch.related]
  <2>1. Said(m, ch) = {e}
    BY <1>3 DEF Said
  <2>2. PICK c \in Categories :
          ch \in [category : {c}, action : {"acquired", "removed", "consumed", "replaced"},
                  item : Items[c], related : Items[c] \cup {Lacking}]
    BY DEF Changes
  <2>3. ch.category = c /\ ch.related \in Items[c]
    BY <1>3, <2>2 DEF Changes
  <2>4. e \in [category : {c}, action : {"acquired", "removed", "consumed", "replaced"},
               item : Items[c], related : Items[c] \cup {Lacking}]
    BY <2>3
  <2>5. e.action = "acquired"
    OBVIOUS
  <2> HIDE DEF e
  <2>6. e \in Changes
    BY <2>4, <2>5 DEF Changes
  <2> QED
    BY <2>1, <2>6
<1> QED
  BY <1>1, <1>2, <1>3

LEMMA ToldIs ==
  ASSUME NEW r \in Reports, NEW ch \in Changes
  PROVE  /\ Told(r, ch) \in Reports
         /\ \/ Said(r.memory, ch) = {} /\ Told(r, ch) = r
            \/ \E e \in Said(r.memory, ch) :
                  Told(r, ch) = [memory |-> Changed(r.memory, e), events |-> Append(r.events, e)]
<1>1. r.memory \in Knowledge /\ r.events \in Seq(Changes)
  BY DEF Reports
<1>2. CASE Said(r.memory, ch) = {}
  BY <1>2 DEF Told
<1>3. CASE Said(r.memory, ch) # {}
  <2>1. PICK e \in Said(r.memory, ch) :
          Told(r, ch) = [memory |-> Changed(r.memory, e), events |-> Append(r.events, e)]
    BY <1>3 DEF Told
  <2>2. e \in Changes
    BY <1>1, SaidIs
  <2>3. Changed(r.memory, e) \in Knowledge
    BY <1>1, <2>2, ChangedIs
  <2>4. Append(r.events, e) \in Seq(Changes)
    BY <1>1, <2>2
  <2>5. [memory |-> Changed(r.memory, e), events |-> Append(r.events, e)] \in Reports
    BY <2>3, <2>4 DEF Reports
  <2> QED
    BY <2>1, <2>5
<1> QED
  BY <1>2, <1>3

\* g is the game after each of the changes.
Happening(g, has, changes) ==
  /\ g \in [0..Len(changes) -> Games] /\ g[0] = [ok |-> TRUE, has |-> has]
  /\ \A k \in 1..Len(changes) : g[k] = Hits(g[k - 1], changes[k])
  /\ Happens(has, changes) = g[Len(changes)]

LEMMA InGame ==
  ASSUME NEW has \in Belongings, NEW changes \in Seq(Changes)
  PROVE  \E g : Happening(g, has, changes)
<1> DEFINE n == Len(changes)
           start == [ok |-> TRUE, has |-> has]
           After1(f, k) == IF k = 0 THEN start ELSE Hits(f[k - 1], changes[k])
           Is(f) == f = [k \in 0..n |-> After1(f, k)]
<1>1. n \in Nat /\ \A k \in 1..n : changes[k] \in Changes
  OBVIOUS
<1>2. PICK st :
        /\ st \in [Games \X Changes -> Games]
        /\ \A x \in Games, d \in Changes : st[<<x, d>>] = Hits(x, d)
  <2> DEFINE f == [p \in Games \X Changes |-> Hits(p[1], p[2])]
  <2>1. f \in [Games \X Changes -> Games]
    BY HitsIs
  <2>2. \A x \in Games, d \in Changes : f[<<x, d>>] = Hits(x, d)
    OBVIOUS
  <2> HIDE DEF f
  <2> QED
    BY <2>1, <2>2
<1>3. PICK g :
        /\ g \in [0..n -> Games] /\ g[0] = start
        /\ \A k \in 1..n : g[k] = st[<<g[k - 1], changes[k]>>]
  <2>1. st \in [Games \X Changes -> Games]
    BY <1>2
  <2>2. start \in Games
    BY DEF Games
  <2>3. \E g : Course(g, Games, st, start, changes)
    <3> HIDE DEF start
    <3> QED
      BY <2>1, <2>2, Iterates
  <2> QED
    BY <2>3 DEF Course
<1>4. PICK h : Happens(has, changes) = h[n] /\ ((\E f : Is(f)) => Is(h))
  <2> DEFINE f == CHOOSE f : Is(f)
  <2>1. Happens(has, changes) = f[n]
    BY DEF Happens, Folded
  <2> HIDE DEF Is
  <2> QED
    BY <2>1
<1> HIDE DEF n
<1>5. \A k \in 1..n : k - 1 \in 0..n /\ k \in 0..n /\ k # 0
  BY <1>1
<1>6. \A k \in 1..n : g[k] = Hits(g[k - 1], changes[k])
  BY <1>1, <1>2, <1>3, <1>5
<1>7. Is(g)
  <2>1. \A k \in 0..n : k # 0 => k \in 1..n
    BY <1>1
  <2>2. \A k \in 0..n : g[k] = After1(g, k)
    BY <1>3, <1>6, <2>1
  <2> HIDE DEF After1
  <2> QED
    BY <1>3, <2>2
<1>8. Is(h)
  <2> HIDE DEF Is
  <2> QED
    BY <1>4, <1>7
<1>9. h[0] = start /\ \A k \in 1..n : h[k] = Hits(h[k - 1], changes[k])
  <2>1. \A k \in 0..n : h[k] = After1(h, k)
    <3> HIDE DEF After1
    <3> QED
      BY <1>8
  <2>2. 0 \in 0..n
    BY <1>1
  <2> QED
    BY <1>5, <2>1, <2>2
<1>10. \A k \in 0..n : g[k] = h[k]
  <2>1. g[0] = h[0]
    BY <1>3, <1>9
  <2>2. \A k \in 1..n : g[k - 1] = h[k - 1] => g[k] = h[k]
    BY <1>6, <1>9
  <2>3. GoAlong(g, h, n)
    BY <2>1, <2>2 DEF GoAlong
  <2>4. Together(g, h, n)
    BY <1>1, <2>3, Alongside
  <2> QED
    BY <2>4 DEF Together
<1>11. n \in 0..n
  BY <1>1
<1> QED
  BY <1>3, <1>4, <1>6, <1>10, <1>11 DEF Happening, n

\* g is what is known, and reported, after each of the changes.
Telling(g, m, changes) ==
  /\ g \in [0..Len(changes) -> Reports] /\ g[0] = [memory |-> m, events |-> <<>>]
  /\ \A k \in 1..Len(changes) : g[k] = Told(g[k - 1], changes[k])
  /\ Reported(m, changes) = g[Len(changes)].events

LEMMA InReport ==
  ASSUME NEW m \in Knowledge, NEW changes \in Seq(Changes)
  PROVE  \E g : Telling(g, m, changes)
<1> DEFINE n == Len(changes)
           start == [memory |-> m, events |-> <<>>]
           After1(f, k) == IF k = 0 THEN start ELSE Told(f[k - 1], changes[k])
           Is(f) == f = [k \in 0..n |-> After1(f, k)]
<1>1. n \in Nat /\ \A k \in 1..n : changes[k] \in Changes
  OBVIOUS
<1>2. PICK st :
        /\ st \in [Reports \X Changes -> Reports]
        /\ \A x \in Reports, d \in Changes : st[<<x, d>>] = Told(x, d)
  <2> DEFINE f == [p \in Reports \X Changes |-> Told(p[1], p[2])]
  <2>1. f \in [Reports \X Changes -> Reports]
    BY ToldIs
  <2>2. \A x \in Reports, d \in Changes : f[<<x, d>>] = Told(x, d)
    OBVIOUS
  <2> HIDE DEF f
  <2> QED
    BY <2>1, <2>2
<1>3. PICK g :
        /\ g \in [0..n -> Reports] /\ g[0] = start
        /\ \A k \in 1..n : g[k] = st[<<g[k - 1], changes[k]>>]
  <2>1. st \in [Reports \X Changes -> Reports]
    BY <1>2
  <2>2. start \in Reports
    BY DEF Reports
  <2>3. \E g : Course(g, Reports, st, start, changes)
    <3> HIDE DEF start
    <3> QED
      BY <2>1, <2>2, Iterates
  <2> QED
    BY <2>3 DEF Course
<1>4. PICK h : Reported(m, changes) = h[n].events /\ ((\E f : Is(f)) => Is(h))
  <2> DEFINE f == CHOOSE f : Is(f)
  <2>1. Reported(m, changes) = f[n].events
    BY DEF Reported, Folded
  <2> HIDE DEF Is
  <2> QED
    BY <2>1
<1> HIDE DEF n
<1>5. \A k \in 1..n : k - 1 \in 0..n /\ k \in 0..n /\ k # 0
  BY <1>1
<1>6. \A k \in 1..n : g[k] = Told(g[k - 1], changes[k])
  BY <1>1, <1>2, <1>3, <1>5
<1>7. Is(g)
  <2>1. \A k \in 0..n : k # 0 => k \in 1..n
    BY <1>1
  <2>2. \A k \in 0..n : g[k] = After1(g, k)
    BY <1>3, <1>6, <2>1
  <2> HIDE DEF After1
  <2> QED
    BY <1>3, <2>2
<1>8. Is(h)
  <2> HIDE DEF Is
  <2> QED
    BY <1>4, <1>7
<1>9. h[0] = start /\ \A k \in 1..n : h[k] = Told(h[k - 1], changes[k])
  <2>1. \A k \in 0..n : h[k] = After1(h, k)
    <3> HIDE DEF After1
    <3> QED
      BY <1>8
  <2>2. 0 \in 0..n
    BY <1>1
  <2> QED
    BY <1>5, <2>1, <2>2
<1>10. \A k \in 0..n : g[k] = h[k]
  <2>1. g[0] = h[0]
    BY <1>3, <1>9
  <2>2. \A k \in 1..n : g[k - 1] = h[k - 1] => g[k] = h[k]
    BY <1>6, <1>9
  <2>3. GoAlong(g, h, n)
    BY <2>1, <2>2 DEF GoAlong
  <2>4. Together(g, h, n)
    BY <1>1, <2>3, Alongside
  <2> QED
    BY <2>4 DEF Together
<1>11. n \in 0..n
  BY <1>1
<1> QED
  BY <1>3, <1>4, <1>6, <1>10, <1>11 DEF Telling, n

LEMMA EventsAre ==
  ASSUME NEW said \in Seq(Changes), NEW at \in Nat
  PROVE  /\ Events(said, at) \in Seq(Rows) /\ Len(Events(said, at)) = Len(said)
         /\ \A k \in 1..Len(said) : Events(said, at)[k] = Event(said[k], at)
         /\ \A e \in Changes : Events(Append(said, e), at) = Append(Events(said, at), Event(e, at))
<1>1. \A e \in Changes : Event(e, at) \in Rows
  BY DEF Event, Rows, EventRows
<1>2. \A t \in Seq(Changes) :
        /\ Events(t, at) \in Seq(Rows) /\ Len(Events(t, at)) = Len(t) /\ DOMAIN Events(t, at) = 1..Len(t)
        /\ \A k \in 1..Len(t) : Events(t, at)[k] = Event(t[k], at)
  <2> SUFFICES ASSUME NEW t \in Seq(Changes)
               PROVE  /\ Events(t, at) \in Seq(Rows) /\ Len(Events(t, at)) = Len(t) /\ DOMAIN Events(t, at) = 1..Len(t)
                      /\ \A k \in 1..Len(t) : Events(t, at)[k] = Event(t[k], at)
    OBVIOUS
  <2>1. DOMAIN t = 1..Len(t) /\ Len(t) \in Nat /\ \A k \in 1..Len(t) : t[k] \in Changes
    OBVIOUS
  <2>2. Events(t, at) \in [1..Len(t) -> Rows]
    BY <1>1, <2>1 DEF Events
  <2>3. \A k \in 1..Len(t) : Events(t, at)[k] = Event(t[k], at)
    BY <2>1 DEF Events
  <2> QED
    BY <2>1, <2>2, <2>3
<1>3. ASSUME NEW e \in Changes
      PROVE  Events(Append(said, e), at) = Append(Events(said, at), Event(e, at))
  <2> DEFINE a == Events(Append(said, e), at)
             b == Append(Events(said, at), Event(e, at))
             n == Len(said)
  <2>1. /\ Append(said, e) \in Seq(Changes) /\ Len(Append(said, e)) = n + 1 /\ n \in Nat
        /\ \A k \in 1..n : Append(said, e)[k] = said[k]
        /\ Append(said, e)[n + 1] = e
    OBVIOUS
  <2>2. /\ a \in Seq(Rows) /\ Len(a) = n + 1 /\ \A k \in 1..(n + 1) : a[k] = Event(Append(said, e)[k], at)
    BY <1>2, <2>1
  <2>3. Events(said, at) \in Seq(Rows) /\ Len(Events(said, at)) = n
    BY <1>2
  <2>4. Event(e, at) \in Rows
    BY <1>1
  <2>5. b \in Seq(Rows) /\ Len(b) = n + 1
    BY <2>3, <2>4
  <2>6. \A k \in 1..n : b[k] = Events(said, at)[k]
    BY <2>3, <2>4
  <2>7. b[n + 1] = Event(e, at)
    BY <2>3, <2>4
  <2>8. \A k \in 1..n : b[k] = Event(said[k], at)
    BY <1>2, <2>6
  <2> HIDE DEF a, b
  <2>9. \A k \in 1..(n + 1) : a[k] = b[k]
    <3> SUFFICES ASSUME NEW k \in 1..(n + 1)
                 PROVE  a[k] = b[k]
      OBVIOUS
    <3>1. CASE k = n + 1
      BY <2>1, <2>2, <2>7, <3>1
    <3>2. CASE k # n + 1
      <4>1. k \in 1..n
        BY <2>1, <3>2
      <4> QED
        BY <2>1, <2>2, <2>8, <4>1
    <3> QED
      BY <3>1, <3>2
  <2>10. a = b
    <3> HIDE DEF n
    <3> QED
      BY <2>2, <2>5, <2>9
  <2> QED
    BY <2>10 DEF a, b
<1> QED
  BY <1>2, <1>3

\* Of a run that is not refused no change was.
LEMMA NoneRefused ==
  ASSUME NEW has \in Belongings, NEW changes \in Seq(Changes), Happens(has, changes).ok
  PROVE  \E g : /\ Happening(g, has, changes)
                /\ \A k \in 0..Len(changes) : g[k] \in Games /\ g[k].ok
<1> DEFINE n == Len(changes)
<1>1. n \in Nat /\ \A k \in 1..n : changes[k] \in Changes
  OBVIOUS
<1>2. PICK g : Happening(g, has, changes)
  BY InGame
<1> DEFINE S == {i \in 0..n : g[n - i].ok}
<1> HIDE DEF n
<1>3. \A k \in 0..n : g[k] \in Games
  BY <1>2 DEF Happening, n
<1>4. 0 \in S
  <2>1. g[n].ok
    BY <1>2 DEF Happening, n
  <2>2. n - 0 = n /\ 0 \in 0..n
    BY <1>1
  <2> QED
    BY <2>1, <2>2
<1>5. \A i \in 1..n : i - 1 \in S => i \in S
  <2> SUFFICES ASSUME NEW i \in 1..n, i - 1 \in S
               PROVE  i \in S
    OBVIOUS
  <2>1. n - i + 1 \in 1..n /\ n - i \in 0..n /\ n - (i - 1) = n - i + 1 /\ (n - i + 1) - 1 = n - i
    BY <1>1
  <2>2. g[n - i + 1] = Hits(g[n - i], changes[n - i + 1]) /\ g[n - i + 1].ok
    BY <1>2, <2>1 DEF Happening, n
  <2>3. PICK r \in Games, ch \in Changes : r = g[n - i] /\ ch = changes[n - i + 1]
    BY <1>1, <1>3, <2>1
  <2>4. Hits(r, ch).ok => r.ok
    BY HitsIs
  <2>5. g[n - i].ok
    BY <2>2, <2>3, <2>4
  <2> QED
    BY <2>1, <2>5
<1>6. \A k \in 0..n : g[k].ok
  <2>1. 0..n \subseteq S
    <3> HIDE DEF S
    <3> QED
      BY <1>1, <1>4, <1>5, Upwards
  <2> SUFFICES ASSUME NEW k \in 0..n
               PROVE  g[k].ok
    OBVIOUS
  <2>2. n - k \in 0..n /\ n - (n - k) = k
    BY <1>1
  <2>3. n - k \in S
    BY <2>1, <2>2
  <2> QED
    BY <2>2, <2>3
<1> QED
  BY <1>2, <1>3, <1>6 DEF n

LEMMA GameStays ==
  ASSUME NEW has \in Belongings, NEW changes \in Seq(Changes)
  PROVE  Happens(has, changes) \in Games
<1>1. PICK g : Happening(g, has, changes)
  BY InGame
<1>2. Len(changes) \in 0..Len(changes)
  OBVIOUS
<1> QED
  BY <1>1, <1>2 DEF Happening

\* Of a true memory the report of an input makes a true memory.
LEMMA ReportKeeps ==
  ASSUME NEW rows \in Seq(Rows), NEW has \in Belongings, NEW changes \in Seq(Changes), NEW at \in Nat,
         TrueAt(Replayed(rows), has), Happens(has, changes).ok
  PROVE  LET said == Reported(Replayed(rows), changes)
         IN  /\ said \in Seq(Changes)
             /\ TrueAt(Replayed(rows \o Events(said, at)), Happens(has, changes).has)
<1> DEFINE n == Len(changes)
           m == Replayed(rows)
<1>1. n \in Nat /\ \A k \in 1..n : changes[k] \in Changes
  OBVIOUS
<1>2. PICK g : /\ Happening(g, has, changes)
               /\ \A k \in 0..n : g[k] \in Games /\ g[k].ok
  BY NoneRefused
<1>3. m \in Knowledge
  BY ReplayedIs
<1>4. PICK t : Telling(t, m, changes)
  <2> HIDE DEF m
  <2> QED
    BY <1>3, InReport
<1> DEFINE Goes(k) == /\ TrueAt(t[k].memory, g[k].has)
                      /\ Replayed(rows \o Events(t[k].events, at)) = t[k].memory
           S == {k \in 0..n : Goes(k)}
<1> HIDE DEF n
<1>5. \A k \in 0..n : t[k] \in Reports /\ t[k].memory \in Knowledge /\ t[k].events \in Seq(Changes)
  BY <1>4 DEF Telling, Reports, n
<1>6. 0 \in S
  <2>1. t[0] = [memory |-> m, events |-> <<>>] /\ g[0] = [ok |-> TRUE, has |-> has]
    BY <1>2, <1>4 DEF Telling, Happening
  <2>2. <<>> \in Seq(Changes)
    OBVIOUS
  <2>3. Events(<<>>, at) \in Seq(Rows) /\ Len(Events(<<>>, at)) = 0
    BY <2>2, EventsAre
  <2>4. rows \o Events(<<>>, at) = rows
    BY <2>3
  <2>5. 0 \in 0..n
    BY <1>1
  <2>6. t[0].memory = m /\ t[0].events = <<>> /\ g[0].has = has
    BY <2>1
  <2>7. TrueAt(t[0].memory, g[0].has)
    BY <2>6
  <2>8. Replayed(rows \o Events(t[0].events, at)) = t[0].memory
    BY <2>4, <2>6
  <2> QED
    BY <2>5, <2>7, <2>8
<1>7. \A k \in 1..n : k - 1 \in S => k \in S
  <2> SUFFICES ASSUME NEW k \in 1..n, k - 1 \in S
               PROVE  k \in S
    OBVIOUS
  <2>1. k - 1 \in 0..n /\ k \in 0..n /\ changes[k] \in Changes
    BY <1>1
  <2>2. PICK m1 \in Knowledge, e1 \in Seq(Changes) : m1 = t[k - 1].memory /\ e1 = t[k - 1].events
    BY <1>5, <2>1
  <2>3. PICK r \in Games, ch \in Changes : r = g[k - 1] /\ ch = changes[k]
    BY <1>2, <2>1
  <2>4. g[k] = Hits(r, ch) /\ g[k].ok
    BY <1>2, <2>1, <2>3 DEF Happening, n
  <2>5. TrueAt(m1, r.has) /\ Replayed(rows \o Events(e1, at)) = m1
    BY <2>2, <2>3
  <2>6. t[k] = Told(t[k - 1], ch)
    BY <1>4, <2>1, <2>3 DEF Telling, n
  <2>7. /\ Said(m1, ch) = {} => TrueAt(m1, g[k].has)
        /\ \A e \in Said(m1, ch) : e \in Changes /\ TrueAt(Changed(m1, e), g[k].has)
    BY <2>4, <2>5, ToldKeeps
  <2>8. \/ Said(m1, ch) = {} /\ t[k] = t[k - 1]
        \/ \E e \in Said(m1, ch) : t[k] = [memory |-> Changed(m1, e), events |-> Append(e1, e)]
    <3>1. PICK q \in Reports : q = t[k - 1]
      BY <1>5, <2>1
    <3>2. \/ Said(q.memory, ch) = {} /\ Told(q, ch) = q
          \/ \E e \in Said(q.memory, ch) :
                Told(q, ch) = [memory |-> Changed(q.memory, e), events |-> Append(q.events, e)]
      BY ToldIs
    <3> QED
      BY <2>2, <2>6, <3>1, <3>2
  <2>9. CASE Said(m1, ch) = {} /\ t[k] = t[k - 1]
    <3>1. TrueAt(t[k].memory, g[k].has)
      BY <2>2, <2>7, <2>9
    <3>2. Replayed(rows \o Events(t[k].events, at)) = t[k].memory
      BY <2>2, <2>5, <2>9
    <3> QED
      BY <2>1, <3>1, <3>2
  <2>10. ASSUME NEW e \in Said(m1, ch), t[k] = [memory |-> Changed(m1, e), events |-> Append(e1, e)]
         PROVE  k \in S
    <3>1. e \in Changes /\ TrueAt(Changed(m1, e), g[k].has)
      BY <2>7
    <3>2. t[k].memory = Changed(m1, e) /\ t[k].events = Append(e1, e)
      BY <2>10
    <3>3. Events(Append(e1, e), at) = Append(Events(e1, at), Event(e, at)) /\ Events(e1, at) \in Seq(Rows)
      BY <3>1, EventsAre
    <3>4. Event(e, at) \in Rows
      BY <3>1 DEF Event, Rows, EventRows
    <3>5. PICK w \in Seq(Rows), x \in Rows : w = Events(e1, at) /\ x = Event(e, at)
      BY <3>3, <3>4
    <3>6. rows \o Append(w, x) = Append(rows \o w, x) /\ rows \o w \in Seq(Rows)
      OBVIOUS
    <3>7. Replayed(Append(rows \o w, x)) = Learned(Replayed(rows \o w), x)
      BY <3>6, LearnsFurther
    <3>8. Learned(m1, x) = Changed(m1, e)
      BY <3>5 DEF Learned, Event
    <3>9. Replayed(rows \o Events(t[k].events, at)) = t[k].memory
      BY <2>5, <3>2, <3>3, <3>5, <3>6, <3>7, <3>8
    <3>10. TrueAt(t[k].memory, g[k].has)
      BY <3>1, <3>2
    <3> QED
      BY <2>1, <3>9, <3>10
  <2> QED
    BY <2>8, <2>9, <2>10
<1>8. n \in S
  <2>1. 0..n \subseteq S
    <3> HIDE DEF S
    <3> QED
      BY <1>1, <1>6, <1>7, Upwards
  <2>2. n \in 0..n
    BY <1>1
  <2> QED
    BY <2>1, <2>2
<1>9. Reported(m, changes) = t[n].events /\ Happens(has, changes) = g[n]
  BY <1>2, <1>4 DEF Telling, Happening, n
<1>10. TrueAt(Replayed(rows \o Events(t[n].events, at)), g[n].has)
  BY <1>8
<1>11. t[n].events \in Seq(Changes)
  BY <1>1, <1>5
<1> QED
  BY <1>9, <1>10, <1>11

\* A category that no change is of stays.
LEMMA OthersStay ==
  ASSUME NEW has \in Belongings, NEW changes \in Seq(Changes), NEW c \in Categories,
         \A ch \in ToSet(changes) : ch.category # c
  PROVE  Happens(has, changes).has[c] = has[c]
<1> DEFINE n == Len(changes)
<1>1. n \in Nat /\ \A k \in 1..n : changes[k] \in Changes /\ changes[k] \in ToSet(changes)
  BY DEF ToSet
<1>2. PICK g : Happening(g, has, changes)
  BY InGame
<1> DEFINE S == {k \in 0..n : g[k].has[c] = has[c]}
<1> HIDE DEF n
<1>3. \A k \in 0..n : g[k] \in Games
  BY <1>2 DEF Happening, n
<1>4. 0 \in S
  <2>1. g[0] = [ok |-> TRUE, has |-> has]
    BY <1>2 DEF Happening
  <2>2. g[0].has = has /\ 0 \in 0..n
    BY <1>1, <2>1
  <2> QED
    BY <2>2
<1>5. \A k \in 1..n : k - 1 \in S => k \in S
  <2> SUFFICES ASSUME NEW k \in 1..n, k - 1 \in S
               PROVE  k \in S
    OBVIOUS
  <2>1. k - 1 \in 0..n /\ k \in 0..n /\ changes[k] \in Changes /\ changes[k].category # c
    BY <1>1
  <2>2. g[k] = Hits(g[k - 1], changes[k])
    BY <1>2 DEF Happening, n
  <2>3. PICK r \in Games, ch \in Changes : r = g[k - 1] /\ ch = changes[k]
    BY <1>3, <2>1
  <2>4. \A d \in Categories \ {ch.category} : Hits(r, ch).has[d] = r.has[d]
    BY HitsIs
  <2>5. g[k].has[c] = g[k - 1].has[c]
    BY <2>1, <2>2, <2>3, <2>4
  <2> QED
    BY <2>1, <2>5
<1>6. n \in S
  <2>1. 0..n \subseteq S
    <3> HIDE DEF S
    <3> QED
      BY <1>1, <1>4, <1>5, Upwards
  <2>2. n \in 0..n
    BY <1>1
  <2> QED
    BY <2>1, <2>2
<1> QED
  BY <1>2, <1>6 DEF Happening, n

\* One change.
LEMMA OneHits ==
  ASSUME NEW has \in Belongings, NEW ch \in Changes
  PROVE  Happens(has, <<ch>>) = Hits([ok |-> TRUE, has |-> has], ch)
<1>1. <<ch>> \in Seq(Changes) /\ Len(<<ch>>) = 1 /\ <<ch>>[1] = ch /\ 1 \in 1..1 /\ 1 - 1 = 0
  OBVIOUS
<1>2. PICK g : Happening(g, has, <<ch>>)
  BY <1>1, InGame
<1> QED
  BY <1>1, <1>2 DEF Happening

\* A reviewed baseline leaves true what is known: what changed is called complete.
LEMMA ObservedKeeps ==
  ASSUME NEW m \in Knowledge, NEW has \in Belongings, NEW since \in Belongings, NEW row \in BaselineRows,
         TrueAt(m, has), Honest(row, since), \A c \in Categories : row.levels[c] # "complete" => since[c] = has[c]
  PROVE  TrueAt(Learned(m, row), since)
<1> DEFINE q == Learned(m, row)
<1>1. /\ row.kind = "baseline" /\ row.levels \in [Categories -> Levels] /\ row.items \in Belongings
      /\ m.current \in Belongings /\ m.coverage \in [Categories -> Levels]
  BY DEF BaselineRows, Knowledge
<1>2. \A c \in Categories :
        /\ q.current[c] = CASE row.levels[c] = "complete" -> row.items[c]
                            [] row.levels[c] = "partial" -> Merged(m.current[c], row.items[c])
                            [] row.levels[c] = "unknown" -> m.current[c]
        /\ q.coverage[c] = CASE row.levels[c] = "complete" -> "complete"
                             [] row.levels[c] = "partial" /\ m.coverage[c] = "unknown" -> "partial"
                             [] OTHER -> m.coverage[c]
  BY <1>1 DEF Learned, Observed
<1> HIDE DEF q
<1> SUFFICES ASSUME NEW c \in Categories, NEW i \in Items[c]
             PROVE  /\ q.current[c][i] <= since[c][i]
                    /\ q.coverage[c] = "complete" => q.current[c][i] = since[c][i]
  BY DEF TrueAt, q
<1>3. /\ m.current[c] \in [Items[c] -> Nat] /\ row.items[c] \in [Items[c] -> Nat]
      /\ has[c] \in [Items[c] -> Nat] /\ since[c] \in [Items[c] -> Nat]
      /\ row.levels[c] \in {"complete", "partial", "unknown"}
  BY <1>1, BelongingsAre DEF Levels
<1>4. /\ m.current[c][i] <= has[c][i]
      /\ m.coverage[c] = "complete" => m.current[c][i] = has[c][i]
  BY DEF TrueAt
<1>5. CASE row.levels[c] = "complete"
  <2>1. q.current[c] = row.items[c]
    BY <1>2, <1>5
  <2>2. row.items[c] = since[c]
    BY <1>5 DEF Honest
  <2> QED
    BY <1>3, <2>1, <2>2
<1>6. CASE row.levels[c] = "partial"
  <2>1. q.current[c] = Merged(m.current[c], row.items[c])
    BY <1>2, <1>6
  <2>2. AtMost(row.items[c], since[c])
    BY <1>6 DEF Honest
  <2>3. q.coverage[c] = "complete" => m.coverage[c] = "complete"
    BY <1>2, <1>6
  <2>4. q.current[c][i] = IF row.items[c][i] > m.current[c][i] THEN row.items[c][i] ELSE m.current[c][i]
    BY <1>3, <2>1 DEF Merged
  <2>5. row.items[c][i] <= since[c][i]
    BY <1>3, <2>2 DEF AtMost
  <2>6. since[c] = has[c]
    BY <1>6
  <2>7. row.items[c][i] \in Nat /\ m.current[c][i] \in Nat /\ since[c][i] \in Nat
    BY <1>3
  <2> QED
    BY <1>4, <2>3, <2>4, <2>5, <2>6, <2>7
<1>7. CASE row.levels[c] = "unknown"
  <2>1. q.current[c] = m.current[c]
    BY <1>2, <1>7
  <2>2. q.coverage[c] = m.coverage[c]
    BY <1>2, <1>7
  <2>3. since[c] = has[c]
    BY <1>7
  <2> QED
    BY <1>4, <2>1, <2>2, <2>3
<1> QED
  BY <1>3, <1>5, <1>6, <1>7

-------------------------------------------------------------------------------
(* Rows that are in time *)

InTime(rows) == \A i, j \in DOMAIN rows : i < j => Earlier(rows, i, j)

LEMMA EarlierIs ==
  ASSUME NEW rows \in Seq(Rows), NEW i \in DOMAIN rows, NEW j \in DOMAIN rows, Earlier(rows, i, j)
  PROVE  ~Earlier(rows, j, i)
<1>1. rows[i].at \in Nat /\ rows[j].at \in Nat /\ i \in Nat /\ j \in Nat
  BY DEF Rows, EventRows, BaselineRows
<1> QED
  BY <1>1 DEF Earlier

PlaceOf(R, n, k) == CHOOSE i \in 1..n : Cardinality({j \in 1..n : <<j, i>> \in R}) + 1 = k

\* To put in order what is in order changes nothing.
LEMMA InPlace ==
  ASSUME NEW n \in Nat, NEW R,
         \A i, j \in 1..n : <<i, j>> \in R => <<j, i>> \notin R, \A i, j \in 1..n : i < j => <<i, j>> \in R
  PROVE  \A k \in 1..n : PlaceOf(R, n, k) = k
<1> DEFINE place(i) == Cardinality({j \in 1..n : <<j, i>> \in R}) + 1
<1>1. ASSUME NEW i \in 1..n
      PROVE  place(i) = i
  <2>1. {j \in 1..n : <<j, i>> \in R} = 1..(i - 1)
    <3>1. \A j \in 1..n : <<j, i>> \in R => j < i
      <4> SUFFICES ASSUME NEW j \in 1..n, <<j, i>> \in R, ~(j < i)
                   PROVE  FALSE
        OBVIOUS
      <4>1. j = i \/ i < j
        OBVIOUS
      <4> QED
        BY <4>1
    <3>2. \A j \in 1..n : j < i => <<j, i>> \in R
      OBVIOUS
    <3>3. \A j \in 1..(i - 1) : j \in 1..n /\ j < i
      OBVIOUS
    <3>4. \A j \in 1..n : j < i => j \in 1..(i - 1)
      OBVIOUS
    <3> QED
      BY <3>1, <3>2, <3>3, <3>4
  <2>2. Cardinality(1..(i - 1)) = i - 1
    <3>1. 1 \in Int /\ i - 1 \in Int /\ ~(1 > i - 1 /\ FALSE)
      OBVIOUS
    <3> QED
      BY <3>1, FS_Interval
  <2>3. i - 1 + 1 = i
    OBVIOUS
  <2> HIDE DEF place
  <2>4. place(i) = (i - 1) + 1
    BY <2>1, <2>2 DEF place
  <2> QED
    BY <2>3, <2>4
<1> SUFFICES ASSUME NEW k \in 1..n
             PROVE  (CHOOSE i \in 1..n : place(i) = k) = k
  BY DEF PlaceOf
<1> HIDE DEF place
<1>2. place(k) = k /\ \A i \in 1..n : place(i) = k => i = k
  BY <1>1
<1> QED
  BY <1>2

LEMMA TimelineIs ==
  ASSUME NEW rows \in Seq(Rows), InTime(rows)
  PROVE  Timeline(rows) = rows
<1> DEFINE n == Len(rows)
           R == {p \in (1..n) \X (1..n) : Earlier(rows, p[1], p[2])}
<1>1. n \in Nat /\ DOMAIN rows = 1..n /\ rows = [k \in 1..n |-> rows[k]]
  OBVIOUS
<1>2. \A i, j \in 1..n : <<i, j>> \in R => <<j, i>> \notin R
  BY <1>1, EarlierIs
<1>3. \A i, j \in 1..n : i < j => <<i, j>> \in R
  BY <1>1 DEF InTime
<1>4. \A k \in 1..n : PlaceOf(R, n, k) = k
  <2> HIDE DEF R
  <2> QED
    BY <1>1, <1>2, <1>3, InPlace
<1>5. Timeline(rows) = [k \in 1..n |-> rows[PlaceOf(R, n, k)]]
  <2>1. \A i \in 1..n : {j \in 1..n : <<j, i>> \in R} = {j \in 1..n : Earlier(rows, j, i)}
    OBVIOUS
  <2>2. Timeline(rows) = [k \in 1..n |-> rows[CHOOSE i \in 1..n : Cardinality({j \in 1..n : Earlier(rows, j, i)}) + 1 = k]]
    BY <1>1 DEF Timeline, Sorted
  <2>3. \A k \in 1..n : (CHOOSE i \in 1..n : Cardinality({j \in 1..n : Earlier(rows, j, i)}) + 1 = k)
                        = PlaceOf(R, n, k)
    BY <2>1 DEF PlaceOf
  <2> HIDE DEF R
  <2> QED
    BY <2>2, <2>3
<1> HIDE DEF R, n
<1> QED
  BY <1>1, <1>4, <1>5

LEMMA HoldingsAre == Holdings(MaxCopies) \subseteq Belongings
<1> SUFFICES ASSUME NEW h \in Holdings(MaxCopies)
             PROVE  h \in Belongings
  OBVIOUS
<1>1. MaxCopies \in Nat
  BY MemoryAssumption
<1>2. h = [c \in Categories |-> h[c]] /\ \A c \in Categories : DOMAIN h[c] = Items[c]
  BY DEF Holdings
<1>3. \A c \in Categories : h[c] \in [Items[c] -> Nat]
  <2> SUFFICES ASSUME NEW c \in Categories
               PROVE  h[c] \in [Items[c] -> Nat]
    OBVIOUS
  <2>1. PICK d \in Categories : h[c] \in [Items[d] -> 0..MaxCopies]
    BY DEF Holdings
  <2>2. Items[d] = Items[c]
    BY <1>2, <2>1
  <2> QED
    BY <1>1, <2>1, <2>2
<1> QED
  BY <1>2, <1>3, BelongingsAre

LEMMA RowsAre ==
  ASSUME NEW rows \in Seq(Rows), NEW k \in DOMAIN rows
  PROVE  rows[k].at \in Nat /\ rows[k].kind \in {"event", "baseline"}
  BY DEF Rows, EventRows, BaselineRows

\* Rows that are added in time.
LEMMA StaysInTime ==
  ASSUME NEW rows \in Seq(Rows), NEW more \in Seq(Rows), InTime(rows), InTime(more),
         \A i \in DOMAIN rows, j \in DOMAIN more :
            rows[i].at < more[j].at \/ (rows[i].at = more[j].at /\ rows[i].kind = "baseline")
  PROVE  rows \o more \in Seq(Rows) /\ InTime(rows \o more)
<1> DEFINE n == Len(rows)
           all == rows \o more
<1>1. /\ n \in Nat /\ Len(more) \in Nat /\ DOMAIN rows = 1..n /\ DOMAIN more = 1..Len(more)
      /\ all \in Seq(Rows) /\ DOMAIN all = 1..(n + Len(more))
      /\ \A k \in 1..n : all[k] = rows[k]
      /\ \A k \in (n + 1)..(n + Len(more)) : all[k] = more[k - n]
  OBVIOUS
<1> HIDE DEF all, n
<1>2. ASSUME NEW i \in DOMAIN all, NEW j \in DOMAIN all, i < j
      PROVE  Earlier(all, i, j)
  <2>1. i \in Nat /\ j \in Nat
    BY <1>1
  <2>2. all[j].kind \in {"event", "baseline"}
    BY <1>1, RowsAre
  <2>3. CASE i \in 1..n /\ j \in 1..n
    <3>1. all[i] = rows[i] /\ all[j] = rows[j] /\ Earlier(rows, i, j)
      BY <1>1, <1>2, <2>3 DEF InTime
    <3> QED
      BY <3>1 DEF Earlier
  <2>4. CASE i \in 1..n /\ j \in (n + 1)..(n + Len(more))
    <3>1. all[i] = rows[i] /\ all[j] = more[j - n] /\ j - n \in DOMAIN more /\ i \in DOMAIN rows
      BY <1>1, <2>4
    <3>2. all[i].at < all[j].at \/ (all[i].at = all[j].at /\ all[i].kind = "baseline")
      BY <3>1
    <3> QED
      BY <1>2, <2>1, <2>2, <3>2 DEF Earlier
  <2>5. CASE i \in (n + 1)..(n + Len(more)) /\ j \in (n + 1)..(n + Len(more))
    <3>1. all[i] = more[i - n] /\ all[j] = more[j - n] /\ i - n \in DOMAIN more /\ j - n \in DOMAIN more
      BY <1>1, <2>5
    <3>2. i - n < j - n /\ (i - n < j - n => i < j)
      BY <1>1, <1>2, <2>1
    <3>3. Earlier(more, i - n, j - n)
      BY <3>1, <3>2 DEF InTime
    <3> QED
      BY <3>1, <3>2, <3>3 DEF Earlier
  <2>6. \/ i \in 1..n /\ j \in 1..n
        \/ i \in 1..n /\ j \in (n + 1)..(n + Len(more))
        \/ i \in (n + 1)..(n + Len(more)) /\ j \in (n + 1)..(n + Len(more))
    BY <1>1, <1>2
  <2> QED
    BY <2>3, <2>4, <2>5, <2>6
<1> QED
  BY <1>1, <1>2 DEF InTime, all

LEMMA EventsInTime ==
  ASSUME NEW said \in Seq(Changes), NEW at \in Nat
  PROVE  InTime(Events(said, at)) /\ \A k \in DOMAIN Events(said, at) : Events(said, at)[k].at = at
<1>1. PICK w \in Seq(Rows) : w = Events(said, at)
  BY EventsAre
<1>2. Len(w) = Len(said) /\ \A k \in 1..Len(said) : w[k] = Event(said[k], at)
  BY <1>1, EventsAre
<1>3. \A k \in DOMAIN w : w[k].at = at /\ w[k].kind = "event" /\ k \in Nat
  <2>1. DOMAIN w = 1..Len(said) /\ \A k \in 1..Len(said) : k \in Nat
    BY <1>2
  <2> QED
    BY <1>2, <2>1 DEF Event
<1>4. InTime(w)
  BY <1>3 DEF InTime, Earlier
<1> QED
  BY <1>1, <1>3, <1>4

LEMMA OneInTime ==
  ASSUME NEW row \in Rows
  PROVE  <<row>> \in Seq(Rows) /\ DOMAIN <<row>> = {1} /\ <<row>>[1] = row /\ InTime(<<row>>)
<1>1. <<row>> \in Seq(Rows) /\ DOMAIN <<row>> = {1} /\ <<row>>[1] = row
  OBVIOUS
<1> QED
  BY <1>1 DEF InTime

LEMMA BaselinesAre ==
  ASSUME NEW at \in Nat, NEW row \in Baselines(MaxCopies, at)
  PROVE  row \in BaselineRows /\ row \in Rows /\ row.at = at
<1>1. PICK l \in Looked, h \in Holdings(MaxCopies) : row = Baseline(l, h, at)
  BY DEF Baselines
<1>2. l \in [Categories -> Levels]
  BY MemoryAssumption
<1>3. h \in Belongings
  BY HoldingsAre
<1>4. row \in BaselineRows /\ row.at = at
  BY <1>1, <1>2, <1>3 DEF Baseline, BaselineRows
<1> QED
  BY <1>4 DEF Rows

-------------------------------------------------------------------------------
(* The rows of the belongings *)

StockTrue ==
  /\ stock \in Seq(Rows) /\ InTime(stock) /\ \A k \in DOMAIN stock : stock[k].at <= imaged
  /\ awaited \in {Lacking} \cup Results
  /\ awaited = Lacking => TrueAt(Replayed(stock), owned)
  /\ awaited # Lacking =>
       /\ awaited.revision <= Len(stock)
       /\ \A k \in DOMAIN awaited.rows : awaited.rows[k].at <= imaged
       /\ Len(stock) = awaited.revision =>
            /\ TrueAt(Replayed(stock), awaited.was)
            /\ InTime(stock \o awaited.rows)
            /\ TrueAt(Replayed(stock \o awaited.rows), owned)

\* The rows are in time, unless an image was used for an outcome and for a
\* checkpoint: what they tell is true of the belongings, or, with the rows of the
\* result that waits, will be.
StockInv ==
  /\ imaged \in Nat /\ owned \in Belongings /\ twice \in BOOLEAN
  /\ ~twice => StockTrue

LEMMA FurtherIs ==
  ASSUME NEW rows \in Seq(Rows), NEW row \in Rows
  PROVE  rows \o <<row>> = Append(rows, row) /\ Replayed(rows \o <<row>>) = Learned(Replayed(rows), row)
<1>1. rows \o <<row>> = Append(rows, row)
  OBVIOUS
<1> QED
  BY <1>1, LearnsFurther

LEMMA StockBegins == InitMemory => StockInv
<1> SUFFICES ASSUME InitMemory
             PROVE  StockInv
  OBVIOUS
<1>1. imaged \in Nat /\ twice \in BOOLEAN /\ owned \in Belongings
  BY HoldingsAre DEF InitMemory
<1>2. stock = <<>> /\ awaited = Lacking
  BY DEF InitMemory
<1>3. stock \in Seq(Rows) /\ InTime(stock) /\ \A k \in DOMAIN stock : stock[k].at <= imaged
  BY <1>2 DEF InTime
<1>4. TrueAt(NoMemory, owned)
  <2>1. \A c \in Categories : \A i \in Items[c] :
          NoMemory.current[c][i] = 0 /\ NoMemory.coverage[c] # "complete"
    BY DEF NoMemory, Nothing
  <2>2. \A c \in Categories : \A i \in Items[c] : owned[c][i] \in Nat
    BY <1>1, BelongingsAre
  <2> QED
    BY <2>1, <2>2 DEF TrueAt
<1> QED
  BY <1>1, <1>2, <1>3, <1>4, NothingLearns DEF StockInv, StockTrue

\* New rows of a later time follow in time.
LEMMA NewFollow ==
  ASSUME NEW rows \in Seq(Rows), NEW more \in Seq(Rows), NEW newest \in Nat, InTime(rows), InTime(more),
         \A k \in DOMAIN rows : rows[k].at <= newest, \A k \in DOMAIN more : more[k].at = newest + 1
  PROVE  rows \o more \in Seq(Rows) /\ InTime(rows \o more) /\ \A k \in DOMAIN (rows \o more) : (rows \o more)[k].at <= newest + 1
<1>1. \A i \in DOMAIN rows, j \in DOMAIN more : rows[i].at < more[j].at
  BY RowsAre
<1>2. rows \o more \in Seq(Rows) /\ InTime(rows \o more)
  BY <1>1, StaysInTime
<1>3. ASSUME NEW k \in DOMAIN (rows \o more)
      PROVE  (rows \o more)[k].at <= newest + 1
  <2>1. CASE k \in DOMAIN rows
    <3>1. (rows \o more)[k] = rows[k]
      BY <2>1
    <3> QED
      BY <2>1, <3>1, RowsAre
  <2>2. CASE k \notin DOMAIN rows
    <3>1. (rows \o more)[k] = more[k - Len(rows)] /\ k - Len(rows) \in DOMAIN more
      BY <2>2
    <3> QED
      BY <3>1
  <2> QED
    BY <2>1, <2>2
<1> QED
  BY <1>2, <1>3

\* A result with rows of the newest image waits to be committed.
LEMMA ResultWaits ==
  ASSUME StockInv, ~twice, awaited = Lacking, NEW rows \in Seq(Rows), InTime(rows),
         \A k \in DOMAIN rows : rows[k].at = imaged + 1, imaged' = imaged + 1, owned' \in Belongings,
         TrueAt(Replayed(stock \o rows), owned'),
         awaited' = [at |-> imaged', was |-> owned, rows |-> rows, revision |-> Len(stock)],
         stock' = stock, twice' = twice
  PROVE  StockInv'
<1>1. /\ imaged \in Nat /\ owned \in Belongings /\ twice \in BOOLEAN
      /\ stock \in Seq(Rows) /\ InTime(stock) /\ \A k \in DOMAIN stock : stock[k].at <= imaged
      /\ TrueAt(Replayed(stock), owned)
  BY DEF StockInv, StockTrue
<1>2. imaged' \in Nat /\ imaged' = imaged + 1
  BY <1>1
<1>3. awaited' \in Results /\ awaited' # Lacking
  BY <1>1, <1>2, LackingAssumption DEF Results
<1>4. /\ awaited'.at = imaged' /\ awaited'.was = owned /\ awaited'.rows = rows /\ awaited'.revision = Len(stock)
  OBVIOUS
<1>5. InTime(stock \o rows)
  BY <1>1, NewFollow
<1>6. \A k \in DOMAIN stock : stock[k].at <= imaged'
  BY <1>1, <1>2, RowsAre
<1>7. Len(stock) <= Len(stock) /\ \A k \in DOMAIN rows : rows[k].at <= imaged'
  BY <1>1, <1>2
<1>8. InTime(stock)' /\ InTime(stock' \o awaited'.rows)
  BY <1>1, <1>4, <1>5
<1>9. TrueAt(Replayed(stock'), awaited'.was) /\ TrueAt(Replayed(stock' \o awaited'.rows), owned')
  BY <1>1, <1>4
<1>10. StockTrue'
  <2>1. stock' \in Seq(Rows) /\ InTime(stock)' /\ \A k \in DOMAIN stock' : stock'[k].at <= imaged'
    BY <1>1, <1>6, <1>8
  <2>2. awaited'.revision <= Len(stock')
    BY <1>4, <1>7
  <2>3. \A k \in DOMAIN awaited'.rows : awaited'.rows[k].at <= imaged'
    BY <1>4, <1>7
  <2>4. InTime(stock' \o awaited'.rows)
    BY <1>8
  <2> QED
    BY <1>3, <1>9, <2>1, <2>2, <2>3, <2>4 DEF StockTrue, InTime, Earlier
<1> QED
  BY <1>1, <1>2, <1>10 DEF StockInv

\* Once an image was used twice nothing more is said.
LEMMA TwiceStays ==
  ASSUME twice' = TRUE, imaged' \in Nat, owned' \in Belongings
  PROVE  StockInv'
  BY DEF StockInv

LEMMA PlayInputKeeps ==
  ASSUME StockInv, NEW changes \in Possible, PlayInput(changes)
  PROVE  StockInv'
<1>1. /\ awaited = Lacking /\ Happens(owned, changes).ok /\ owned' = Happens(owned, changes).has
      /\ imaged' = imaged + 1 /\ stock' = stock /\ twice' = twice
      /\ awaited' = [at |-> imaged', was |-> owned,
                     rows |-> Events(Reported(Remembered(stock), changes), imaged'), revision |-> Len(stock)]
  BY DEF PlayInput
<1>2. changes \in Seq(Changes)
  BY MemoryAssumption
<1>3. imaged \in Nat /\ imaged' \in Nat /\ owned \in Belongings /\ twice \in BOOLEAN
  BY <1>1 DEF StockInv
<1>4. owned' \in Belongings
  BY <1>1, <1>2, <1>3, GameStays DEF Games
<1>5. CASE twice
  BY <1>1, <1>3, <1>4, <1>5, TwiceStays
<1>6. CASE ~twice
  <2>1. stock \in Seq(Rows) /\ InTime(stock) /\ TrueAt(Replayed(stock), owned)
    BY <1>1, <1>6 DEF StockInv, StockTrue
  <2>2. Remembered(stock) = Replayed(stock)
    BY <2>1, TimelineIs DEF Remembered
  <2>3. PICK said : said = Reported(Replayed(stock), changes)
    OBVIOUS
  <2>4. /\ said \in Seq(Changes)
        /\ TrueAt(Replayed(stock \o Events(said, imaged')), Happens(owned, changes).has)
    BY <1>1, <1>2, <1>3, <2>1, <2>3, ReportKeeps
  <2>5. /\ Events(said, imaged') \in Seq(Rows) /\ InTime(Events(said, imaged'))
        /\ \A k \in DOMAIN Events(said, imaged') : Events(said, imaged')[k].at = imaged'
    BY <1>3, <2>4, EventsAre, EventsInTime
  <2>6. PICK rows : rows = Events(said, imaged')
    OBVIOUS
  <2>7. awaited' = [at |-> imaged', was |-> owned, rows |-> rows, revision |-> Len(stock)]
    BY <1>1, <2>2, <2>3, <2>6
  <2>8. TrueAt(Replayed(stock \o rows), owned')
    BY <1>1, <2>4, <2>6
  <2>9. rows \in Seq(Rows) /\ InTime(rows) /\ \A k \in DOMAIN rows : rows[k].at = imaged + 1
    BY <1>1, <2>5, <2>6
  <2> QED
    BY <1>1, <1>4, <1>6, <2>7, <2>8, <2>9, ResultWaits
<1> QED
  BY <1>3, <1>5, <1>6

LEMMA PlayAndInspectKeeps ==
  ASSUME StockInv, NEW changes \in Possible, NEW row \in Baselines(MaxCopies, imaged + 1), PlayAndInspect(changes, row)
  PROVE  StockInv'
<1>1. /\ awaited = Lacking /\ Happens(owned, changes).ok /\ owned' = Happens(owned, changes).has
      /\ imaged' = imaged + 1 /\ stock' = stock /\ twice' = twice
      /\ Honest(row, owned')
      /\ \A ch \in ToSet(changes) : row.levels[ch.category] = "complete"
      /\ awaited' = [at |-> imaged', was |-> owned, rows |-> <<row>>, revision |-> Len(stock)]
  BY DEF PlayAndInspect
<1>2. changes \in Seq(Changes)
  BY MemoryAssumption
<1>3. imaged \in Nat /\ imaged' \in Nat /\ owned \in Belongings /\ twice \in BOOLEAN
  BY <1>1 DEF StockInv
<1>4. owned' \in Belongings
  BY <1>1, <1>2, <1>3, GameStays DEF Games
<1>5. CASE twice
  BY <1>1, <1>3, <1>4, <1>5, TwiceStays
<1>6. CASE ~twice
  <2>1. stock \in Seq(Rows) /\ InTime(stock) /\ TrueAt(Replayed(stock), owned)
    BY <1>1, <1>6 DEF StockInv, StockTrue
  <2>2. row \in BaselineRows /\ row \in Rows /\ row.at = imaged + 1
    BY <1>1, <1>3, BaselinesAre
  <2>3. \A c \in Categories : row.levels[c] # "complete" => owned'[c] = owned[c]
    BY <1>1, <1>2, <1>3, OthersStay
  <2>4. Replayed(stock) \in Knowledge
    BY <2>1, ReplayedIs
  <2>5. TrueAt(Learned(Replayed(stock), row), owned')
    BY <1>1, <1>3, <1>4, <2>1, <2>2, <2>3, <2>4, ObservedKeeps
  <2>6. TrueAt(Replayed(stock \o <<row>>), owned')
    BY <2>1, <2>2, <2>5, FurtherIs
  <2>7. <<row>> \in Seq(Rows) /\ InTime(<<row>>) /\ DOMAIN <<row>> = {1} /\ <<row>>[1] = row
    BY <2>2, OneInTime
  <2>8. PICK rows : rows = <<row>>
    OBVIOUS
  <2>9. \A k \in DOMAIN rows : rows[k].at = imaged + 1
    BY <2>2, <2>7, <2>8
  <2> QED
    BY <1>1, <1>4, <1>6, <2>6, <2>7, <2>8, <2>9, ResultWaits
<1> QED
  BY <1>3, <1>5, <1>6

LEMMA CommitResultKeeps ==
  ASSUME StockInv, CommitResult
  PROVE  StockInv'
<1>1. /\ awaited # Lacking /\ Len(stock) = awaited.revision
      /\ stock' = stock \o awaited.rows /\ awaited' = Lacking
      /\ imaged' = imaged /\ owned' = owned /\ twice' = twice
  BY DEF CommitResult
<1>2. imaged \in Nat /\ owned \in Belongings /\ twice \in BOOLEAN
  BY DEF StockInv
<1>3. CASE twice
  BY <1>1, <1>2, <1>3, TwiceStays
<1>4. CASE ~twice
  <2>1. /\ stock \in Seq(Rows) /\ \A k \in DOMAIN stock : stock[k].at <= imaged
        /\ awaited \in Results
        /\ \A k \in DOMAIN awaited.rows : awaited.rows[k].at <= imaged
        /\ InTime(stock \o awaited.rows)
        /\ TrueAt(Replayed(stock \o awaited.rows), owned)
    BY <1>1, <1>4 DEF StockInv, StockTrue
  <2>2. PICK rows \in Seq(Rows) : rows = awaited.rows
    BY <2>1 DEF Results
  <2>3. stock \o rows \in Seq(Rows)
    BY <2>1
  <2>4. \A k \in DOMAIN (stock \o rows) : (stock \o rows)[k].at <= imaged
    <3> SUFFICES ASSUME NEW k \in DOMAIN (stock \o rows)
                 PROVE  (stock \o rows)[k].at <= imaged
      OBVIOUS
    <3>1. CASE k \in DOMAIN stock
      <4>1. (stock \o rows)[k] = stock[k]
        BY <2>1, <3>1
      <4> QED
        BY <2>1, <3>1, <4>1
    <3>2. CASE k \notin DOMAIN stock
      <4>1. (stock \o rows)[k] = rows[k - Len(stock)] /\ k - Len(stock) \in DOMAIN rows
        BY <2>1, <3>2
      <4> QED
        BY <2>1, <2>2, <4>1
    <3> QED
      BY <3>1, <3>2
  <2>5. StockTrue'
    <3>1. stock' \in Seq(Rows) /\ \A k \in DOMAIN stock' : stock'[k].at <= imaged'
      BY <1>1, <2>2, <2>3, <2>4
    <3>2. InTime(stock)' /\ TrueAt(Replayed(stock'), owned')
      BY <1>1, <2>1
    <3> QED
      BY <1>1, <3>1, <3>2 DEF StockTrue
  <2> QED
    BY <1>1, <1>2, <2>5 DEF StockInv
<1> QED
  BY <1>2, <1>3, <1>4

\* A row of the newest image, and what it tells is true: another result that
\* waits is overtaken by it.
LEMMA RowComes ==
  ASSUME StockInv, ~twice, NEW row \in Rows, imaged' \in Nat, imaged <= imaged', row.at = imaged',
         stock' = Append(stock, row), awaited' = awaited, owned' \in Belongings, twice' = twice,
         \A k \in DOMAIN stock : stock[k].at < row.at \/ (stock[k].at = row.at /\ stock[k].kind = "baseline"),
         awaited = Lacking => TrueAt(Learned(Replayed(stock), row), owned')
  PROVE  StockInv'
<1>1. /\ imaged \in Nat /\ twice \in BOOLEAN
      /\ stock \in Seq(Rows) /\ InTime(stock) /\ \A k \in DOMAIN stock : stock[k].at <= imaged
      /\ awaited \in {Lacking} \cup Results
  BY DEF StockInv, StockTrue
<1>2. stock' = stock \o <<row>> /\ stock' \in Seq(Rows) /\ Len(stock') = Len(stock) + 1 /\ Len(stock) \in Nat
  BY <1>1
<1>3. InTime(stock \o <<row>>)
  <2>1. <<row>> \in Seq(Rows) /\ DOMAIN <<row>> = {1} /\ <<row>>[1] = row /\ InTime(<<row>>)
    BY OneInTime
  <2>2. PICK more : more = <<row>>
    OBVIOUS
  <2>3. \A i \in DOMAIN stock, j \in DOMAIN more :
          stock[i].at < more[j].at \/ (stock[i].at = more[j].at /\ stock[i].kind = "baseline")
    BY <2>1, <2>2
  <2>4. InTime(stock \o more)
    BY <1>1, <2>1, <2>2, <2>3, StaysInTime
  <2> QED
    BY <2>2, <2>4
<1>4. \A k \in DOMAIN stock' : stock'[k].at <= imaged'
  <2> SUFFICES ASSUME NEW k \in DOMAIN stock'
               PROVE  stock'[k].at <= imaged'
    OBVIOUS
  <2>1. CASE k \in DOMAIN stock
    <3>1. stock'[k] = stock[k] /\ stock[k].at <= imaged
      BY <1>1, <2>1
    <3>2. stock[k].at \in Nat
      BY <1>1, <2>1, RowsAre
    <3> QED
      BY <1>1, <3>1, <3>2
  <2>2. CASE k \notin DOMAIN stock
    <3>1. stock'[k] = row
      BY <1>1, <2>2
    <3> QED
      BY <3>1
  <2> QED
    BY <2>1, <2>2
<1>5. awaited' = Lacking => TrueAt(Replayed(stock'), owned')
  BY <1>1, <1>2, FurtherIs
<1>6. awaited' # Lacking =>
        /\ awaited'.revision <= Len(stock') /\ Len(stock') # awaited'.revision
        /\ \A k \in DOMAIN awaited'.rows : awaited'.rows[k].at <= imaged'
  <2> SUFFICES ASSUME awaited # Lacking
               PROVE  /\ awaited.revision <= Len(stock') /\ Len(stock') # awaited.revision
                      /\ \A k \in DOMAIN awaited.rows : awaited.rows[k].at <= imaged'
    OBVIOUS
  <2>1. awaited.revision <= Len(stock) /\ \A k \in DOMAIN awaited.rows : awaited.rows[k].at <= imaged
    BY DEF StockInv, StockTrue
  <2>2. awaited.revision \in Nat /\ awaited.rows \in Seq(Rows)
    BY <1>1 DEF Results
  <2>3. \A k \in DOMAIN awaited.rows : awaited.rows[k].at \in Nat
    BY <2>2, RowsAre
  <2>4. awaited.revision <= Len(stock') /\ Len(stock') # awaited.revision
    BY <1>2, <2>1, <2>2
  <2>5. \A k \in DOMAIN awaited.rows : awaited.rows[k].at <= imaged'
    <3> SUFFICES ASSUME NEW k \in DOMAIN awaited.rows
                 PROVE  awaited.rows[k].at <= imaged'
      OBVIOUS
    <3>1. PICK t \in Nat : t = awaited.rows[k].at
      BY <2>3
    <3>2. t <= imaged
      BY <2>1, <3>1
    <3> QED
      BY <1>1, <3>1, <3>2
  <2> QED
    BY <2>4, <2>5
<1>7. InTime(stock)'
  BY <1>2, <1>3
<1>8. StockTrue'
  BY <1>1, <1>2, <1>4, <1>5, <1>6, <1>7 DEF StockTrue
<1> QED
  BY <1>8 DEF StockInv

LEMMA DiscoverKeeps ==
  ASSUME StockInv, NEW row \in Baselines(MaxCopies, imaged + 1), Discover(row)
  PROVE  StockInv'
<1>1. /\ imaged' = imaged + 1 /\ row.at = imaged' /\ Honest(row, owned) /\ stock' = Append(stock, row)
      /\ owned' = owned /\ awaited' = awaited /\ twice' = twice
  BY DEF Discover
<1>2. imaged \in Nat /\ imaged' \in Nat /\ imaged <= imaged' /\ owned \in Belongings /\ twice \in BOOLEAN
  BY <1>1 DEF StockInv
<1>3. row \in BaselineRows /\ row \in Rows
  BY <1>1, <1>2, BaselinesAre
<1>4. CASE twice
  BY <1>1, <1>2, <1>4, TwiceStays
<1>5. CASE ~twice
  <2>1. stock \in Seq(Rows) /\ \A k \in DOMAIN stock : stock[k].at <= imaged
    BY <1>5 DEF StockInv, StockTrue
  <2>2. \A k \in DOMAIN stock : stock[k].at < row.at
    BY <1>1, <1>2, <2>1, RowsAre
  <2>3. Replayed(stock) \in Knowledge
    BY <2>1, ReplayedIs
  <2>4. awaited = Lacking => TrueAt(Replayed(stock), owned)
    BY <1>5 DEF StockInv, StockTrue
  <2>5. awaited = Lacking => TrueAt(Learned(Replayed(stock), row), owned')
    BY <1>1, <1>2, <1>3, <2>3, <2>4, ObservedKeeps
  <2> QED
    BY <1>1, <1>2, <1>3, <1>5, <2>2, <2>5, RowComes
<1> QED
  BY <1>2, <1>4, <1>5

LEMMA PlayByHandKeeps ==
  ASSUME StockInv, NEW ch \in Changes, PlayByHand(ch)
  PROVE  StockInv'
<1>1. /\ awaited = Lacking /\ Happens(owned, <<ch>>).ok /\ owned' = Happens(owned, <<ch>>).has
      /\ imaged' = imaged + 1 /\ stock' = Append(stock, Event(ch, imaged')) /\ awaited' = awaited /\ twice' = twice
  BY DEF PlayByHand
<1>2. imaged \in Nat /\ imaged' \in Nat /\ imaged <= imaged' /\ owned \in Belongings /\ twice \in BOOLEAN
  BY <1>1 DEF StockInv
<1>3. <<ch>> \in Seq(Changes)
  OBVIOUS
<1>4. owned' \in Belongings
  BY <1>1, <1>2, <1>3, GameStays DEF Games
<1>5. CASE twice
  BY <1>1, <1>2, <1>4, <1>5, TwiceStays
<1>6. CASE ~twice
  <2>1. PICK row : row = Event(ch, imaged')
    OBVIOUS
  <2>2. row \in Rows /\ row.at = imaged' /\ row.kind = "event" /\ row.change = ch
    BY <1>2, <2>1 DEF Event, Rows, EventRows
  <2>3. stock \in Seq(Rows) /\ \A k \in DOMAIN stock : stock[k].at <= imaged
    BY <1>6 DEF StockInv, StockTrue
  <2>4. \A k \in DOMAIN stock : stock[k].at < row.at
    BY <1>1, <1>2, <2>2, <2>3, RowsAre
  <2>5. TrueAt(Replayed(stock), owned) /\ Replayed(stock) \in Knowledge
    BY <1>1, <1>6, <2>3, ReplayedIs DEF StockInv, StockTrue
  <2>6. PICK r \in Games : r = [ok |-> TRUE, has |-> owned]
    BY <1>2 DEF Games
  <2>7. Happens(owned, <<ch>>) = Hits(r, ch)
    BY <1>2, <2>6, OneHits
  <2>8. TrueAt(Changed(Replayed(stock), ch), Hits(r, ch).has)
    BY <1>1, <2>5, <2>6, <2>7, HandKeeps
  <2>9. Learned(Replayed(stock), row) = Changed(Replayed(stock), ch)
    BY <2>2 DEF Learned
  <2>10. TrueAt(Learned(Replayed(stock), row), owned')
    BY <1>1, <2>7, <2>8, <2>9
  <2> QED
    BY <1>1, <1>2, <1>4, <1>6, <2>1, <2>2, <2>4, <2>10, RowComes
<1> QED
  BY <1>2, <1>5, <1>6

LEMMA CheckpointKeeps ==
  ASSUME StockInv, NEW row \in Baselines(MaxCopies, imaged), Checkpoint(row)
  PROVE  StockInv'
<1>1. /\ row.at = imaged /\ Honest(row, owned) /\ stock' = Append(stock, row)
      /\ twice' = (twice \/ \E k \in DOMAIN stock : stock[k].kind = "event" /\ stock[k].at = row.at)
      /\ imaged' = imaged /\ owned' = owned /\ awaited' = awaited
  BY DEF Checkpoint
<1>2. imaged \in Nat /\ imaged' \in Nat /\ imaged <= imaged' /\ owned \in Belongings /\ twice \in BOOLEAN
  BY <1>1 DEF StockInv
<1>3. row \in BaselineRows /\ row \in Rows
  BY <1>1, <1>2, BaselinesAre
<1>4. CASE twice'
  BY <1>1, <1>2, <1>4, TwiceStays
<1>5. CASE ~twice'
  <2>1. ~twice /\ twice' = twice /\ \A k \in DOMAIN stock : ~(stock[k].kind = "event" /\ stock[k].at = row.at)
    BY <1>1, <1>2, <1>5
  <2>2. stock \in Seq(Rows) /\ \A k \in DOMAIN stock : stock[k].at <= imaged
    BY <2>1 DEF StockInv, StockTrue
  <2>3. \A k \in DOMAIN stock : stock[k].at < row.at \/ (stock[k].at = row.at /\ stock[k].kind = "baseline")
    BY <1>1, <1>2, <2>1, <2>2, RowsAre
  <2>4. Replayed(stock) \in Knowledge
    BY <2>2, ReplayedIs
  <2>5. awaited = Lacking => TrueAt(Replayed(stock), owned)
    BY <2>1 DEF StockInv, StockTrue
  <2>6. awaited = Lacking => TrueAt(Learned(Replayed(stock), row), owned')
    BY <1>1, <1>2, <1>3, <2>4, <2>5, ObservedKeeps
  <2> QED
    BY <1>1, <1>2, <1>3, <2>1, <2>3, <2>6, RowComes
<1> QED
  BY <1>4, <1>5

LEMMA StockKept == StockInv /\ [NextBelongings \/ NextZones]_memoryVars => StockInv'
<1> SUFFICES ASSUME StockInv, [NextBelongings \/ NextZones]_memoryVars
             PROVE  StockInv'
  OBVIOUS
<1>1. ASSUME NEW changes \in Possible, PlayInput(changes)
      PROVE  StockInv'
  BY <1>1, PlayInputKeeps
<1>2. ASSUME NEW changes \in Possible, NEW row \in Baselines(MaxCopies, imaged + 1), PlayAndInspect(changes, row)
      PROVE  StockInv'
  BY <1>2, PlayAndInspectKeeps
<1>3. CASE CommitResult
  BY <1>3, CommitResultKeeps
<1>4. ASSUME NEW row \in Baselines(MaxCopies, imaged + 1), Discover(row)
      PROVE  StockInv'
  BY <1>4, DiscoverKeeps
<1>5. ASSUME NEW changes \in Possible, Len(changes) = 1, PlayByHand(changes[1])
      PROVE  StockInv'
  <2>1. changes[1] \in Changes
    BY <1>5, MemoryAssumption
  <2> QED
    BY <1>5, <2>1, PlayByHandKeeps
<1>6. ASSUME NEW row \in Baselines(MaxCopies, imaged), Checkpoint(row)
      PROVE  StockInv'
  BY <1>6, CheckpointKeeps
<1>7. ASSUME stock' = stock, awaited' = awaited, twice' = twice, owned' = owned, imaged' \in Nat, imaged <= imaged'
      PROVE  StockInv'
  <2>1. imaged \in Nat /\ owned \in Belongings /\ twice \in BOOLEAN
    BY DEF StockInv
  <2>2. CASE twice
    BY <1>7, <2>1, <2>2, TwiceStays
  <2>3. CASE ~twice
    <3>1. StockTrue
      BY <2>3 DEF StockInv
    <3>2. \A t \in Nat : t <= imaged => t <= imaged'
      BY <1>7, <2>1
    <3>3. \A k \in DOMAIN stock : stock[k].at <= imaged'
      BY <3>1, <3>2, RowsAre DEF StockTrue
    <3>4. awaited # Lacking => \A k \in DOMAIN awaited.rows : awaited.rows[k].at <= imaged'
      <4> SUFFICES ASSUME awaited # Lacking, NEW k \in DOMAIN awaited.rows
                   PROVE  awaited.rows[k].at <= imaged'
        OBVIOUS
      <4>1. awaited.rows \in Seq(Rows)
        BY <3>1 DEF StockTrue, Results
      <4>2. awaited.rows[k].at <= imaged
        BY <3>1 DEF StockTrue
      <4> QED
        BY <3>2, <4>1, <4>2, RowsAre
    <3>5. InTime(stock)' /\ (awaited # Lacking => InTime(stock \o awaited.rows)' = InTime(stock \o awaited.rows))
      BY <1>7, <3>1 DEF StockTrue, InTime, Earlier
    <3>6. StockTrue'
      BY <1>7, <3>1, <3>3, <3>4, <3>5 DEF StockTrue
    <3> QED
      BY <1>7, <2>1, <3>6 DEF StockInv
  <2> QED
    BY <2>1, <2>2, <2>3
<1>8. CASE OpenZones
  <2>1. imaged' = imaged + 1 /\ imaged \in Nat
    BY <1>8 DEF OpenZones, StockInv
  <2> QED
    BY <1>7, <1>8, <2>1 DEF OpenZones
<1>9. ASSUME NEW movements \in Played, NEW digest \in 1..2, NEW told \in 0..Len(movements), MoveCards(movements, told, digest)
      PROVE  StockInv'
  <2>1. imaged' = imaged + 1 /\ imaged \in Nat /\ UNCHANGED <<owned, stock, awaited, twice>>
    BY <1>9 DEF MoveCards, StockInv
  <2> QED
    BY <1>7, <2>1
<1>10. CASE UNCHANGED memoryVars
  <2>1. imaged' = imaged /\ imaged \in Nat /\ UNCHANGED <<owned, stock, awaited, twice>>
    BY <1>10 DEF memoryVars, StockInv
  <2> QED
    BY <1>7, <2>1
<1> QED
  BY <1>1, <1>2, <1>3, <1>4, <1>5, <1>6, <1>8, <1>9, <1>10 DEF NextBelongings, NextZones

LEMMA StockTells == StockInv => BelongingsAreTrue
<1> SUFFICES ASSUME StockInv, ~twice, ~Overtaken
             PROVE  TrueOf(Remembered(stock), IF awaited = Lacking THEN owned ELSE awaited.was)
  BY DEF BelongingsAreTrue
<1>1. StockTrue /\ owned \in Belongings
  BY DEF StockInv
<1>2. stock \in Seq(Rows) /\ InTime(stock)
  BY <1>1 DEF StockTrue
<1>3. Remembered(stock) = Replayed(stock) /\ Replayed(stock) \in Knowledge
  BY <1>2, TimelineIs, ReplayedIs DEF Remembered
<1>4. CASE awaited = Lacking
  <2>1. TrueAt(Replayed(stock), owned)
    BY <1>1, <1>4 DEF StockTrue
  <2> QED
    BY <1>1, <1>3, <1>4, <2>1, ItemsTrue
<1>5. CASE awaited # Lacking
  <2>1. Len(stock) = awaited.revision
    BY <1>5 DEF Overtaken
  <2>2. TrueAt(Replayed(stock), awaited.was) /\ awaited \in Results
    BY <1>1, <1>5, <2>1 DEF StockTrue
  <2>3. awaited.was \in Belongings
    BY <2>2 DEF Results
  <2> QED
    BY <1>3, <1>5, <2>2, <2>3, ItemsTrue
<1> QED
  BY <1>4, <1>5

-------------------------------------------------------------------------------
(* The cards of a fight *)

Piles == [Zones -> [DOMAIN Deck -> Int]]
Views == [known : BOOLEAN, zones : Piles]
Fights == [ok : BOOLEAN, p : Piles]
ZoneRowSet == [at : Nat, id : Nat \X Nat, movement : Movements \cup {Untold}]

LEMMA MovementsAre ==
  ASSUME NEW mv \in Movements
  PROVE  /\ mv.kind \in {"moved", "shuffle"} /\ mv.from \in Zones \cup {Lacking} /\ mv.to \in Zones \cup {Lacking}
         /\ mv.kind # "shuffle" => mv.card \in DOMAIN Deck
  BY DEF Movements

\* One card more or less.
LEMMA OneCard ==
  ASSUME NEW p \in Piles, NEW z \in Zones, NEW x \in DOMAIN Deck, NEW n \in Int
  PROVE  [p EXCEPT ![z][x] = n] \in Piles
<1> DEFINE f == [p[z] EXCEPT ![x] = n]
<1>1. p[z] \in [DOMAIN Deck -> Int]
  BY DEF Piles
<1>2. f \in [DOMAIN Deck -> Int]
  BY <1>1
<1> HIDE DEF f
<1>3. [p EXCEPT ![z] = f] \in Piles
  BY <1>2 DEF Piles
<1> QED
  BY <1>3 DEF f

LEMMA MovedIs ==
  ASSUME NEW p \in Piles, NEW mv \in Movements
  PROVE  MovedCard(p, mv) \in Piles
<1>1. CASE mv.kind = "shuffle"
  <2>1. MovedCard(p, mv) = Shuffled(p)
    BY <1>1 DEF MovedCard
  <2>2. \A z \in Zones : p[z] \in [DOMAIN Deck -> Int]
    BY DEF Piles
  <2>3. [x \in DOMAIN Deck |-> p["draw"][x] + p["discard"][x]] \in [DOMAIN Deck -> Int]
    BY <2>2 DEF Zones
  <2>4. NoCards \in [DOMAIN Deck -> Int]
    BY DEF NoCards
  <2> QED
    BY <2>1, <2>2, <2>3, <2>4 DEF Shuffled, Piles
<1>2. CASE mv.kind # "shuffle"
  <2> DEFINE left == IF mv.from = Lacking THEN p ELSE [p EXCEPT ![mv.from][mv.card] = @ - 1]
  <2>1. mv.card \in DOMAIN Deck
    BY <1>2, MovementsAre
  <2>2. left \in Piles
    <3>1. CASE mv.from = Lacking
      BY <3>1
    <3>2. CASE mv.from # Lacking
      <4>1. mv.from \in Zones
        BY <3>2, MovementsAre
      <4>2. p[mv.from][mv.card] - 1 \in Int
        BY <2>1, <4>1 DEF Piles
      <4>3. left = [p EXCEPT ![mv.from][mv.card] = p[mv.from][mv.card] - 1]
        BY <3>2
      <4> QED
        BY <2>1, <4>1, <4>2, <4>3, OneCard
    <3> QED
      BY <3>1, <3>2
  <2>3. MovedCard(p, mv) = IF mv.to = Lacking THEN left ELSE [left EXCEPT ![mv.to][mv.card] = @ + 1]
    BY <1>2 DEF MovedCard
  <2> HIDE DEF left
  <2>4. CASE mv.to = Lacking
    BY <2>2, <2>3, <2>4
  <2>5. CASE mv.to # Lacking
    <3>1. mv.to \in Zones
      BY <2>5, MovementsAre
    <3>2. left[mv.to][mv.card] + 1 \in Int
      BY <2>1, <2>2, <3>1 DEF Piles
    <3>3. MovedCard(p, mv) = [left EXCEPT ![mv.to][mv.card] = left[mv.to][mv.card] + 1]
      BY <2>3, <2>5
    <3>4. PICK n \in Int : n = left[mv.to][mv.card] + 1
      BY <3>2
    <3>5. [left EXCEPT ![mv.to][mv.card] = n] \in Piles
      BY <2>1, <2>2, <3>1, OneCard
    <3> QED
      BY <3>3, <3>4, <3>5
  <2> QED
    BY <2>4, <2>5
<1> QED
  BY <1>1, <1>2

LEMMA OpeningIs ==
  ASSUME NEW hand \in Hands
  PROVE  Opening(hand) \in Piles /\ Opening(hand)["hand"] = hand
<1>1. hand \in [DOMAIN Deck -> Int]
  BY MemoryAssumption DEF Hands
<1>2. [x \in DOMAIN Deck |-> Deck[x] - hand[x]] \in [DOMAIN Deck -> Int]
  BY <1>1, MemoryAssumption
<1>3. NoCards \in [DOMAIN Deck -> Int]
  BY DEF NoCards
<1> QED
  BY <1>1, <1>2, <1>3 DEF Opening, Piles, Zones

\* What is known after a row was known before it.
LEMMA ReplacedIs ==
  ASSUME NEW s \in Views, NEW row \in ZoneRowSet
  PROVE  LET q == Replaced(s, row)
         IN  /\ q \in Views
             /\ row.movement = Untold => ~q.known
             /\ row.movement \in Movements /\ q.known => s.known /\ q.zones = MovedCard(s.zones, row.movement)
<1> DEFINE mv == row.movement
           q == Replaced(s, row)
<1>1. s.known \in BOOLEAN /\ s.zones \in Piles /\ s = [known |-> s.known, zones |-> s.zones]
  BY DEF Views
<1>2. CASE mv = Untold
  <2>1. q = [s EXCEPT !.known = FALSE]
    BY <1>2 DEF Replaced, ReplayedMovement, Untold
  <2>2. q \in Views /\ ~q.known
    BY <1>1, <2>1 DEF Views
  <2>3. Untold \notin Movements
    BY DEF Untold, Movements
  <2> QED
    BY <1>2, <2>2, <2>3
<1>3. CASE mv \in Movements
  <2>1. mv.kind # "unknown" /\ mv # Untold
    BY <1>3, MovementsAre DEF Untold
  <2>2. CASE Possibly(s.zones, mv)
    <3>1. q = [s EXCEPT !.zones = MovedCard(s.zones, mv)]
      BY <2>1, <2>2 DEF Replaced, ReplayedMovement
    <3>2. MovedCard(s.zones, mv) \in Piles
      BY <1>1, <1>3, MovedIs
    <3>3. q \in Views /\ q.known = s.known /\ q.zones = MovedCard(s.zones, mv)
      BY <1>1, <3>1, <3>2 DEF Views
    <3> QED
      BY <2>1, <3>3
  <2>3. CASE ~Possibly(s.zones, mv)
    <3>1. q = [s EXCEPT !.known = FALSE]
      BY <2>1, <2>3 DEF Replaced, ReplayedMovement
    <3>2. q \in Views /\ ~q.known
      BY <1>1, <3>1 DEF Views
    <3> QED
      BY <2>1, <3>2
  <2> QED
    BY <2>2, <2>3
<1> QED
  BY <1>2, <1>3 DEF ZoneRowSet

LEMMA HandledIs ==
  ASSUME NEW r \in Fights, NEW mv \in Movements
  PROVE  LET q == Handled(r, mv)
         IN  q \in Fights /\ (q.ok => r.ok /\ q.p = MovedCard(r.p, mv))
<1> DEFINE q == Handled(r, mv)
           ok == r.ok /\ Possibly(r.p, mv)
<1>1. r.ok \in BOOLEAN /\ r.p \in Piles
  BY DEF Fights
<1>2. q = [ok |-> ok, p |-> IF ok THEN MovedCard(r.p, mv) ELSE r.p]
  BY DEF Handled
<1>3. MovedCard(r.p, mv) \in Piles
  BY <1>1, MovedIs
<1>4. ok \in BOOLEAN
  BY <1>1
<1> HIDE DEF q
<1>5. q \in Fights
  <2>1. (IF ok THEN MovedCard(r.p, mv) ELSE r.p) \in Piles
    BY <1>1, <1>3
  <2> HIDE DEF ok
  <2> QED
    BY <1>2, <1>4, <2>1 DEF Fights
<1>6. q.ok => ok /\ q.p = MovedCard(r.p, mv)
  <2> HIDE DEF ok
  <2> QED
    BY <1>2
<1> QED
  BY <1>5, <1>6 DEF q

\* g is what is known of the cards after each of the rows.
Watching(g, hand, rows) ==
  /\ g \in [0..Len(rows) -> Views] /\ g[0] = [known |-> TRUE, zones |-> Opening(hand)]
  /\ \A k \in 1..Len(rows) : g[k] = Replaced(g[k - 1], rows[k])
  /\ ZonesAfter(hand, rows) = g[Len(rows)]

LEMMA InView ==
  ASSUME NEW hand \in Hands, NEW rows \in Seq(ZoneRowSet)
  PROVE  \E g : Watching(g, hand, rows)
<1> DEFINE n == Len(rows)
           start == [known |-> TRUE, zones |-> Opening(hand)]
           After1(f, k) == IF k = 0 THEN start ELSE Replaced(f[k - 1], rows[k])
           Is(f) == f = [k \in 0..n |-> After1(f, k)]
<1>1. n \in Nat /\ \A k \in 1..n : rows[k] \in ZoneRowSet
  OBVIOUS
<1>2. PICK st :
        /\ st \in [Views \X ZoneRowSet -> Views]
        /\ \A x \in Views, d \in ZoneRowSet : st[<<x, d>>] = Replaced(x, d)
  <2> DEFINE f == [p \in Views \X ZoneRowSet |-> Replaced(p[1], p[2])]
  <2>1. f \in [Views \X ZoneRowSet -> Views]
    BY ReplacedIs
  <2>2. \A x \in Views, d \in ZoneRowSet : f[<<x, d>>] = Replaced(x, d)
    OBVIOUS
  <2> HIDE DEF f
  <2> QED
    BY <2>1, <2>2
<1>3. PICK g :
        /\ g \in [0..n -> Views] /\ g[0] = start
        /\ \A k \in 1..n : g[k] = st[<<g[k - 1], rows[k]>>]
  <2>1. st \in [Views \X ZoneRowSet -> Views]
    BY <1>2
  <2>2. start \in Views
    BY OpeningIs DEF Views
  <2>3. \E g : Course(g, Views, st, start, rows)
    <3> HIDE DEF start
    <3> QED
      BY <2>1, <2>2, Iterates
  <2> QED
    BY <2>3 DEF Course
<1>4. PICK h : ZonesAfter(hand, rows) = h[n] /\ ((\E f : Is(f)) => Is(h))
  <2> DEFINE f == CHOOSE f : Is(f)
  <2>1. ZonesAfter(hand, rows) = f[n]
    BY DEF ZonesAfter, Folded
  <2> HIDE DEF Is
  <2> QED
    BY <2>1
<1> HIDE DEF n
<1>5. \A k \in 1..n : k - 1 \in 0..n /\ k \in 0..n /\ k # 0
  BY <1>1
<1>6. \A k \in 1..n : g[k] = Replaced(g[k - 1], rows[k])
  BY <1>1, <1>2, <1>3, <1>5
<1>7. Is(g)
  <2>1. \A k \in 0..n : k # 0 => k \in 1..n
    BY <1>1
  <2>2. \A k \in 0..n : g[k] = After1(g, k)
    BY <1>3, <1>6, <2>1
  <2> HIDE DEF After1
  <2> QED
    BY <1>3, <2>2
<1>8. Is(h)
  <2> HIDE DEF Is
  <2> QED
    BY <1>4, <1>7
<1>9. h[0] = start /\ \A k \in 1..n : h[k] = Replaced(h[k - 1], rows[k])
  <2>1. \A k \in 0..n : h[k] = After1(h, k)
    <3> HIDE DEF After1
    <3> QED
      BY <1>8
  <2>2. 0 \in 0..n
    BY <1>1
  <2> QED
    BY <1>5, <2>1, <2>2
<1>10. \A k \in 0..n : g[k] = h[k]
  <2>1. g[0] = h[0]
    BY <1>3, <1>9
  <2>2. \A k \in 1..n : g[k - 1] = h[k - 1] => g[k] = h[k]
    BY <1>6, <1>9
  <2>3. GoAlong(g, h, n)
    BY <2>1, <2>2 DEF GoAlong
  <2>4. Together(g, h, n)
    BY <1>1, <2>3, Alongside
  <2> QED
    BY <2>4 DEF Together
<1>11. n \in 0..n
  BY <1>1
<1> QED
  BY <1>3, <1>4, <1>6, <1>10, <1>11 DEF Watching, n

\* g is where the cards are after each of the movements.
Carrying(g, p, movements) ==
  /\ g \in [0..Len(movements) -> Fights] /\ g[0] = [ok |-> TRUE, p |-> p]
  /\ \A k \in 1..Len(movements) : g[k] = Handled(g[k - 1], movements[k])
  /\ CardsAfter(p, movements) = g[Len(movements)]

LEMMA InFight ==
  ASSUME NEW p \in Piles, NEW movements \in Seq(Movements)
  PROVE  \E g : Carrying(g, p, movements)
<1> DEFINE n == Len(movements)
           start == [ok |-> TRUE, p |-> p]
           After1(f, k) == IF k = 0 THEN start ELSE Handled(f[k - 1], movements[k])
           Is(f) == f = [k \in 0..n |-> After1(f, k)]
<1>1. n \in Nat /\ \A k \in 1..n : movements[k] \in Movements
  OBVIOUS
<1>2. PICK st :
        /\ st \in [Fights \X Movements -> Fights]
        /\ \A x \in Fights, d \in Movements : st[<<x, d>>] = Handled(x, d)
  <2> DEFINE f == [q \in Fights \X Movements |-> Handled(q[1], q[2])]
  <2>1. f \in [Fights \X Movements -> Fights]
    BY HandledIs
  <2>2. \A x \in Fights, d \in Movements : f[<<x, d>>] = Handled(x, d)
    OBVIOUS
  <2> HIDE DEF f
  <2> QED
    BY <2>1, <2>2
<1>3. PICK g :
        /\ g \in [0..n -> Fights] /\ g[0] = start
        /\ \A k \in 1..n : g[k] = st[<<g[k - 1], movements[k]>>]
  <2>1. st \in [Fights \X Movements -> Fights]
    BY <1>2
  <2>2. start \in Fights
    BY DEF Fights
  <2>3. \E g : Course(g, Fights, st, start, movements)
    <3> HIDE DEF start
    <3> QED
      BY <2>1, <2>2, Iterates
  <2> QED
    BY <2>3 DEF Course
<1>4. PICK h : CardsAfter(p, movements) = h[n] /\ ((\E f : Is(f)) => Is(h))
  <2> DEFINE f == CHOOSE f : Is(f)
  <2>1. CardsAfter(p, movements) = f[n]
    BY DEF CardsAfter, Folded
  <2> HIDE DEF Is
  <2> QED
    BY <2>1
<1> HIDE DEF n
<1>5. \A k \in 1..n : k - 1 \in 0..n /\ k \in 0..n /\ k # 0
  BY <1>1
<1>6. \A k \in 1..n : g[k] = Handled(g[k - 1], movements[k])
  BY <1>1, <1>2, <1>3, <1>5
<1>7. Is(g)
  <2>1. \A k \in 0..n : k # 0 => k \in 1..n
    BY <1>1
  <2>2. \A k \in 0..n : g[k] = After1(g, k)
    BY <1>3, <1>6, <2>1
  <2> HIDE DEF After1
  <2> QED
    BY <1>3, <2>2
<1>8. Is(h)
  <2> HIDE DEF Is
  <2> QED
    BY <1>4, <1>7
<1>9. h[0] = start /\ \A k \in 1..n : h[k] = Handled(h[k - 1], movements[k])
  <2>1. \A k \in 0..n : h[k] = After1(h, k)
    <3> HIDE DEF After1
    <3> QED
      BY <1>8
  <2>2. 0 \in 0..n
    BY <1>1
  <2> QED
    BY <1>5, <2>1, <2>2
<1>10. \A k \in 0..n : g[k] = h[k]
  <2>1. g[0] = h[0]
    BY <1>3, <1>9
  <2>2. \A k \in 1..n : g[k - 1] = h[k - 1] => g[k] = h[k]
    BY <1>6, <1>9
  <2>3. GoAlong(g, h, n)
    BY <2>1, <2>2 DEF GoAlong
  <2>4. Together(g, h, n)
    BY <1>1, <2>3, Alongside
  <2> QED
    BY <2>4 DEF Together
<1>11. n \in 0..n
  BY <1>1
<1> QED
  BY <1>3, <1>4, <1>6, <1>10, <1>11 DEF Carrying, n

-------------------------------------------------------------------------------
(* The rows of the cards *)

InIdOrder(rows) == \A i, j \in DOMAIN rows : i < j => EarlierId(rows, i, j)

LEMMA ZoneRowsAre ==
  ASSUME NEW rows \in Seq(ZoneRowSet), NEW k \in DOMAIN rows
  PROVE  rows[k].at \in Nat /\ rows[k].id[1] \in Nat /\ rows[k].id[2] \in Nat
<1>1. rows[k] \in ZoneRowSet
  OBVIOUS
<1>2. rows[k].at \in Nat /\ rows[k].id \in Nat \X Nat
  BY <1>1 DEF ZoneRowSet
<1> QED
  BY <1>2

LEMMA EarlierIdIs ==
  ASSUME NEW rows \in Seq(ZoneRowSet), NEW i \in DOMAIN rows, NEW j \in DOMAIN rows, EarlierId(rows, i, j)
  PROVE  ~EarlierId(rows, j, i)
<1>1. /\ rows[i].at \in Nat /\ rows[i].id[1] \in Nat /\ rows[i].id[2] \in Nat
      /\ rows[j].at \in Nat /\ rows[j].id[1] \in Nat /\ rows[j].id[2] \in Nat
  BY ZoneRowsAre
<1> QED
  BY <1>1 DEF EarlierId

LEMMA ZoneStateIs ==
  ASSUME NEW rows \in Seq(ZoneRowSet), InIdOrder(rows), NEW hand
  PROVE  ZoneState(hand, rows) = ZonesAfter(hand, rows)
<1> DEFINE n == Len(rows)
           R == {p \in (1..n) \X (1..n) : EarlierId(rows, p[1], p[2])}
           ordered == Sorted(rows, LAMBDA i, j : EarlierId(rows, i, j))
<1>1. n \in Nat /\ DOMAIN rows = 1..n /\ rows = [k \in 1..n |-> rows[k]]
  OBVIOUS
<1>2. \A i, j \in 1..n : <<i, j>> \in R => <<j, i>> \notin R
  BY <1>1, EarlierIdIs
<1>3. \A i, j \in 1..n : i < j => <<i, j>> \in R
  BY <1>1 DEF InIdOrder
<1>4. \A k \in 1..n : PlaceOf(R, n, k) = k
  <2> HIDE DEF R
  <2> QED
    BY <1>1, <1>2, <1>3, InPlace
<1>5. ordered = [k \in 1..n |-> rows[PlaceOf(R, n, k)]]
  <2>1. \A i \in 1..n : {j \in 1..n : <<j, i>> \in R} = {j \in 1..n : EarlierId(rows, j, i)}
    OBVIOUS
  <2>2. ordered = [k \in 1..n |-> rows[CHOOSE i \in 1..n : Cardinality({j \in 1..n : EarlierId(rows, j, i)}) + 1 = k]]
    BY <1>1 DEF Sorted
  <2>3. \A k \in 1..n : (CHOOSE i \in 1..n : Cardinality({j \in 1..n : EarlierId(rows, j, i)}) + 1 = k)
                        = PlaceOf(R, n, k)
    BY <2>1 DEF PlaceOf
  <2>4. PICK o : o = ordered
    OBVIOUS
  <2>5. o = [k \in 1..n |-> rows[CHOOSE i \in 1..n : Cardinality({j \in 1..n : EarlierId(rows, j, i)}) + 1 = k]]
    BY <2>2, <2>4
  <2> HIDE DEF R, ordered
  <2> HIDE DEF n
  <2>6. \A k \in 1..n : rows[CHOOSE i \in 1..n : Cardinality({j \in 1..n : EarlierId(rows, j, i)}) + 1 = k]
                         = rows[PlaceOf(R, n, k)]
    BY <2>3
  <2>7. o = [k \in 1..n |-> rows[PlaceOf(R, n, k)]]
    BY <2>5, <2>6
  <2> QED
    BY <2>4, <2>7
<1>6. ZoneState(hand, rows) = ZonesAfter(hand, ordered)
  BY DEF ZoneState
<1> HIDE DEF R, n, ordered
<1>7. ordered = rows
  BY <1>1, <1>4, <1>5
<1> QED
  BY <1>6, <1>7

\* The rows of an outcome follow in the order of their ids.
LEMMA StaysInIdOrder ==
  ASSUME NEW rows \in Seq(ZoneRowSet), NEW more \in Seq(ZoneRowSet), NEW newest \in Nat, NEW digest,
         InIdOrder(rows), \A k \in DOMAIN rows : rows[k].at <= newest,
         \A k \in DOMAIN more : more[k].at = newest + 1 /\ more[k].id = IdOf(digest, k)
  PROVE  /\ InIdOrder(rows \o more)
         /\ \A k \in DOMAIN (rows \o more) : (rows \o more)[k].at <= newest + 1
<1> DEFINE n == Len(rows)
           all == rows \o more
<1>1. /\ n \in Nat /\ Len(more) \in Nat /\ DOMAIN rows = 1..n /\ DOMAIN more = 1..Len(more)
      /\ all \in Seq(ZoneRowSet) /\ DOMAIN all = 1..(n + Len(more))
      /\ \A k \in 1..n : all[k] = rows[k]
      /\ \A k \in (n + 1)..(n + Len(more)) : all[k] = more[k - n]
  OBVIOUS
<1> HIDE DEF all, n
<1>2. \A k \in 1..n : all[k].at \in Nat /\ all[k].at <= newest
  BY <1>1, ZoneRowsAre
<1>3. \A k \in (n + 1)..(n + Len(more)) : all[k].at = newest + 1 /\ all[k].id[1] = digest /\ all[k].id[2] = k - n
  <2> SUFFICES ASSUME NEW k \in (n + 1)..(n + Len(more))
               PROVE  all[k].at = newest + 1 /\ all[k].id[1] = digest /\ all[k].id[2] = k - n
    OBVIOUS
  <2>1. all[k] = more[k - n] /\ k - n \in DOMAIN more
    BY <1>1
  <2> QED
    BY <2>1 DEF IdOf
<1>4. ASSUME NEW i \in DOMAIN all, NEW j \in DOMAIN all, i < j
      PROVE  EarlierId(all, i, j)
  <2>1. CASE i \in 1..n /\ j \in 1..n
    <3>1. all[i] = rows[i] /\ all[j] = rows[j] /\ EarlierId(rows, i, j)
      BY <1>1, <1>4, <2>1 DEF InIdOrder
    <3> QED
      BY <3>1 DEF EarlierId
  <2>2. CASE i \in 1..n /\ j \in (n + 1)..(n + Len(more))
    BY <1>2, <1>3, <2>2 DEF EarlierId
  <2>3. CASE i \in (n + 1)..(n + Len(more)) /\ j \in (n + 1)..(n + Len(more))
    <3>1. i - n < j - n
      BY <1>1, <1>4, <2>3
    <3> QED
      BY <1>3, <2>3, <3>1 DEF EarlierId
  <2>4. \/ i \in 1..n /\ j \in 1..n
        \/ i \in 1..n /\ j \in (n + 1)..(n + Len(more))
        \/ i \in (n + 1)..(n + Len(more)) /\ j \in (n + 1)..(n + Len(more))
    BY <1>1, <1>4
  <2> QED
    BY <2>1, <2>2, <2>3, <2>4
<1>5. \A k \in DOMAIN all : all[k].at <= newest + 1
  <2> SUFFICES ASSUME NEW k \in DOMAIN all
               PROVE  all[k].at <= newest + 1
    OBVIOUS
  <2>1. k \in 1..n \/ k \in (n + 1)..(n + Len(more))
    BY <1>1
  <2> QED
    BY <1>2, <1>3, <2>1
<1> QED
  BY <1>4, <1>5 DEF InIdOrder, all

\* What was known after the first rows is what was known after them all along.
LEMMA FirstViews ==
  ASSUME NEW hand \in Hands, NEW rows \in Seq(ZoneRowSet), NEW more \in Seq(ZoneRowSet),
         NEW g, Watching(g, hand, rows \o more)
  PROVE  g[Len(rows)] = ZonesAfter(hand, rows)
<1> DEFINE n == Len(rows)
           all == rows \o more
<1>1. /\ n \in Nat /\ \A k \in 1..n : k \in 1..Len(all) /\ all[k] = rows[k]
  OBVIOUS
<1>2. PICK f : Watching(f, hand, rows)
  BY InView
<1>3. f[0] = g[0] /\ f[n] = ZonesAfter(hand, rows)
  BY <1>2 DEF Watching
<1>4. \A k \in 1..n : g[k] = Replaced(g[k - 1], rows[k])
  <2> HIDE DEF n
  <2> QED
    BY <1>1 DEF Watching
<1>5. \A k \in 1..n : f[k] = Replaced(f[k - 1], rows[k])
  BY <1>2 DEF Watching
<1> HIDE DEF n, all
<1>6. \A k \in 1..n : f[k - 1] = g[k - 1] => f[k] = g[k]
  BY <1>4, <1>5
<1>7. \A k \in 0..n : f[k] = g[k]
  <2>1. GoAlong(f, g, n)
    BY <1>3, <1>6 DEF GoAlong
  <2>2. Together(f, g, n)
    BY <1>1, <2>1, Alongside
  <2> QED
    BY <2>2 DEF Together
<1>8. n \in 0..n
  BY <1>1
<1> QED
  BY <1>3, <1>7, <1>8 DEF n

\* What is replayed of an outcome's rows follows the cards, if all was told.
LEMMA RowsFollow ==
  ASSUME NEW hand \in Hands, NEW rows \in Seq(ZoneRowSet), NEW more \in Seq(ZoneRowSet),
         NEW p \in Piles, NEW movements \in Seq(Movements), NEW told \in 0..Len(movements),
         CardsAfter(p, movements).ok,
         ZonesAfter(hand, rows).known => ZonesAfter(hand, rows).zones = p,
         \A k \in 1..told : k \in DOMAIN more /\ more[k].movement = movements[k],
         Len(more) = told \/ (Len(more) = told + 1 /\ more[told + 1].movement = Untold),
         told < Len(movements) => Len(more) = told + 1
  PROVE  ZonesAfter(hand, rows \o more).known => ZonesAfter(hand, rows \o more).zones = CardsAfter(p, movements).p
<1> DEFINE n == Len(rows)
           l == Len(movements)
           all == rows \o more
<1>1. /\ n \in Nat /\ l \in Nat /\ Len(more) \in Nat /\ told \in Nat /\ told <= l
      /\ all \in Seq(ZoneRowSet) /\ Len(all) = n + Len(more)
      /\ \A k \in 1..n : all[k] = rows[k]
      /\ \A k \in 1..Len(more) : all[n + k] = more[k] /\ more[k] \in ZoneRowSet
      /\ \A k \in 1..l : movements[k] \in Movements
  OBVIOUS
<1>2. DOMAIN more = 1..Len(more)
  OBVIOUS
<1>3. PICK g : Watching(g, hand, all)
  <2> HIDE DEF all
  <2> QED
    BY <1>1, InView
<1>4. PICK h : Carrying(h, p, movements)
  BY InFight
<1> HIDE DEF n, l, all
<1> DEFINE T == {k \in 0..told : h[k].ok /\ g[n + k].known => g[n + k].zones = h[k].p}
<1>6. /\ \A k \in 0..Len(all) : g[k] \in Views
      /\ \A k \in 0..l : h[k] \in Fights
  BY <1>3, <1>4 DEF Watching, Carrying, l
<1>7. 0 \in T
  <2>1. h[0] = [ok |-> TRUE, p |-> p]
    BY <1>4 DEF Carrying
  <2>2. g[n] = ZonesAfter(hand, rows)
    BY <1>3, FirstViews DEF n, all
  <2>3. n + 0 = n /\ 0 \in 0..told
    BY <1>1
  <2>4. g[n + 0] = ZonesAfter(hand, rows) /\ h[0].p = p
    BY <2>1, <2>2, <2>3
  <2> QED
    BY <2>3, <2>4
<1>8. \A k \in 1..told : k - 1 \in T => k \in T
  <2> SUFFICES ASSUME NEW k \in 1..told, k - 1 \in T, h[k].ok, g[n + k].known
               PROVE  g[n + k].zones = h[k].p
    <3>1. \A k \in 1..told : k \in 0..told
      BY <1>1
    <3> QED
      BY <3>1
  <2>1. k - 1 \in 0..l /\ k \in 1..l /\ k \in 1..Len(more) /\ n + k \in 1..Len(all) /\ n + k - 1 \in 0..Len(all)
    BY <1>1
  <2>2. h[k] = Handled(h[k - 1], movements[k]) /\ movements[k] \in Movements
    BY <1>1, <1>4, <2>1 DEF Carrying, l
  <2>3. h[k - 1].ok /\ h[k].p = MovedCard(h[k - 1].p, movements[k])
    BY <1>6, <2>1, <2>2, HandledIs
  <2>4. PICK j : j = n + k
    OBVIOUS
  <2>5. j \in 1..Len(all) /\ j - 1 \in 0..Len(all) /\ j - 1 = n + (k - 1)
    BY <1>1, <2>1, <2>4
  <2>6. g[j] = Replaced(g[j - 1], all[j])
    BY <1>3, <2>5 DEF Watching
  <2>7. all[j] \in ZoneRowSet /\ all[j].movement = movements[k]
    BY <1>1, <2>1, <2>4
  <2>8. g[j].known
    BY <2>4
  <2>9. g[j - 1].known /\ g[j].zones = MovedCard(g[j - 1].zones, movements[k])
    BY <1>6, <2>2, <2>5, <2>6, <2>7, <2>8, ReplacedIs
  <2>10. g[j - 1].zones = h[k - 1].p
    BY <2>3, <2>5, <2>9
  <2>11. g[j].zones = h[k].p
    BY <2>3, <2>9, <2>10
  <2> QED
    BY <2>4, <2>11
<1>9. told \in T
  <2>1. 0..told \subseteq T
    <3> HIDE DEF T
    <3> QED
      BY <1>1, <1>7, <1>8, Upwards
  <2>2. told \in 0..told
    BY <1>1
  <2> QED
    BY <2>1, <2>2
<1>10. ZonesAfter(hand, all) = g[Len(all)] /\ CardsAfter(p, movements) = h[l]
  BY <1>3, <1>4 DEF Watching, Carrying, l
<1>11. CASE Len(more) = told
  <2>1. told = l /\ Len(all) = n + told
    BY <1>1, <1>11 DEF l
  <2> QED
    BY <1>9, <1>10, <2>1 DEF all
<1>12. CASE Len(more) = told + 1 /\ more[told + 1].movement = Untold
  <2>1. /\ Len(all) = n + (told + 1) /\ told + 1 \in 1..Len(more) /\ Len(all) \in 1..Len(all)
        /\ Len(all) - 1 \in 0..Len(all)
    BY <1>1, <1>12
  <2>2. all[Len(all)] = more[told + 1] /\ all[Len(all)] \in ZoneRowSet
    BY <1>1, <2>1
  <2>3. g[Len(all)] = Replaced(g[Len(all) - 1], all[Len(all)])
    BY <1>3, <2>1 DEF Watching
  <2>4. ~g[Len(all)].known
    BY <1>6, <1>12, <2>1, <2>2, <2>3, ReplacedIs
  <2> QED
    BY <1>10, <2>4 DEF all
<1> QED
  BY <1>11, <1>12

\* The rows follow in the order of their ids, and what they tell, if it is all,
\* is where the cards are.
ZonesInv ==
  /\ imaged \in Nat /\ piles \in Piles
  /\ zoneRows \in Seq(ZoneRowSet) /\ InIdOrder(zoneRows) /\ \A k \in DOMAIN zoneRows : zoneRows[k].at <= imaged
  /\ zoneBase = Lacking => zoneRows = <<>>
  /\ zoneBase # Lacking =>
       /\ zoneBase \in Hands
       /\ ZonesAfter(zoneBase, zoneRows).known => ZonesAfter(zoneBase, zoneRows).zones = piles

LEMMA ZonesBegin == InitMemory => ZonesInv
<1> SUFFICES ASSUME InitMemory
             PROVE  ZonesInv
  OBVIOUS
<1>1. imaged \in Nat /\ zoneBase = Lacking /\ zoneRows = <<>>
  BY DEF InitMemory
<1>2. piles \in Piles
  BY OpeningIs DEF InitMemory
<1>3. zoneRows \in Seq(ZoneRowSet) /\ DOMAIN zoneRows = {}
  BY <1>1
<1> QED
  BY <1>1, <1>2, <1>3 DEF ZonesInv, InIdOrder

LEMMA LaterZones ==
  ASSUME ZonesInv, imaged' \in Nat, imaged <= imaged'
  PROVE  \A k \in DOMAIN zoneRows : zoneRows[k].at <= imaged'
<1>1. \A t \in Nat : t <= imaged => t <= imaged'
  BY DEF ZonesInv
<1> QED
  BY <1>1, ZoneRowsAre DEF ZonesInv

LEMMA OpenZonesKeeps ==
  ASSUME ZonesInv, OpenZones
  PROVE  ZonesInv'
<1>1. /\ zoneBase = Lacking /\ imaged' = imaged + 1 /\ zoneBase' = piles["hand"]
      /\ piles' = piles /\ zoneRows' = zoneRows
  BY DEF OpenZones
<1>2. PICK h \in Hands : piles = Opening(h)
  BY DEF OpenZones
<1>3. /\ imaged \in Nat /\ imaged' \in Nat /\ imaged <= imaged' /\ piles \in Piles
      /\ zoneRows \in Seq(ZoneRowSet) /\ InIdOrder(zoneRows) /\ zoneRows = <<>>
  BY <1>1 DEF ZonesInv
<1>4. zoneBase' = h
  BY <1>1, <1>2, OpeningIs
<1>5. ZonesAfter(h, <<>>).zones = Opening(h)
  <2>1. <<>> \in Seq(ZoneRowSet) /\ Len(<<>>) = 0
    OBVIOUS
  <2>2. PICK g : Watching(g, h, <<>>)
    BY <2>1, InView
  <2>3. ZonesAfter(h, <<>>) = [known |-> TRUE, zones |-> Opening(h)]
    BY <2>1, <2>2 DEF Watching
  <2> QED
    BY <2>3
<1>6. \A k \in DOMAIN zoneRows : zoneRows[k].at <= imaged'
  BY <1>3, LaterZones
<1>7. InIdOrder(zoneRows)'
  BY <1>1, <1>3
<1>8. zoneBase' # Lacking /\ zoneBase' \in Hands
  BY <1>4, LackingAssumption
<1>9. ZonesAfter(zoneBase', zoneRows').zones = piles'
  BY <1>1, <1>2, <1>3, <1>4, <1>5
<1> QED
  BY <1>1, <1>3, <1>6, <1>7, <1>8, <1>9 DEF ZonesInv

Tells(more, movements, told, at, digest) ==
  /\ more \in Seq(ZoneRowSet)
  /\ \A k \in DOMAIN more : more[k].at = at /\ more[k].id = IdOf(digest, k)
  /\ \A k \in 1..told : k \in DOMAIN more /\ more[k].movement = movements[k]
  /\ Len(more) = told \/ (Len(more) = told + 1 /\ more[told + 1].movement = Untold)
  /\ told < Len(movements) => Len(more) = told + 1

\* What is told of the movements, and the rows of it.
LEMMA SaidOf ==
  ASSUME NEW movements \in Seq(Movements), NEW told \in 0..Len(movements), NEW at \in Nat, NEW digest \in Nat
  PROVE  LET said == SubSeq(movements, 1, told) \o IF told < Len(movements) THEN <<Untold>> ELSE <<>>
         IN  Tells(ZoneRowsOf(said, at, digest), movements, told, at, digest)
<1> DEFINE first == SubSeq(movements, 1, told)
           last == IF told < Len(movements) THEN <<Untold>> ELSE <<>>
           said == first \o last
           more == ZoneRowsOf(said, at, digest)
           M == Movements \cup {Untold}
           l == IF told < Len(movements) THEN 1 ELSE 0
<1>1. told \in Nat /\ Len(movements) \in Nat /\ told <= Len(movements)
  OBVIOUS
<1>2. first \in Seq(M) /\ Len(first) = told /\ \A k \in 1..told : first[k] = movements[k]
  <2>1. movements \in Seq(M)
    OBVIOUS
  <2> HIDE DEF M
  <2> QED
    BY <1>1, <2>1
<1>3. last \in Seq(M) /\ Len(last) = l /\ (told < Len(movements) => last[1] = Untold)
  <2>1. CASE told < Len(movements)
    <3>1. <<Untold>> \in Seq(M) /\ Len(<<Untold>>) = 1 /\ <<Untold>>[1] = Untold
      OBVIOUS
    <3> QED
      BY <2>1, <3>1
  <2>2. CASE ~(told < Len(movements))
    <3>1. <<>> \in Seq(M) /\ Len(<<>>) = 0
      OBVIOUS
    <3> QED
      BY <2>2, <3>1
  <2> QED
    BY <2>1, <2>2
<1>4. l \in {0, 1} /\ (l = 1 <=> told < Len(movements))
  BY <1>1
<1> HIDE DEF first, last, l
<1>5. /\ said \in Seq(M) /\ Len(said) = told + l /\ DOMAIN said = 1..(told + l)
      /\ \A k \in 1..told : said[k] = movements[k]
      /\ l = 1 => said[told + 1] = Untold
  <2> HIDE DEF M
  <2>1. said \in Seq(M) /\ Len(said) = told + l
    BY <1>2, <1>3
  <2>2. \A k \in 1..told : said[k] = first[k]
    BY <1>1, <1>2, <1>3
  <2>3. l = 1 => said[told + 1] = last[1]
    <3> SUFFICES ASSUME l = 1
                 PROVE  said[told + 1] = last[1]
      OBVIOUS
    <3>1. Len(last) = 1 /\ Len(first) = told /\ told \in Nat
      BY <1>1, <1>2, <1>3
    <3>2. PICK a, b : a = first /\ b = last
      OBVIOUS
    <3>3. a \in Seq(M) /\ b \in Seq(M) /\ Len(b) = 1 /\ Len(a) = told
      BY <1>2, <1>3, <3>1, <3>2
    <3>4. (a \o b)[told + 1] = b[1]
      <4>1. PICK n \in Nat : n = told /\ Len(a) = n
        BY <3>1, <3>3
      <4>2. n + 1 \in 1..(Len(a) + Len(b)) /\ ~(n + 1 <= Len(a)) /\ n + 1 - Len(a) = 1
        BY <3>3, <4>1
      <4>3. a \in Seq(M) /\ b \in Seq(M)
        BY <3>3
      <4>4. (a \o b)[n + 1] = b[n + 1 - Len(a)]
        BY <4>2, <4>3
      <4> QED
        BY <4>1, <4>2, <4>4
    <3> QED
      BY <3>2, <3>4
  <2> QED
    BY <1>2, <1>3, <1>4, <2>1, <2>2, <2>3
<1> HIDE DEF said
<1>6. \A k \in 1..(told + l) : said[k] \in M
  BY <1>5
<1>7. more = [k \in 1..(told + l) |-> [at |-> at, id |-> IdOf(digest, k), movement |-> said[k]]]
  BY <1>5 DEF ZoneRowsOf
<1>8. told + l \in Nat
  BY <1>1, <1>4
<1>9. \A k \in 1..(told + l) : [at |-> at, id |-> IdOf(digest, k), movement |-> said[k]] \in ZoneRowSet
  <2> SUFFICES ASSUME NEW k \in 1..(told + l)
               PROVE  [at |-> at, id |-> IdOf(digest, k), movement |-> said[k]] \in ZoneRowSet
    OBVIOUS
  <2>1. k \in Nat
    BY <1>8
  <2>2. IdOf(digest, k) \in Nat \X Nat
    BY <2>1 DEF IdOf
  <2>3. said[k] \in Movements \cup {Untold}
    BY <1>6
  <2> QED
    BY <2>2, <2>3 DEF ZoneRowSet
<1> HIDE DEF more
<1>10. more \in Seq(ZoneRowSet) /\ Len(more) = told + l /\ DOMAIN more = 1..(told + l)
  <2>1. more \in [1..(told + l) -> ZoneRowSet]
    BY <1>7, <1>9
  <2> QED
    BY <1>8, <2>1
<1>11. \A k \in 1..(told + l) : more[k].at = at /\ more[k].id = IdOf(digest, k) /\ more[k].movement = said[k]
  BY <1>7
<1>12. \A k \in 1..told : k \in 1..(told + l)
  BY <1>1, <1>4
<1>13. l = 1 => told + 1 \in 1..(told + l)
  BY <1>1
<1>14. Len(more) = told \/ (Len(more) = told + 1 /\ more[told + 1].movement = Untold)
  BY <1>4, <1>5, <1>10, <1>11, <1>13, <1>1
<1>15. told < Len(movements) => Len(more) = told + 1
  BY <1>4, <1>10
<1>16. \A k \in 1..told : k \in DOMAIN more /\ more[k].movement = movements[k]
  BY <1>5, <1>10, <1>11, <1>12
<1> QED
  BY <1>10, <1>11, <1>14, <1>15, <1>16 DEF Tells, more, said, first, last

LEMMA MoveCardsKeeps ==
  ASSUME ZonesInv, NEW movements \in Played, NEW digest \in 1..2, NEW told \in 0..Len(movements),
         MoveCards(movements, told, digest)
  PROVE  ZonesInv'
<1> DEFINE said == SubSeq(movements, 1, told) \o IF told < Len(movements) THEN <<Untold>> ELSE <<>>
<1>1. /\ CardsAfter(piles, movements).ok /\ piles' = CardsAfter(piles, movements).p /\ imaged' = imaged + 1
      /\ zoneRows' = IF zoneBase = Lacking THEN zoneRows ELSE zoneRows \o ZoneRowsOf(said, imaged', digest)
      /\ zoneBase' = zoneBase
  BY DEF MoveCards
<1>2. movements \in Seq(Movements)
  BY MemoryAssumption
<1>3. /\ imaged \in Nat /\ imaged' \in Nat /\ imaged <= imaged' /\ piles \in Piles
      /\ zoneRows \in Seq(ZoneRowSet) /\ InIdOrder(zoneRows) /\ \A k \in DOMAIN zoneRows : zoneRows[k].at <= imaged
  BY <1>1 DEF ZonesInv
<1>4. piles' \in Piles
  <2>1. PICK h : Carrying(h, piles, movements)
    BY <1>2, <1>3, InFight
  <2>2. Len(movements) \in 0..Len(movements)
    BY <1>2
  <2>3. CardsAfter(piles, movements) \in Fights
    BY <2>1, <2>2 DEF Carrying
  <2> QED
    BY <1>1, <2>3 DEF Fights
<1>5. CASE zoneBase = Lacking
  <2>1. zoneRows' = zoneRows /\ zoneRows = <<>>
    BY <1>1, <1>5 DEF ZonesInv
  <2>2. \A k \in DOMAIN zoneRows : zoneRows[k].at <= imaged'
    BY <1>3, LaterZones
  <2>3. InIdOrder(zoneRows)'
    BY <1>3, <2>1
  <2> QED
    BY <1>1, <1>3, <1>4, <1>5, <2>1, <2>2, <2>3 DEF ZonesInv
<1>6. CASE zoneBase # Lacking
  <2>1. PICK more : more = ZoneRowsOf(said, imaged', digest)
    OBVIOUS
  <2>2. digest \in Nat
    OBVIOUS
  <2>3. /\ more \in Seq(ZoneRowSet)
        /\ \A k \in DOMAIN more : more[k].at = imaged' /\ more[k].id = IdOf(digest, k)
        /\ \A k \in 1..told : k \in DOMAIN more /\ more[k].movement = movements[k]
        /\ Len(more) = told \/ (Len(more) = told + 1 /\ more[told + 1].movement = Untold)
        /\ told < Len(movements) => Len(more) = told + 1
    <3>1. Tells(ZoneRowsOf(said, imaged', digest), movements, told, imaged', digest)
      BY <1>2, <1>3, <2>2, SaidOf
    <3> QED
      BY <2>1, <3>1 DEF Tells
  <2> HIDE DEF said
  <2>4. zoneRows' = zoneRows \o more
    BY <1>1, <1>6, <2>1
  <2>5. \A k \in DOMAIN more : more[k].at = imaged + 1 /\ more[k].id = IdOf(digest, k)
    BY <1>1, <2>3
  <2>6. /\ InIdOrder(zoneRows \o more)
        /\ \A k \in DOMAIN (zoneRows \o more) : (zoneRows \o more)[k].at <= imaged + 1
    BY <1>3, <2>3, <2>5, StaysInIdOrder
  <2>7. /\ zoneBase \in Hands
        /\ ZonesAfter(zoneBase, zoneRows).known => ZonesAfter(zoneBase, zoneRows).zones = piles
    BY <1>6 DEF ZonesInv
  <2>8. ZonesAfter(zoneBase, zoneRows \o more).known =>
          ZonesAfter(zoneBase, zoneRows \o more).zones = CardsAfter(piles, movements).p
    BY <1>1, <1>2, <1>3, <2>3, <2>7, RowsFollow
  <2>9. zoneRows' \in Seq(ZoneRowSet)
    BY <1>3, <2>3, <2>4
  <2>10. InIdOrder(zoneRows)' /\ \A k \in DOMAIN zoneRows' : zoneRows'[k].at <= imaged'
    BY <1>1, <2>4, <2>6
  <2>11. ZonesAfter(zoneBase', zoneRows').known => ZonesAfter(zoneBase', zoneRows').zones = piles'
    BY <1>1, <2>4, <2>8
  <2> QED
    BY <1>1, <1>3, <1>4, <1>6, <2>7, <2>9, <2>10, <2>11 DEF ZonesInv
<1> QED
  BY <1>5, <1>6

LEMMA ZonesKept == ZonesInv /\ [NextBelongings \/ NextZones]_memoryVars => ZonesInv'
<1> SUFFICES ASSUME ZonesInv, [NextBelongings \/ NextZones]_memoryVars
             PROVE  ZonesInv'
  OBVIOUS
<1>1. ASSUME imaged' \in Nat, imaged <= imaged', UNCHANGED <<piles, zoneBase, zoneRows>>
      PROVE  ZonesInv'
  <2>1. \A k \in DOMAIN zoneRows : zoneRows[k].at <= imaged'
    BY <1>1, LaterZones
  <2>2. InIdOrder(zoneRows)'
    BY <1>1 DEF ZonesInv
  <2> QED
    BY <1>1, <2>1, <2>2 DEF ZonesInv
<1>2. imaged \in Nat /\ imaged + 1 \in Nat /\ imaged <= imaged + 1 /\ imaged <= imaged
  BY DEF ZonesInv
<1>3. CASE NextBelongings
  <2>1. imaged' \in {imaged, imaged + 1} /\ UNCHANGED <<piles, zoneBase, zoneRows>>
    BY <1>3 DEF NextBelongings, PlayInput, PlayAndInspect, CommitResult, Discover, PlayByHand, Checkpoint
  <2> QED
    BY <1>1, <1>2, <2>1
<1>4. CASE OpenZones
  BY <1>4, OpenZonesKeeps
<1>5. ASSUME NEW movements \in Played, NEW digest \in 1..2, NEW told \in 0..Len(movements), MoveCards(movements, told, digest)
      PROVE  ZonesInv'
  BY <1>5, MoveCardsKeeps
<1>6. CASE UNCHANGED memoryVars
  BY <1>1, <1>2, <1>6 DEF memoryVars
<1> QED
  BY <1>3, <1>4, <1>5, <1>6 DEF NextZones

LEMMA ZonesTell == ZonesInv => ZonesAreTrue
<1> SUFFICES ASSUME ZonesInv, zoneBase # Lacking
             PROVE  ZoneState(zoneBase, zoneRows).known => ZoneState(zoneBase, zoneRows).zones = piles
  BY DEF ZonesAreTrue
<1>1. ZoneState(zoneBase, zoneRows) = ZonesAfter(zoneBase, zoneRows)
  BY ZoneStateIs DEF ZonesInv
<1> QED
  BY <1>1 DEF ZonesInv

\* What is replayed from the rows is so, whoever wrote them, in which order and
\* from which images: of the belongings and of the cards of a fight, however many
\* items, copies, changes and rows there are (MemoryIsTrue; inventory_ledger and
\* combat_zone_state).
THEOREM MemoryStaysTrue == SpecMemory => []MemoryIsTrue
<1>1. InitMemory => StockInv /\ ZonesInv
  BY StockBegins, ZonesBegin
<1>2. StockInv /\ ZonesInv /\ [NextBelongings \/ NextZones]_memoryVars => StockInv' /\ ZonesInv'
  BY StockKept, ZonesKept
<1>3. StockInv /\ ZonesInv => MemoryIsTrue
  BY StockTells, ZonesTell DEF MemoryIsTrue
<1> QED
  BY <1>1, <1>2, <1>3, PTL DEF SpecMemory

===============================================================================
