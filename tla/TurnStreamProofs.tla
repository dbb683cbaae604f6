---------------------------- MODULE TurnStreamProofs ----------------------------
(***************************************************************************)
(* What the turns of a chat and their streams guarantee, for any number of  *)
(* turns and subscribers, any batch, page and replay window, whether or not *)
(* a batch may fail.                                                        *)
(*                                                                         *)
(* Each turn keeps to Sound whatever the others do: the writer has stored   *)
(* what it took, it is over only after the sentinel and the last event, and *)
(* finalize comes after the writer.  What a turn has reached it keeps       *)
(* (Steady): once it does not run its rows are fixed until they are         *)
(* removed.  A client relies on that alone (Follows), from its look at the  *)
(* slot, which only the running turn of the chat can hold (SlotRuns).       *)
(***************************************************************************)
EXTENDS TurnStream, FiniteSetTheorems, WellFoundedInduction, TLAPS

Sound(r) ==
    /\ r \in TurnRec
    /\ r.stored <= r.taken /\ r.taken <= r.emitted
    /\ r.closed => r.phase \in {"draining", "finalizing", "over"}
    /\ r.writer = "waiting" => r.stored = r.taken
    /\ r.writer = "over" => r.closed /\ r.stored = r.emitted
    /\ r.phase = "finalizing" => r.writer \in {"over", "dead"}
    /\ r.status = "done" => r.writer \in {"over", "dead"}

Steady(r, s) ==
    r.status # "none" =>
        /\ s.status # "none" /\ r.stored <= s.stored
        /\ r.status # "running" => s.status # "running" /\ s.stored = r.stored
        /\ r.status = "removed" => s.status = "removed"

SlotRuns == \A t \in Turns : turn[t].status = "running" => current = t

UnsentBy(t, sent) == {s \in Rows(t) : s > sent}
Follows(r) ==
    /\ r.turn = NoTurn => r.sent = -1 /\ r.at = "page"
    /\ r.turn # NoTurn =>
          /\ turn[r.turn].status # "none" /\ -1 <= r.sent /\ r.sent <= turn[r.turn].stored - 1
          /\ r.at \in {"last", "end"} => turn[r.turn].status # "running"
          /\ r.at = "last" => \/ turn[r.turn].status = "removed"
                              \/ r.behind = Cardinality(UnsentBy(r.turn, r.sent))
          /\ r.at = "end" => \/ turn[r.turn].status = "removed"
                             \/ r.sent = turn[r.turn].stored - 1
                             \/ r.behind > Page

Shapes ==
    /\ turn \in [Turns -> TurnRec]
    /\ current \in Turns \union {NoTurn}
    /\ client \in [Clients -> ClientRec]
StreamInv ==
    /\ Shapes
    /\ \A t \in Turns : Sound(turn[t])
    /\ SlotRuns
    /\ \A c \in Clients : Follows(client[c])

LEMMA TypesFromInv == StreamInv => StreamTypeOK
BY DEF StreamInv, Shapes, StreamTypeOK, Sound

LEMMA Numbers ==
  /\ MaxTurns \in Nat \ {0} /\ Turns \subseteq Nat \ {0} /\ NoTurn \notin Turns
  /\ Batch \in Nat \ {0} /\ Limit \in Nat \ {0} /\ Page \in Nat \ {0}
BY StreamAssumption DEF Turns
-----------------------------------------------------------------------------
(* The turns. *)

(* One turn changes, and no turn that did not run begins to. *)
Moved(t) ==
    /\ turn' = [turn EXCEPT ![t] = turn'[t]]
    /\ Sound(turn'[t]) /\ Steady(turn[t], turn'[t])
    /\ turn'[t].status = "running" => turn[t].status = "running"
    /\ client' = client

LEMMA Altered ==
  ASSUME StreamInv, NEW t \in Turns, NEW rec, Alter(t, rec), UNCHANGED client,
         Sound(rec), Steady(turn[t], rec), rec.status = "running" => turn[t].status = "running"
  PROVE  Moved(t)
<1>1. turn' = [turn EXCEPT ![t] = rec] /\ turn \in [Turns -> TurnRec]
  BY DEF Alter, StreamInv, Shapes
<1>2. turn'[t] = rec
  BY <1>1
<1> QED BY <1>1, <1>2 DEF Moved

LEMMA RunnerMoves ==
  ASSUME StreamInv, NEW t \in Turns,
         \/ Emit(t) \/ WorkerEnds(t) \/ Cancel(t) \/ CloseStep(t) \/ Interrupted(t) \/ Removed(t)
  PROVE  Moved(t)
<1> DEFINE r == turn[t]
<1>1. Sound(r) /\ r \in TurnRec
  BY DEF StreamInv, Sound
<1>a. r.stored \in Nat /\ r.taken \in Nat /\ r.emitted \in Nat
  BY <1>1 DEF TurnRec
<1>2. CASE Emit(t)
  <2> DEFINE s == [r EXCEPT !.emitted = @ + 1]
  <2>1. Alter(t, s) /\ UNCHANGED client /\ r.phase = "working"
    BY <1>2 DEF Emit, Is
  <2>2. Sound(s) /\ Steady(r, s) /\ s.status = r.status
    BY <1>1, <2>1 DEF Sound, Steady, TurnRec
  <2> QED BY <2>1, <2>2, Altered
<1>3. CASE WorkerEnds(t)
  <2>1. PICK outcome \in Outcomes :
           Alter(t, [r EXCEPT !.phase = "unwatching", !.outcome = outcome, !.cancelled = FALSE])
    BY <1>3 DEF WorkerEnds, Outcomes
  <2> DEFINE s == [r EXCEPT !.phase = "unwatching", !.outcome = outcome, !.cancelled = FALSE]
  <2>2. UNCHANGED client /\ r.phase = "working"
    BY <1>3 DEF WorkerEnds, Is
  <2>c. Alter(t, s)
    BY <2>1
  <2>3a. s \in TurnRec
    BY <1>1 DEF TurnRec
  <2>3b. /\ s.status = r.status /\ s.phase = "unwatching" /\ s.stored = r.stored /\ s.taken = r.taken
         /\ s.emitted = r.emitted /\ s.closed = r.closed /\ s.writer = r.writer
    BY <1>1 DEF TurnRec
  <2> HIDE DEF s
  <2>3. Sound(s) /\ Steady(r, s) /\ s.status = r.status
    BY <1>1, <2>2, <2>3a, <2>3b, <1>a DEF Sound, Steady
  <2> QED BY <2>c, <2>2, <2>3, Altered
<1>4. CASE Cancel(t)
  <2> DEFINE s == [r EXCEPT !.cancelled = TRUE]
  <2>1. Alter(t, s) /\ UNCHANGED client
    BY <1>4 DEF Cancel
  <2>2a. s \in TurnRec
    BY <1>1 DEF TurnRec
  <2>2b. /\ s.status = r.status /\ s.phase = r.phase /\ s.stored = r.stored /\ s.taken = r.taken
         /\ s.emitted = r.emitted /\ s.closed = r.closed /\ s.writer = r.writer
    BY <1>1 DEF TurnRec
  <2> HIDE DEF s
  <2>2. Sound(s) /\ Steady(r, s) /\ s.status = r.status
    BY <1>1, <2>2a, <2>2b, <1>a DEF Sound, Steady
  <2> QED BY <2>1, <2>2, Altered
<1>5. CASE CloseQueue(t)
  <2> DEFINE s == [r EXCEPT !.phase = "draining", !.closed = TRUE]
  <2>1. Alter(t, s) /\ UNCHANGED client
    BY <1>5 DEF CloseQueue
  <2>2a. s \in TurnRec
    BY <1>1 DEF TurnRec
  <2>2b. /\ s.status = r.status /\ s.phase = "draining" /\ s.stored = r.stored /\ s.taken = r.taken
         /\ s.emitted = r.emitted /\ s.closed = TRUE /\ s.writer = r.writer
    BY <1>1 DEF TurnRec
  <2> HIDE DEF s
  <2>2. Sound(s) /\ Steady(r, s) /\ s.status = r.status
    BY <1>1, <2>2a, <2>2b, <1>a DEF Sound, Steady
  <2> QED BY <2>1, <2>2, Altered
<1>6. CASE WriterAwaited(t)
  <2> DEFINE s == [r EXCEPT !.phase = "finalizing"]
  <2>1. Alter(t, s) /\ UNCHANGED client /\ r.writer \in {"over", "dead"}
    BY <1>6 DEF WriterAwaited
  <2>2. Sound(s) /\ Steady(r, s) /\ s.status = r.status
    BY <1>1, <2>1 DEF Sound, Steady, TurnRec
  <2> QED BY <2>1, <2>2, Altered
<1>7. CASE FinalizeTurn(t)
  <2> DEFINE ends == IF r.status = "running" THEN r.outcome ELSE r.status
             s == [r EXCEPT !.phase = "over", !.outcome = "error", !.status = ends]
  <2>1. Alter(t, s) /\ UNCHANGED client /\ r.phase = "finalizing"
    BY <1>7 DEF FinalizeTurn, Is
  <2>2. r.writer \in {"over", "dead"} /\ r.outcome \in Outcomes
    BY <1>1, <2>1 DEF Sound, TurnRec
  <2>3. ends # "running" /\ (ends = "none" <=> r.status = "none")
        /\ (r.status = "removed" => ends = "removed")
        /\ ends \in {"none", "running", "removed"} \union Outcomes
    BY <1>1, <2>2 DEF TurnRec, Outcomes
  <2> HIDE DEF ends
  <2>4a. s \in TurnRec
    BY <1>1, <2>3 DEF TurnRec, Outcomes
  <2>4b. /\ s.status = ends /\ s.phase = "over" /\ s.stored = r.stored /\ s.taken = r.taken
         /\ s.emitted = r.emitted /\ s.closed = r.closed /\ s.writer = r.writer
    BY <1>1 DEF TurnRec
  <2> HIDE DEF s
  <2>4. Sound(s) /\ Steady(r, s) /\ s.status = ends
    BY <1>1, <2>2, <2>3, <2>4a, <2>4b, <1>a DEF Sound, Steady
  <2> QED BY <2>1, <2>3, <2>4, Altered
<1>8. CASE LeaveFinally(t)
  <2> DEFINE s == [r EXCEPT !.phase = "over", !.cancelled = FALSE, !.outcome = "error"]
  <2>1. Alter(t, s) /\ UNCHANGED client
    BY <1>8 DEF LeaveFinally
  <2>2a. s \in TurnRec
    BY <1>1 DEF TurnRec, Outcomes
  <2>2b. /\ s.status = r.status /\ s.phase = "over" /\ s.stored = r.stored /\ s.taken = r.taken
         /\ s.emitted = r.emitted /\ s.closed = r.closed /\ s.writer = r.writer
    BY <1>1 DEF TurnRec
  <2> HIDE DEF s
  <2>2. Sound(s) /\ Steady(r, s) /\ s.status = r.status
    BY <1>1, <2>2a, <2>2b, <1>a DEF Sound, Steady
  <2> QED BY <2>1, <2>2, Altered
<1>9. CASE Interrupted(t)
  <2> DEFINE s == [r EXCEPT !.status = "error"]
  <2>1. Alter(t, s) /\ UNCHANGED client /\ r.status = "running"
    BY <1>9 DEF Interrupted
  <2>2. Sound(s) /\ Steady(r, s) /\ s.status = "error"
    BY <1>1, <2>1 DEF Sound, Steady, TurnRec, Outcomes
  <2> QED BY <2>1, <2>2, Altered
<1>10. CASE Removed(t)
  <2> DEFINE s == [r EXCEPT !.status = "removed"]
  <2>1. Alter(t, s) /\ UNCHANGED client /\ r.status \in Outcomes
    BY <1>10 DEF Removed
  <2>2. Sound(s) /\ Steady(r, s) /\ s.status = "removed"
    BY <1>1, <2>1 DEF Sound, Steady, TurnRec, Outcomes
  <2> QED BY <2>1, <2>2, Altered
<1> QED BY <1>2, <1>3, <1>4, <1>5, <1>6, <1>7, <1>8, <1>9, <1>10 DEF CloseStep

LEMMA WriterMoves ==
  ASSUME StreamInv, NEW t \in Turns, WriterStep(t)
  PROVE  Moved(t)
<1> DEFINE r == turn[t]
<1>1. Sound(r) /\ r \in TurnRec
  BY DEF StreamInv, Sound
<1>a. r.stored \in Nat /\ r.taken \in Nat /\ r.emitted \in Nat
  BY <1>1 DEF TurnRec
<1>2. UNCHANGED client
  BY DEF WriterStep, Take, Persist
<1>3. CASE Take(t) /\ r.taken < r.emitted
  <2> DEFINE left == r.emitted - r.taken
             some == r.taken + IF left < Batch THEN left ELSE Batch
             s == [r EXCEPT !.writer = "writing", !.taken = some]
  <2>1. Alter(t, s)
    BY <1>1, <1>3 DEF Take, Alter, TurnRec
  <2>2. some \in Nat /\ r.stored <= some /\ some <= r.emitted
    BY <1>a, <1>1, <1>3, Numbers DEF Sound
  <2>3. r.writer = "waiting"
    BY <1>3 DEF Take
  <2> HIDE DEF some
  <2>4. Sound(s) /\ Steady(r, s) /\ s.status = r.status
    BY <1>1, <1>3, <2>2, <2>3 DEF Sound, Steady, TurnRec
  <2> QED BY <1>2, <2>1, <2>4, Altered
<1>4. CASE Take(t) /\ ~(r.taken < r.emitted)
  <2> DEFINE s == [r EXCEPT !.writer = "over"]
  <2>1. Alter(t, s) /\ r.closed /\ r.taken = r.emitted /\ r.writer = "waiting"
    BY <1>4 DEF Take
  <2>2. Sound(s) /\ Steady(r, s) /\ s.status = r.status
    BY <1>1, <2>1 DEF Sound, Steady, TurnRec
  <2> QED BY <1>2, <2>1, <2>2, Altered
<1>5. CASE Persist(t)
  <2>1. r.writer = "writing"
    BY <1>5 DEF Persist
  <2>2. CASE Alter(t, [r EXCEPT !.writer = "dead"])
    <3> DEFINE s == [r EXCEPT !.writer = "dead"]
    <3>1. Sound(s) /\ Steady(r, s) /\ s.status = r.status
      BY <1>1 DEF Sound, Steady, TurnRec
    <3> QED BY <1>2, <2>2, <3>1, Altered
  <2>3. ASSUME NEW w \in {"waiting", "over", "dead"}, r.status = "running",
               w = "over" => r.closed /\ r.taken = r.emitted,
               Alter(t, [r EXCEPT !.stored = r.taken, !.writer = w])
        PROVE  Moved(t)
    <3> DEFINE s == [r EXCEPT !.stored = r.taken, !.writer = w]
    <3>0. Alter(t, s)
      BY <2>3
    <3>1a. s \in TurnRec
      BY <1>1, <2>3 DEF TurnRec
    <3>1b. /\ s.status = r.status /\ s.phase = r.phase /\ s.stored = r.taken /\ s.taken = r.taken
           /\ s.emitted = r.emitted /\ s.closed = r.closed /\ s.writer = w
      BY <1>1 DEF TurnRec
    <3> HIDE DEF s
    <3>1. Sound(s) /\ Steady(r, s) /\ s.status = r.status
      BY <1>1, <2>1, <2>3, <3>1a, <3>1b, <1>a DEF Sound, Steady
    <3> QED BY <1>2, <2>3, <3>0, <3>1, Altered
  <2>4. \/ Alter(t, [r EXCEPT !.writer = "dead"])
        \/ /\ r.status = "running"
           /\ \E w \in {"waiting", "over", "dead"} :
                 /\ w = "over" => r.closed /\ r.taken = r.emitted
                 /\ Alter(t, [r EXCEPT !.stored = r.taken, !.writer = w])
    BY <1>5 DEF Persist
  <2> QED BY <2>2, <2>3, <2>4
<1> QED BY <1>3, <1>4, <1>5 DEF WriterStep
-----------------------------------------------------------------------------
(* What a client reads. *)

LEMMA GreatestNatural ==
  ASSUME NEW S, S \subseteq Nat, S # {}, NEW n \in Nat, \A s \in S : s <= n
  PROVE  \E x \in S : \A y \in S : y <= x
<1> DEFINE less == {p \in Nat \X Nat : p[1] < p[2]}
           T == {n - s : s \in S}
<1>1. IsWellFoundedOn(less, Nat)
  BY NatLessThanWellFounded DEF OpToRel
<1>2. \A x, y \in Nat : y < x => <<y, x>> \in less
  OBVIOUS
<1>3. T \subseteq Nat /\ T # {}
  <2>1. \A s \in S : n - s \in Nat
    OBVIOUS
  <2> QED BY <2>1
<1> HIDE DEF less
<1>4. PICK x \in T : \A y \in T : ~(<<y, x>> \in less)
  BY <1>1, <1>3, WFMin
<1>5. \A y \in T : ~(y < x)
  BY <1>2, <1>3, <1>4
<1>6. PICK s \in S : x = n - s
  BY <1>4
<1>7. \A y \in S : n - y \in T /\ y \in Nat /\ s \in Nat
  OBVIOUS
<1> HIDE DEF T
<1>8. \A y \in S : ~(n - y < n - s)
  BY <1>5, <1>6, <1>7
<1>9. \A y \in S : y <= s
  BY <1>7, <1>8
<1> QED BY <1>9

LEMMA LastOf ==
  ASSUME NEW S, S \subseteq Nat, S # {}, NEW n \in Nat, \A s \in S : s <= n, NEW otherwise
  PROVE  Last(S, otherwise) \in S /\ \A s \in S : s <= Last(S, otherwise)
<1>1. \E x \in S : \A y \in S : y <= x
  BY GreatestNatural
<1> QED BY <1>1 DEF Last

LEMMA RowsOf ==
  ASSUME NEW t \in Turns, turn[t].stored \in Nat
  PROVE  /\ Rows(t) \subseteq 0..(turn[t].stored - 1) /\ IsFiniteSet(Rows(t))
         /\ turn[t].status # "removed" /\ turn[t].stored > 0 => turn[t].stored - 1 \in Rows(t)
<1>1. Rows(t) \subseteq 0..(turn[t].stored - 1)
  BY DEF Rows
<1>2. IsFiniteSet(0..(turn[t].stored - 1))
  BY FS_Interval
<1>3. IsFiniteSet(Rows(t))
  BY <1>1, <1>2, FS_Subset
<1>4. turn[t].status # "removed" /\ turn[t].stored > 0 => turn[t].stored - 1 \in Rows(t)
  BY Numbers DEF Rows
<1> QED BY <1>1, <1>3, <1>4

(* A read ends at a stored row or where it began; one that is no more than  *)
(* a page behind ends at the last.                                          *)
LEMMA ReadTo ==
  ASSUME StreamInv, NEW c \in Clients, client[c].turn # NoTurn
  PROVE  LET t == client[c].turn
             sent == client[c].sent
             to == Last(Reads(c), sent)
         IN  /\ to \in Int /\ -1 <= to /\ to <= turn[t].stored - 1
             /\ Unsent(c) = UnsentBy(t, sent) /\ IsFiniteSet(Unsent(c))
             /\ turn[t].status # "removed" /\ Cardinality(Unsent(c)) <= Page => to = turn[t].stored - 1
<1> DEFINE t == client[c].turn
           sent == client[c].sent
           n == turn[t].stored
           rows == Unsent(c)
           read == Reads(c)
           to == Last(read, sent)
<1>1. t \in Turns /\ sent \in Int /\ turn[t] \in TurnRec
  BY DEF StreamInv, Shapes, ClientRec
<1>2. n \in Nat /\ -1 <= sent /\ sent <= n - 1
  <2>1. n \in Nat
    BY <1>1 DEF TurnRec
  <2>2. -1 <= sent /\ sent <= n - 1
    BY DEF StreamInv, Follows
  <2> QED BY <2>1, <2>2
<1>3. rows = UnsentBy(t, sent) /\ rows \subseteq Rows(t)
  BY DEF Unsent, UnsentBy
<1>4. rows \subseteq 0..(n - 1) /\ IsFiniteSet(rows)
  BY <1>1, <1>2, <1>3, RowsOf, FS_Subset
<1>5. read \subseteq rows
  BY DEF Reads
<1>6. read # {} => to \in read /\ \A s \in read : s <= to
  <2>1. read \subseteq Nat /\ \A s \in read : s <= n
    BY <1>2, <1>4, <1>5
  <2> HIDE DEF read, n
  <2> QED BY <2>1, <1>2, LastOf
<1>7. read = {} => to = sent
  BY DEF Last
<1>8. to \in Int /\ -1 <= to /\ to <= n - 1
  <2>1. read # {} => to \in 0..(n - 1)
    BY <1>4, <1>5, <1>6
  <2> HIDE DEF to, read, rows, sent, n
  <2>2. CASE read = {}
    BY <2>2, <1>1, <1>2, <1>7
  <2>3. CASE read # {}
    BY <2>1, <2>3, <1>2
  <2> QED BY <2>2, <2>3
<1>9. ASSUME turn[t].status # "removed", Cardinality(rows) <= Page
      PROVE  to = n - 1
  <2>1. read = rows
    <3>1. \A s \in rows : Cardinality({r \in rows : r < s}) < Page
      <4> TAKE s \in rows
      <4> DEFINE before == {r \in rows : r < s}
      <4>1. before \in SUBSET rows /\ s \notin before
        BY <1>4
      <4>2. Cardinality(before) <= Cardinality(rows) /\ Cardinality(rows) # Cardinality(before)
            /\ IsFiniteSet(before)
        <5> HIDE DEF rows, before
        <5> QED BY <4>1, <1>4, FS_Subset
      <4>3. Cardinality(before) \in Nat /\ Cardinality(rows) \in Nat
        BY <4>2, <1>4, FS_CardinalityType
      <4>4. Cardinality(rows) <= Page /\ Page \in Nat
        BY <1>9, Numbers
      <4>5. Cardinality(before) < Page
        <5> HIDE DEF before, rows
        <5> QED BY <4>2, <4>3, <4>4
      <4> QED BY <4>5
    <3> QED BY <3>1 DEF Reads
  <2>2. CASE sent = n - 1
    <3>1. rows = {}
      BY <2>2, <1>1, <1>2, <1>4 DEF Unsent
    <3> QED BY <2>1, <2>2, <3>1, <1>7
  <2>3. CASE sent < n - 1
    <3>1. n - 1 \in Rows(t)
      BY <2>3, <1>1, <1>2, <1>9, RowsOf
    <3>2. n - 1 \in rows
      BY <3>1, <2>3 DEF Unsent
    <3>3. n - 1 <= to
      BY <2>1, <3>2, <1>6
    <3> HIDE DEF to, n
    <3> QED BY <3>3, <1>2, <1>8
  <2> QED BY <2>2, <2>3, <1>1, <1>2
<1> QED BY <1>3, <1>4, <1>8, <1>9
-----------------------------------------------------------------------------
(* What the turns do, the clients need not mind. *)

LEMMA TurnsAdvance ==
  ASSUME StreamInv, UNCHANGED client, turn' \in [Turns -> TurnRec],
         \A t \in Turns : Steady(turn[t], turn'[t])
  PROVE  \A c \in Clients : Follows(client[c])'
<1> TAKE c \in Clients
<1> DEFINE r == client[c]
           t == r.turn
           old == turn[t]
           new == turn'[t]
<1>1. r' = r /\ r \in ClientRec /\ Follows(r)
  BY DEF StreamInv, Shapes
<1>2. CASE t = NoTurn
  BY <1>1, <1>2 DEF Follows
<1>3. CASE t # NoTurn
  <2>1. t \in Turns /\ Steady(old, new)
    BY <1>1, <1>3 DEF ClientRec
  <2>2. old.stored \in Nat /\ new.stored \in Nat /\ r.sent \in Int
    BY <1>1, <2>1 DEF StreamInv, Shapes, TurnRec, ClientRec
  <2>3. old.status # "none" /\ -1 <= r.sent /\ r.sent <= old.stored - 1
    BY <1>1, <1>3 DEF Follows
  <2>4. new.status # "none" /\ old.stored <= new.stored
    BY <2>1, <2>3 DEF Steady
  <2>5. -1 <= r.sent /\ r.sent <= new.stored - 1
    BY <2>2, <2>3, <2>4
  <2>6. ASSUME r.at \in {"last", "end"}
        PROVE  /\ old.status # "running" /\ new.status # "running" /\ new.stored = old.stored
               /\ old.status = "removed" => new.status = "removed"
    BY <2>6, <1>1, <1>3, <2>1, <2>3 DEF Follows, Steady
  <2>7. r.at = "last" => \/ new.status = "removed"
                         \/ r.behind = Cardinality(UnsentBy(t, r.sent)')
    <3> SUFFICES ASSUME r.at = "last", new.status # "removed"
                 PROVE  r.behind = Cardinality(UnsentBy(t, r.sent)')
      OBVIOUS
    <3>1. Rows(t)' = Rows(t)
      BY <1>1, <2>6 DEF Rows
    <3>2. UnsentBy(t, r.sent)' = UnsentBy(t, r.sent)
      BY <1>1, <3>1 DEF UnsentBy
    <3>3. r.behind = Cardinality(UnsentBy(t, r.sent))
      BY <1>1, <1>3, <2>6 DEF Follows
    <3> QED BY <3>2, <3>3
  <2>8. r.at = "end" => \/ new.status = "removed"
                        \/ r.sent = new.stored - 1
                        \/ r.behind > Page
    BY <1>1, <1>3, <2>6 DEF Follows
  <2>9. r.at \in {"last", "end"} => new.status # "running"
    BY <2>6
  <2> QED BY <1>1, <1>3, <2>4, <2>5, <2>7, <2>8, <2>9 DEF Follows
<1> QED BY <1>2, <1>3

LEMMA MovedKeeps ==
  ASSUME StreamInv, NEW t \in Turns, Moved(t),
         \/ current' = current
         \/ turn[t].status # "running" /\ current = t /\ current' = NoTurn
  PROVE  StreamInv'
<1>1. \A u \in Turns : u # t => turn'[u] = turn[u]
  BY DEF Moved, StreamInv, Shapes
<1>2. \A u \in Turns : Sound(turn'[u])
  BY <1>1 DEF Moved, StreamInv
<1>3. \A u \in Turns : turn'[u] \in TurnRec
  BY <1>2 DEF Sound
<1>4. turn' \in [Turns -> TurnRec]
  BY <1>3 DEF Moved, StreamInv, Shapes
<1>5. \A u \in Turns : Steady(turn[u], turn'[u])
  <2>1. \A u \in Turns : turn[u].stored \in Nat
    BY DEF StreamInv, Shapes, TurnRec
  <2>2. \A u \in Turns : Steady(turn[u], turn[u])
    BY <2>1 DEF Steady
  <2> QED BY <1>1, <2>2 DEF Moved
<1>6. \A c \in Clients : Follows(client[c])'
  BY <1>4, <1>5, TurnsAdvance DEF Moved
<1>7. SlotRuns'
  <2>1. \A u \in Turns : turn'[u].status = "running" => turn[u].status = "running"
    BY <1>1 DEF Moved
  <2> QED BY <2>1 DEF SlotRuns, StreamInv
<1>8. Shapes'
  BY <1>4 DEF Shapes, StreamInv, Moved
<1> QED BY <1>2, <1>6, <1>7, <1>8 DEF StreamInv

LEMMA StartKeeps ==
  ASSUME StreamInv, Start
  PROVE  StreamInv'
<1> DEFINE new == [NoTurnYet EXCEPT !.status = "running", !.phase = "working", !.writer = "waiting"]
<1>1. PICK t \in Turns : /\ turn[t].status = "none" /\ Alter(t, new) /\ current' = t
  BY DEF Start
<1>2. client' = client /\ \A u \in Turns : turn[u].status # "running"
  BY DEF Start
<1>3. Sound(new)
  <2>1. NoTurnYet \in TurnRec
    BY DEF TurnRec, NoTurnYet, Outcomes
  <2>2. new \in TurnRec
    BY <2>1 DEF TurnRec
  <2>3. /\ new.status = "running" /\ new.phase = "working" /\ new.writer = "waiting"
        /\ new.stored = 0 /\ new.taken = 0 /\ new.emitted = 0 /\ new.closed = FALSE
    BY DEF NoTurnYet
  <2> HIDE DEF new
  <2> QED BY <2>2, <2>3 DEF Sound
<1>4. turn' = [turn EXCEPT ![t] = new] /\ turn \in [Turns -> TurnRec]
  BY <1>1 DEF Alter, StreamInv, Shapes
<1> HIDE DEF new
<1>5. \A u \in Turns : Sound(turn'[u])
  BY <1>3, <1>4 DEF StreamInv
<1>6. turn' \in [Turns -> TurnRec]
  BY <1>3, <1>4 DEF Sound
<1>7. \A u \in Turns : Steady(turn[u], turn'[u])
  <2>1. \A u \in Turns : turn[u].stored \in Nat
    BY <1>4 DEF TurnRec
  <2>2. \A u \in Turns : Steady(turn[u], turn[u])
    BY <2>1 DEF Steady
  <2>3. Steady(turn[t], turn'[t])
    BY <1>1 DEF Steady
  <2> QED BY <1>4, <2>2, <2>3
<1>8. \A c \in Clients : Follows(client[c])'
  BY <1>2, <1>6, <1>7, TurnsAdvance
<1>9. SlotRuns'
  BY <1>1, <1>2, <1>4 DEF SlotRuns
<1>10. Shapes'
  BY <1>1, <1>2, <1>6 DEF Shapes, StreamInv
<1> QED BY <1>5, <1>8, <1>9, <1>10 DEF StreamInv

LEMMA TurnStepKeeps ==
  ASSUME StreamInv, NEW t \in Turns,
         \/ Emit(t) \/ WorkerEnds(t) \/ Cancel(t) \/ CloseStep(t) \/ WriterStep(t)
         \/ Interrupted(t) \/ Removed(t)
  PROVE  StreamInv'
<1>1. Moved(t)
  BY RunnerMoves, WriterMoves
<1>2. CASE Removed(t)
  <2>1. turn[t].status # "running"
    BY <1>2 DEF Removed, Outcomes
  <2> QED BY <1>1, <1>2, <2>1, MovedKeeps DEF Removed
<1>3. CASE ~Removed(t)
  <2>1. current' = current
    BY <1>3 DEF Emit, WorkerEnds, Cancel, CloseStep, CloseQueue, WriterAwaited, FinalizeTurn,
                LeaveFinally, WriterStep, Take, Persist, Interrupted
  <2> QED BY <1>1, <2>1, MovedKeeps
<1> QED BY <1>2, <1>3
-----------------------------------------------------------------------------
(* What a client does, the turns do not see. *)

LEMMA ClientChanges ==
  ASSUME StreamInv, NEW c \in Clients, NEW r \in ClientRec, Follows(r),
         UNCHANGED <<turn, current>>, client' = [client EXCEPT ![c] = r]
  PROVE  StreamInv'
<1>1. \A d \in Clients : client'[d] \in ClientRec /\ Follows(client'[d])
  BY DEF StreamInv, Shapes
<1>2. \A d \in Clients : Follows(client[d])'
  BY <1>1 DEF Follows, UnsentBy, Rows
<1>3. Shapes'
  BY <1>1 DEF Shapes, StreamInv
<1> QED BY <1>2, <1>3 DEF StreamInv, SlotRuns

LEMMA ClientStepKeeps ==
  ASSUME StreamInv, NEW c \in Clients,
         ClientStep(c) \/ Disconnect(c) \/ \E t \in Turns : Subscribe(c, t)
  PROVE  StreamInv'
<1> DEFINE r == client[c]
           t == r.turn
           to == Last(Reads(c), r.sent)
<1>1. r \in ClientRec /\ Follows(r) /\ client \in [Clients -> ClientRec]
  BY DEF StreamInv, Shapes
<1>2. CASE ReadPage(c)
  <2> DEFINE s == [r EXCEPT !.at = "state", !.sent = to]
  <2>1. UNCHANGED <<turn, current>> /\ client' = [client EXCEPT ![c] = s]
    BY <1>1, <1>2 DEF ReadPage, Sends, ClientRec
  <2>2. t # NoTurn
    BY <1>2 DEF ReadPage
  <2>3. to \in Int /\ -1 <= to /\ to <= turn[t].stored - 1
    BY <2>2, ReadTo
  <2> HIDE DEF to
  <2>4. s \in ClientRec /\ s.turn = t /\ s.at = "state" /\ s.sent = to
    BY <1>1, <2>3 DEF ClientRec
  <2> HIDE DEF s
  <2>5. Follows(s)
    BY <1>1, <2>2, <2>3, <2>4 DEF Follows
  <2> QED BY <2>1, <2>4, <2>5, ClientChanges
<1>3. CASE ReadState(c)
  <2>1. t # NoTurn /\ r.at = "state" /\ UNCHANGED <<turn, current>>
    BY <1>3 DEF ReadState
  <2>2. CASE current # NoTurn /\ turn[current].status = "running"
    <3> DEFINE s == [r EXCEPT !.at = "page"]
    <3>1. client' = [client EXCEPT ![c] = s]
      BY <1>3, <2>2 DEF ReadState
    <3>2. s \in ClientRec /\ s.turn = t /\ s.at = "page" /\ s.sent = r.sent
      BY <1>1 DEF ClientRec
    <3> HIDE DEF s
    <3>3. Follows(s)
      BY <1>1, <2>1, <3>2 DEF Follows
    <3> QED BY <2>1, <3>1, <3>2, <3>3, ClientChanges
  <2>3. CASE ~(current # NoTurn /\ turn[current].status = "running")
    <3> DEFINE s == [r EXCEPT !.at = "last", !.behind = Cardinality(Unsent(c))]
    <3>1. client' = [client EXCEPT ![c] = s]
      BY <1>1, <1>3, <2>3 DEF ReadState, ClientRec
    <3>2. Unsent(c) = UnsentBy(t, r.sent) /\ IsFiniteSet(Unsent(c))
      BY <2>1, ReadTo
    <3>3. Cardinality(Unsent(c)) \in Nat
      BY <3>2, FS_CardinalityType
    <3>4. /\ s \in ClientRec /\ s.turn = t /\ s.at = "last" /\ s.sent = r.sent
          /\ s.behind = Cardinality(Unsent(c))
      BY <1>1, <3>3 DEF ClientRec
    <3> HIDE DEF s
    <3>5. turn[t].status # "running"
      <4>1. t \in Turns
        BY <1>1, <2>1 DEF ClientRec
      <4> QED BY <4>1, <2>1, <2>3 DEF StreamInv, SlotRuns
    <3>6. Follows(s)
      BY <1>1, <2>1, <3>2, <3>4, <3>5 DEF Follows
    <3> QED BY <2>1, <3>1, <3>4, <3>6, ClientChanges
  <2> QED BY <2>2, <2>3
<1>4. CASE ReadLast(c)
  <2> DEFINE s == [r EXCEPT !.at = "end", !.sent = to]
  <2>1. UNCHANGED <<turn, current>> /\ client' = [client EXCEPT ![c] = s]
    BY <1>1, <1>4 DEF ReadLast, Sends, ClientRec
  <2>2. t # NoTurn /\ r.at = "last"
    BY <1>4 DEF ReadLast
  <2>3. /\ to \in Int /\ -1 <= to /\ to <= turn[t].stored - 1
        /\ Unsent(c) = UnsentBy(t, r.sent)
        /\ turn[t].status # "removed" /\ Cardinality(Unsent(c)) <= Page => to = turn[t].stored - 1
    BY <2>2, ReadTo
  <2> HIDE DEF to
  <2>4. s \in ClientRec /\ s.turn = t /\ s.at = "end" /\ s.sent = to /\ s.behind = r.behind
    BY <1>1, <2>3 DEF ClientRec
  <2> HIDE DEF s
  <2>5. turn[t].status = "removed" \/ to = turn[t].stored - 1 \/ r.behind > Page
    <3>1. turn[t].status = "removed" \/ r.behind = Cardinality(Unsent(c))
      BY <1>1, <2>2, <2>3 DEF Follows
    <3>2. r.behind \in Nat
      BY <1>1 DEF ClientRec
    <3> QED BY <3>1, <3>2, <2>3, Numbers
  <2>6. Follows(s)
    BY <1>1, <2>2, <2>3, <2>4, <2>5 DEF Follows
  <2> QED BY <2>1, <2>4, <2>6, ClientChanges
<1>5. CASE Disconnect(c)
  <2> DEFINE s == [turn |-> NoTurn, at |-> "page", sent |-> -1, behind |-> 0]
  <2>1. UNCHANGED <<turn, current>> /\ client' = [client EXCEPT ![c] = s]
    BY <1>5 DEF Disconnect
  <2>2. s \in ClientRec /\ Follows(s)
    BY DEF ClientRec, Follows
  <2> QED BY <2>1, <2>2, ClientChanges
<1>6. CASE \E u \in Turns : Subscribe(c, u)
  <2>1. PICK u \in Turns : Subscribe(c, u)
    BY <1>6
  <2> DEFINE s == [r EXCEPT !.turn = u]
  <2>2. /\ UNCHANGED <<turn, current>> /\ client' = [client EXCEPT ![c] = s]
        /\ turn[u].status # "none" /\ t = NoTurn
    BY <2>1 DEF Subscribe
  <2>3. r.sent = -1 /\ r.at = "page"
    BY <1>1, <2>2 DEF Follows
  <2>4. s \in ClientRec /\ s.turn = u /\ s.at = "page" /\ s.sent = -1
    BY <1>1, <2>3 DEF ClientRec
  <2>5. turn[u].stored \in Nat /\ u # NoTurn
    BY Numbers DEF StreamInv, Shapes, TurnRec
  <2> HIDE DEF s
  <2>6. Follows(s)
    BY <2>2, <2>4, <2>5 DEF Follows
  <2> QED BY <2>2, <2>4, <2>6, ClientChanges
<1> QED BY <1>2, <1>3, <1>4, <1>5, <1>6 DEF ClientStep
-----------------------------------------------------------------------------
(* The turns of a chat and their clients keep to their records, the slot   *)
(* has the turn that runs, a turn's writer precedes its outcome, and each   *)
(* client has sent a prefix of what its turn has stored.                    *)
THEOREM StreamInvariant == StreamSpec => []StreamInv
<1>1. StreamInit => StreamInv
  <2> SUFFICES ASSUME StreamInit
               PROVE  StreamInv
    OBVIOUS
  <2>1. NoTurnYet \in TurnRec /\ Sound(NoTurnYet) /\ NoTurnYet.status = "none"
    BY DEF NoTurnYet, Sound, TurnRec, Outcomes
  <2> DEFINE s == [turn |-> NoTurn, at |-> "page", sent |-> -1, behind |-> 0]
  <2>2. s \in ClientRec /\ Follows(s)
    BY DEF ClientRec, Follows
  <2>3. turn = [t \in Turns |-> NoTurnYet] /\ current = NoTurn /\ client = [c \in Clients |-> s]
    BY DEF StreamInit
  <2> HIDE DEF s
  <2>4. Shapes
    BY <2>1, <2>2, <2>3 DEF Shapes
  <2>5. SlotRuns
    BY <2>1, <2>3 DEF SlotRuns
  <2> QED BY <2>1, <2>2, <2>3, <2>4, <2>5 DEF StreamInv
<1>2. StreamInv /\ [StreamNext]_streamvars => StreamInv'
  <2> SUFFICES ASSUME StreamInv, [StreamNext]_streamvars
               PROVE  StreamInv'
    OBVIOUS
  <2>1. CASE Start
    BY <2>1, StartKeeps
  <2>2. ASSUME NEW t \in Turns,
               \/ Emit(t) \/ WorkerEnds(t) \/ Cancel(t) \/ CloseStep(t) \/ WriterStep(t)
               \/ Interrupted(t) \/ Removed(t)
        PROVE  StreamInv'
    BY <2>2, TurnStepKeeps
  <2>3. ASSUME NEW c \in Clients,
               ClientStep(c) \/ Disconnect(c) \/ \E t \in Turns : Subscribe(c, t)
        PROVE  StreamInv'
    BY <2>3, ClientStepKeeps
  <2>4. CASE UNCHANGED streamvars
    BY <2>4 DEF streamvars, StreamInv, Shapes, SlotRuns, Follows, UnsentBy, Rows
  <2> QED BY <2>1, <2>2, <2>3, <2>4 DEF StreamNext
<1> QED BY <1>1, <1>2, PTL DEF StreamSpec

(* The rows of a turn never exceed what its writer took, nor that what its  *)
(* worker emitted: the types and the order of the three counts.             *)
THEOREM StreamTypes == StreamSpec => []StreamTypeOK
BY StreamInvariant, TypesFromInv, PTL

(* close_durable awaits the writer before it finalizes: a turn that ended   *)
(* "done" has stored every event it emitted, unless its writer failed.      *)
THEOREM DoneTurnsAreComplete == StreamSpec => []DoneIsReplayable
<1>1. StreamInv => DoneIsReplayable
  BY DEF StreamInv, Sound, DoneIsReplayable
<1> QED BY <1>1, StreamInvariant, PTL

(* TurnRun.subscribe: a stream that has ended has sent the last event       *)
(* stored, unless its turn was removed or it was more than a page behind    *)
(* when it saw the turn over, whatever was written between its reads.       *)
THEOREM StreamsReachTheEnd == StreamSpec => []StreamedToTheEnd
<1>1. StreamInv => StreamedToTheEnd
  BY DEF StreamInv, Follows, StreamedToTheEnd
<1> QED BY <1>1, StreamInvariant, PTL

(* No client was further behind than the rows a turn keeps. *)
Near == \A c \in Clients : client[c].behind <= Limit

LEMMA KeptRows ==
  ASSUME StreamInv, NEW c \in Clients, client[c].turn # NoTurn
  PROVE  Cardinality(Unsent(c)) \in Nat /\ Cardinality(Unsent(c)) <= Limit
<1> DEFINE t == client[c].turn
           stored == turn[t].stored
           kept == (stored - Limit)..(stored - 1)
<1>1. t \in Turns /\ stored \in Nat /\ Limit \in Nat \ {0}
  BY Numbers DEF StreamInv, Shapes, ClientRec, TurnRec
<1>2. Unsent(c) \subseteq kept
  BY <1>1 DEF Unsent, Rows
<1>3. IsFiniteSet(kept) /\ Cardinality(kept) = Limit
  <2>1. stored - Limit \in Int /\ stored - 1 \in Int
    BY <1>1
  <2>2. IsFiniteSet(kept) /\ Cardinality(kept) = IF stored - Limit > stored - 1 THEN 0
                                                ELSE (stored - 1) - (stored - Limit) + 1
    BY <2>1, FS_Interval
  <2> QED BY <1>1, <2>2
<1>4. IsFiniteSet(Unsent(c)) /\ Cardinality(Unsent(c)) <= Cardinality(kept)
  BY <1>2, <1>3, FS_Subset
<1>5. Cardinality(Unsent(c)) \in Nat
  BY <1>4, FS_CardinalityType
<1> QED BY <1>3, <1>4, <1>5

LEMMA InitNear == StreamInit => Near
  BY Numbers DEF StreamInit, Near

LEMMA StepNear ==
  ASSUME StreamInv, Near, [StreamNext]_streamvars
  PROVE  Near'
<1>1. client \in [Clients -> ClientRec] /\ Limit \in Nat
  BY Numbers DEF StreamInv, Shapes
<1>2. ASSUME NEW c \in Clients, NEW r, r.behind <= Limit, client' = [client EXCEPT ![c] = r]
      PROVE  Near'
  <2>1. \A d \in Clients : client'[d] = IF d = c THEN r ELSE client[d]
    BY <1>1, <1>2
  <2> QED BY <1>2, <2>1 DEF Near
<1>3. CASE UNCHANGED client
  BY <1>3 DEF Near
<1>4. ASSUME NEW c \in Clients, \/ ReadPage(c) \/ ReadLast(c) \/ Disconnect(c)
                                \/ \E t \in Turns : Subscribe(c, t)
      PROVE  Near'
  <2>1. client[c] \in ClientRec /\ client[c].behind <= Limit
    BY <1>1 DEF Near
  <2>2. CASE ReadPage(c) \/ ReadLast(c)
    <3>1. PICK at \in {"state", "end"} : Sends(c, at)
      BY <2>2 DEF ReadPage, ReadLast
    <3> DEFINE sent == Last(Reads(c), client[c].sent)
               s == [client[c] EXCEPT !.at = at, !.sent = sent]
    <3>2. client' = [client EXCEPT ![c] = s]
      BY ONLY <1>1, <3>1 DEF Sends, ClientRec
    <3> HIDE DEF sent
    <3>3. s.behind = client[c].behind
      BY <2>1 DEF ClientRec
    <3> HIDE DEF s
    <3> QED BY <1>2, <2>1, <3>2, <3>3
  <2>3. CASE Disconnect(c)
    <3> DEFINE s == [turn |-> NoTurn, at |-> "page", sent |-> -1, behind |-> 0]
    <3>1. client' = [client EXCEPT ![c] = s] /\ s.behind <= Limit
      BY <1>1, <2>3 DEF Disconnect
    <3> HIDE DEF s
    <3> QED BY <1>2, <3>1
  <2>4. CASE \E t \in Turns : Subscribe(c, t)
    <3>1. PICK t \in Turns : client' = [client EXCEPT ![c] = [client[c] EXCEPT !.turn = t]]
      BY <1>1, <2>1, <2>4 DEF Subscribe, ClientRec
    <3>2. [client[c] EXCEPT !.turn = t].behind = client[c].behind
      BY <2>1 DEF ClientRec
    <3> QED BY <1>2, <2>1, <3>1, <3>2
  <2> QED BY <1>4, <2>2, <2>3, <2>4
<1>5. ASSUME NEW c \in Clients, ReadState(c)
      PROVE  Near'
  <2>1. client[c] \in ClientRec /\ client[c].behind <= Limit /\ client[c].turn # NoTurn
    BY <1>1, <1>5 DEF Near, ReadState
  <2>2. \/ client' = [client EXCEPT ![c] = [client[c] EXCEPT !.at = "page"]]
        \/ client' = [client EXCEPT ![c] = [client[c] EXCEPT !.at = "last", !.behind = Cardinality(Unsent(c))]]
    BY <1>1, <1>5, <2>1 DEF ReadState, ClientRec
  <2>3. /\ [client[c] EXCEPT !.at = "page"].behind = client[c].behind
        /\ [client[c] EXCEPT !.at = "last", !.behind = Cardinality(Unsent(c))].behind = Cardinality(Unsent(c))
    BY <2>1 DEF ClientRec
  <2>4. Cardinality(Unsent(c)) <= Limit
    BY <2>1, KeptRows
  <2> QED BY <1>2, <2>1, <2>2, <2>3, <2>4
<1>6. CASE Start \/ \E t \in Turns : \/ Emit(t) \/ WorkerEnds(t) \/ Cancel(t) \/ CloseStep(t)
                                     \/ WriterStep(t) \/ Interrupted(t) \/ Removed(t)
  <2>1. UNCHANGED client
    BY <1>6 DEF Start, Emit, WorkerEnds, Cancel, CloseStep, CloseQueue, WriterAwaited, FinalizeTurn,
                LeaveFinally, WriterStep, Take, Persist, Interrupted, Removed
  <2> QED BY <1>3, <2>1
<1>7. CASE UNCHANGED streamvars
  BY <1>3, <1>7 DEF streamvars
<1> QED BY <1>4, <1>5, <1>6, <1>7 DEF StreamNext, ClientStep

(* TurnRun.subscribe cuts a replay only by its page: were a page at least   *)
(* as long as the replay window, the stream of a turn that ended by itself  *)
(* would always be whole.                                                   *)
THEOREM LongPagesReplayAll ==
  ASSUME Page >= Limit
  PROVE  StreamSpec => []WholeReplay
<1>1. StreamInv /\ Near => WholeReplay
  <2> SUFFICES ASSUME StreamInv, Near, NEW c \in Clients, client[c].turn # NoTurn, client[c].at = "end",
                      turn[client[c].turn].status = "done"
               PROVE  client[c].sent = turn[client[c].turn].stored - 1
    BY DEF WholeReplay
  <2>1. Follows(client[c]) /\ client[c].behind \in Nat /\ client[c].behind <= Limit
    BY DEF StreamInv, Shapes, ClientRec, Near
  <2>2. ~(client[c].behind > Page)
    BY <2>1, Numbers
  <2> QED BY <2>1, <2>2 DEF Follows
<1>2. StreamInv /\ Near /\ [StreamNext]_streamvars => Near'
  BY StepNear
<1> QED BY <1>1, <1>2, InitNear, StreamInvariant, PTL DEF StreamSpec
-----------------------------------------------------------------------------
(* The turns as the jobs of JobContract.  They are issued in order, and    *)
(* only the last one issued can run.                                        *)
IssuedTo(n) ==
    /\ n \in 0..MaxTurns
    /\ \A t \in Turns : turn[t].status # "none" <=> t <= n
    /\ \A t \in Turns : turn[t].status = "running" => t = n
ContractInv == StreamInv /\ \E n \in 0..MaxTurns : IssuedTo(n)

running == IF current # NoTurn /\ turn[current].status = "running" THEN current ELSE NoTurn
phases == [t \in Turns |-> Phase(turn[t].status)]
lengths == [t \in Turns |-> IF turn[t].status \in {"none", "removed"} THEN 0 ELSE turn[t].stored]
verdicts == [t \in Turns |-> IF turn[t].status = "done" THEN t ELSE -1]

LEMMA IssuedIs ==
  ASSUME NEW f, NEW n \in 0..MaxTurns, \A t \in Turns : f[t].status # "none" <=> t <= n
  PROVE  (CHOOSE m \in 0..MaxTurns : \A t \in Turns : f[t].status # "none" <=> t <= m) = n
<1> DEFINE Fits(m) == \A t \in Turns : f[t].status # "none" <=> t <= m
<1>1. \A m \in 0..MaxTurns : Fits(m) => m = n
  <2> SUFFICES ASSUME NEW m \in 0..MaxTurns, Fits(m), m # n
               PROVE  FALSE
    OBVIOUS
  <2>1. CASE m < n
    <3>1. n \in Turns
      BY <2>1, Numbers DEF Turns
    <3> QED BY <2>1, <3>1
  <2>2. CASE n < m
    <3>1. m \in Turns
      BY <2>2, Numbers DEF Turns
    <3> QED BY <2>2, <3>1
  <2> QED BY <2>1, <2>2, Numbers
<1>2. Fits(n)
  OBVIOUS
<1> HIDE DEF Fits
<1>3. (CHOOSE m \in 0..MaxTurns : Fits(m)) = n
  BY <1>1, <1>2
<1> QED BY <1>3 DEF Fits

LEMMA IssuedNow == \A n : IssuedTo(n) => Issued = n
BY IssuedIs DEF IssuedTo, Issued
LEMMA IssuedNext == \A n : IssuedTo(n)' => Issued' = n
BY IssuedIs DEF IssuedTo, Issued

(* What a step of a turn is to the contract: nothing, rows, its end, or its *)
(* removal.                                                                 *)
Unseen(t) ==
    turn'[t].status = turn[t].status /\ turn'[t].stored = turn[t].stored /\ current' = current
Recorded(t) ==
    /\ turn[t].status = "running" /\ turn'[t].status = "running"
    /\ turn'[t].stored > turn[t].stored /\ current' = current
Ended(t) ==
    /\ turn[t].status = "running" /\ turn'[t].status \in Outcomes
    /\ turn'[t].stored = turn[t].stored /\ current' = current
Forgotten(t) ==
    /\ turn[t].status \in Outcomes /\ turn'[t].status = "removed"
    /\ current' = IF current = t THEN NoTurn ELSE current

LEMMA TurnEffects ==
  ASSUME StreamInv, NEW t \in Turns,
         \/ Emit(t) \/ WorkerEnds(t) \/ Cancel(t) \/ CloseStep(t) \/ WriterStep(t)
         \/ Interrupted(t) \/ Removed(t)
  PROVE  Unseen(t) \/ Recorded(t) \/ Ended(t) \/ Forgotten(t)
<1> DEFINE r == turn[t]
<1>1. turn \in [Turns -> TurnRec] /\ r \in TurnRec /\ Sound(r)
  BY DEF StreamInv, Shapes
<1>2. \A s : Alter(t, s) => turn'[t] = s
  BY <1>1 DEF Alter
<1>3. CASE Emit(t)
  BY <1>1, <1>2, <1>3 DEF Emit, Unseen, TurnRec
<1>4. CASE WorkerEnds(t)
  BY <1>1, <1>2, <1>4 DEF WorkerEnds, Unseen, TurnRec
<1>5. CASE Cancel(t)
  BY <1>1, <1>2, <1>5 DEF Cancel, Unseen, TurnRec
<1>6. CASE CloseQueue(t) \/ WriterAwaited(t) \/ LeaveFinally(t)
  BY <1>1, <1>2, <1>6 DEF CloseQueue, WriterAwaited, LeaveFinally, Unseen, TurnRec
<1>7. CASE FinalizeTurn(t)
  <2> DEFINE ends == IF r.status = "running" THEN r.outcome ELSE r.status
             s == [r EXCEPT !.phase = "over", !.outcome = "error", !.status = ends]
  <2>1. turn'[t] = s /\ current' = current
    BY <1>2, <1>7 DEF FinalizeTurn
  <2>2. s.status = ends /\ s.stored = r.stored /\ r.outcome \in Outcomes
    BY <1>1 DEF TurnRec
  <2> QED BY <2>1, <2>2 DEF Unseen, Ended
<1>8. CASE Take(t)
  BY <1>1, <1>2, <1>8 DEF Take, Unseen, TurnRec
<1>9. CASE Persist(t)
  <2>1. CASE Alter(t, [r EXCEPT !.writer = "dead"])
    BY <1>1, <1>2, <1>9, <2>1 DEF Persist, Unseen, TurnRec
  <2>2. ASSUME r.status = "running", NEW w, Alter(t, [r EXCEPT !.stored = r.taken, !.writer = w])
        PROVE  Unseen(t) \/ Recorded(t)
    <3> DEFINE s == [r EXCEPT !.stored = r.taken, !.writer = w]
    <3>1. turn'[t] = s /\ current' = current
      BY <1>2, <1>9, <2>2 DEF Persist
    <3>2. s.status = r.status /\ s.stored = r.taken /\ r.taken \in Nat /\ r.stored \in Nat
      BY <1>1 DEF TurnRec
    <3> HIDE DEF s
    <3>3. r.stored <= r.taken
      BY <1>1 DEF Sound
    <3> QED BY <2>2, <3>1, <3>2, <3>3 DEF Unseen, Recorded
  <2> QED BY <1>9, <2>1, <2>2 DEF Persist
<1>10. CASE Interrupted(t)
  BY <1>1, <1>2, <1>10 DEF Interrupted, Ended, TurnRec, Outcomes
<1>11. CASE Removed(t)
  BY <1>1, <1>2, <1>11 DEF Removed, Forgotten, TurnRec
<1> QED
  BY <1>3, <1>4, <1>5, <1>6, <1>7, <1>8, <1>9, <1>10, <1>11 DEF CloseStep, WriterStep

LEMMA RunningTurn ==
  ASSUME StreamInv
  PROVE  /\ \A t \in Turns : turn[t].status = "running" => running = t
         /\ (\A t \in Turns : turn[t].status # "running") => running = NoTurn
         /\ running # NoTurn => running \in Turns /\ turn[running].status = "running"
<1>1. current \in Turns \union {NoTurn} /\ \A t \in Turns : t # NoTurn
  BY Numbers DEF StreamInv, Shapes
<1>2. \A t \in Turns : turn[t].status = "running" => running = t
  BY <1>1 DEF StreamInv, SlotRuns, running
<1>3. (\A t \in Turns : turn[t].status # "running") => running = NoTurn
  BY <1>1 DEF running
<1> QED BY <1>1, <1>2, <1>3 DEF running

LEMMA NextRunningTurn ==
  ASSUME StreamInv'
  PROVE  /\ \A t \in Turns : turn'[t].status = "running" => running' = t
         /\ (\A t \in Turns : turn'[t].status # "running") => running' = NoTurn
<1>1. current' \in Turns \union {NoTurn} /\ \A t \in Turns : t # NoTurn
  BY Numbers DEF StreamInv, Shapes
<1>2. \A t \in Turns : turn'[t].status = "running" => running' = t
  BY <1>1 DEF StreamInv, SlotRuns, running
<1> QED BY <1>1, <1>2 DEF running

(* What a step to the contract's variables is a step of the contract. *)
Keeps == Contract!Next \/ UNCHANGED <<running, Issued, phases, lengths, verdicts>>

LEMMA TurnKeepsContract ==
  ASSUME ContractInv, StreamInv', NEW t \in Turns, Moved(t),
         Unseen(t) \/ Recorded(t) \/ Ended(t) \/ Forgotten(t)
  PROVE  ContractInv' /\ Keeps
<1>1. PICK n \in 0..MaxTurns : IssuedTo(n)
  BY DEF ContractInv
<1>2. StreamInv /\ turn \in [Turns -> TurnRec] /\ turn' \in [Turns -> TurnRec]
  BY DEF ContractInv, StreamInv, Shapes
<1>3. \A u \in Turns : u # t => turn'[u] = turn[u]
  BY <1>2 DEF Moved
<1>4. /\ turn'[t].status = "none" <=> turn[t].status = "none"
      /\ turn'[t].status = "running" => turn[t].status = "running"
  BY DEF Unseen, Recorded, Ended, Forgotten, Outcomes
<1>5. IssuedTo(n)'
  BY <1>1, <1>3, <1>4 DEF IssuedTo
<1>6. Issued = n /\ Issued' = n
  BY <1>1, <1>5, IssuedNow, IssuedNext
<1>7. ContractInv'
  BY <1>5 DEF ContractInv
<1>a. \A u \in Turns \ {t} : phases'[u] = phases[u] /\ lengths'[u] = lengths[u] /\ verdicts'[u] = verdicts[u]
  BY <1>3 DEF phases, lengths, verdicts
<1>8. CASE Unseen(t)
  <2>1. phases' = phases /\ lengths' = lengths /\ verdicts' = verdicts
    BY <1>3, <1>8 DEF phases, lengths, verdicts, Unseen
  <2>2. running' = running
    <3>1. \A u \in Turns : turn'[u].status = turn[u].status
      BY <1>3, <1>8 DEF Unseen
    <3> QED BY <1>2, <1>8, <3>1 DEF running, Unseen, StreamInv, Shapes
  <2> QED BY <1>6, <1>7, <2>1, <2>2 DEF Keeps
<1>9. CASE Recorded(t)
  <2>1. turn[t].status = "running" /\ turn'[t].status = "running" /\ turn'[t].stored > turn[t].stored
    BY <1>9 DEF Recorded
  <2>2. running = t /\ running' = t /\ t # NoTurn
    BY <1>2, <2>1, RunningTurn, NextRunningTurn, Numbers
  <2>3. phases' = phases /\ verdicts' = verdicts
    BY <1>3, <2>1 DEF phases, verdicts
  <2>4. lengths' = [lengths EXCEPT ![t] = lengths'[t]] /\ lengths'[t] > lengths[t]
    BY <1>a, <2>1 DEF lengths
  <2>5. Contract!Record
    BY <1>6, <2>2, <2>3, <2>4 DEF Contract!Record, running, phases, lengths, verdicts
  <2> QED BY <1>7, <2>5 DEF Keeps, Contract!Next
<1>10. CASE Ended(t)
  <2>1. turn[t].status = "running" /\ turn'[t].status \in Outcomes /\ turn'[t].stored = turn[t].stored
    BY <1>10 DEF Ended
  <2>2. \A u \in Turns : turn'[u].status # "running"
    BY <1>1, <1>3, <2>1 DEF IssuedTo, Outcomes
  <2>3. running = t /\ running' = NoTurn /\ t # NoTurn /\ t = n
    BY <1>1, <1>2, <2>1, <2>2, RunningTurn, NextRunningTurn, Numbers DEF IssuedTo
  <2>4. PICK by \in {Issued, Contract!Nobody} : by = IF turn'[t].status = "done" THEN t ELSE -1
    BY <1>6, <2>3 DEF Contract!Nobody
  <2>5. phases' = [phases EXCEPT ![t] = "sealed"]
    BY <1>a, <2>1 DEF phases, Phase, Outcomes
  <2>6. verdicts' = [verdicts EXCEPT ![t] = by]
    BY <1>a, <2>4 DEF verdicts
  <2>7. lengths' = lengths
    BY <1>a, <2>1 DEF lengths, Outcomes
  <2>8. Contract!Seal(by)
    BY <1>6, <2>3, <2>5, <2>6, <2>7 DEF Contract!Seal, running, phases, lengths, verdicts
  <2> QED BY <1>7, <2>4, <2>8 DEF Keeps, Contract!Next
<1>11. CASE Forgotten(t)
  <2>1. /\ turn[t].status \in Outcomes /\ turn'[t].status = "removed"
        /\ current' = IF current = t THEN NoTurn ELSE current
    BY <1>11 DEF Forgotten
  <2>2. running' = running
    <3>1. \A u \in Turns : turn'[u].status = "running" <=> turn[u].status = "running"
      BY <1>3, <2>1 DEF Outcomes
    <3> QED BY <1>2, <3>1, <2>1 DEF running, StreamInv, Shapes, Outcomes
  <2>3. phases[t] = "sealed" /\ phases' = [u \in Turns |-> IF u \in {t} THEN "gone" ELSE phases[u]]
    BY <1>3, <2>1 DEF phases, Phase, Outcomes
  <2>4. lengths' = [u \in Turns |-> IF u \in {t} THEN 0 ELSE lengths[u]]
    BY <1>3, <2>1 DEF lengths
  <2>5. verdicts' = [u \in Turns |-> IF u \in {t} THEN Contract!Nobody ELSE verdicts[u]]
    BY <1>3, <2>1 DEF verdicts, Contract!Nobody
  <2>6. Contract!Forget({t})
    BY <1>6, <2>2, <2>3, <2>4, <2>5
    DEF Contract!Forget, Contract!Nobody, running, phases, lengths, verdicts
  <2> QED BY <1>7, <2>6 DEF Keeps, Contract!Next
<1> QED BY <1>8, <1>9, <1>10, <1>11

LEMMA StartKeepsContract ==
  ASSUME ContractInv, StreamInv', Start
  PROVE  ContractInv' /\ Keeps
<1> DEFINE new == [NoTurnYet EXCEPT !.status = "running", !.phase = "working", !.writer = "waiting"]
<1>1. PICK t \in Turns : /\ turn[t].status = "none" /\ Alter(t, new) /\ current' = t
                         /\ \A u \in 1..(t - 1) : turn[u].status # "none"
  BY DEF Start
<1>2. StreamInv /\ turn \in [Turns -> TurnRec] /\ \A u \in Turns : turn[u].status # "running"
  BY DEF ContractInv, StreamInv, Shapes, Start
<1>3. new.status = "running" /\ new.stored = 0
  BY DEF NoTurnYet
<1> HIDE DEF new
<1>4. turn'[t] = new /\ \A u \in Turns : u # t => turn'[u] = turn[u]
  BY <1>1, <1>2 DEF Alter
<1>5. PICK n \in 0..MaxTurns : IssuedTo(n)
  BY DEF ContractInv
<1>6. t = n + 1
  <2>1. t \in Nat /\ n \in Nat /\ ~(t <= n) /\ MaxTurns \in Nat
    BY <1>1, <1>5, Numbers DEF IssuedTo
  <2>2. ASSUME n + 1 < t
        PROVE  FALSE
    <3>1. n + 1 \in 1..(t - 1) /\ n + 1 \in Turns
      BY <2>1, <2>2 DEF Turns
    <3> QED BY <1>1, <1>5, <2>1, <3>1 DEF IssuedTo
  <2> QED BY <2>1, <2>2
<1>7. IssuedTo(n + 1)'
  <2>1. n + 1 \in 0..MaxTurns
    BY <1>6, Numbers DEF Turns
  <2>2. \A u \in Turns : turn'[u].status # "none" <=> u <= n + 1
    <3>1. \A u \in Turns : u # t => (turn[u].status # "none" <=> u <= n + 1)
      BY <1>5, <1>6 DEF IssuedTo, Turns
    <3> QED BY <1>3, <1>4, <1>6, <3>1
  <2>3. \A u \in Turns : turn'[u].status = "running" => u = n + 1
    BY <1>2, <1>4, <1>6
  <2> QED BY <2>1, <2>2, <2>3 DEF IssuedTo
<1>8. Issued = n /\ Issued' = n + 1
  BY <1>5, <1>7, IssuedNow, IssuedNext
<1>9. ContractInv'
  <2>1. n + 1 \in 0..MaxTurns
    BY <1>6, Numbers DEF Turns
  <2> QED BY <1>7, <2>1 DEF ContractInv
<1>10. running = NoTurn /\ running' = t
  BY <1>2, <1>3, <1>4, RunningTurn, NextRunningTurn
<1>11. phases[t] = "new" /\ phases' = [phases EXCEPT ![t] = "open"]
  BY <1>1, <1>3, <1>4 DEF phases, Phase
<1>12. lengths' = lengths
  BY <1>1, <1>3, <1>4 DEF lengths
<1>13. verdicts' = verdicts
  BY <1>1, <1>3, <1>4 DEF verdicts
<1>14. Contract!Begin(t)
  BY <1>8, <1>10, <1>11, <1>12, <1>13 DEF Contract!Begin, running, phases, lengths, verdicts
<1> QED BY <1>9, <1>14 DEF Keeps, Contract!Next

LEMMA IdleKeepsContract ==
  ASSUME ContractInv, StreamInv', UNCHANGED <<turn, current>>
  PROVE  ContractInv' /\ Keeps
BY DEF ContractInv, IssuedTo, Keeps, running, Issued, phases, lengths, verdicts

(* A turn runs alone, its rows are added while it runs, its outcome comes   *)
(* once, from its own finalize or from nobody, and it can then only be      *)
(* removed: the turns of a chat keep the store's contract, with the writer, *)
(* close_durable and the cancellations in any order.                        *)
THEOREM TurnsImplementContract == StreamSpec => TurnsKeepContract
<1>1. StreamInit /\ StreamInv => ContractInv
  <2> SUFFICES ASSUME StreamInit
               PROVE  IssuedTo(0)
    BY Numbers DEF ContractInv
  <2> QED BY Numbers DEF StreamInit, IssuedTo, NoTurnYet, Turns
<1>2. StreamInit => Contract!Init
  <2> SUFFICES ASSUME StreamInit
               PROVE  Contract!Init
    OBVIOUS
  <2>1. turn = [t \in Turns |-> NoTurnYet] /\ current = NoTurn /\ NoTurnYet.status = "none"
    BY DEF StreamInit, NoTurnYet
  <2>2. IssuedTo(0)
    BY <2>1, Numbers DEF IssuedTo, Turns
  <2> QED BY <2>1, <2>2, IssuedNow DEF Contract!Init, Contract!Nobody, Phase
<1>3. ContractInv /\ StreamInv' /\ [StreamNext]_streamvars => ContractInv' /\ Keeps
  <2> SUFFICES ASSUME ContractInv, StreamInv', [StreamNext]_streamvars
               PROVE  ContractInv' /\ Keeps
    OBVIOUS
  <2>1. CASE Start
    BY <2>1, StartKeepsContract
  <2>2. ASSUME NEW t \in Turns,
               \/ Emit(t) \/ WorkerEnds(t) \/ Cancel(t) \/ CloseStep(t) \/ WriterStep(t)
               \/ Interrupted(t) \/ Removed(t)
        PROVE  ContractInv' /\ Keeps
    <3>1. StreamInv
      BY DEF ContractInv
    <3>2. Moved(t)
      BY <2>2, <3>1, RunnerMoves, WriterMoves
    <3>3. Unseen(t) \/ Recorded(t) \/ Ended(t) \/ Forgotten(t)
      BY <2>2, <3>1, TurnEffects
    <3> QED BY <3>2, <3>3, TurnKeepsContract
  <2>3. ASSUME NEW c \in Clients,
               ClientStep(c) \/ Disconnect(c) \/ \E t \in Turns : Subscribe(c, t)
        PROVE  ContractInv' /\ Keeps
    <3>1. UNCHANGED <<turn, current>>
      BY <2>3 DEF ClientStep, ReadPage, ReadState, ReadLast, Disconnect, Subscribe
    <3> QED BY <3>1, IdleKeepsContract
  <2>4. CASE UNCHANGED streamvars
    BY <2>4, IdleKeepsContract DEF streamvars
  <2> QED BY <2>1, <2>2, <2>3, <2>4 DEF StreamNext
<1>4. Keeps => [Contract!Next]_(Contract!contractVars)
  BY DEF Keeps, Contract!contractVars, running, phases, lengths, verdicts
<1> QED
  BY <1>1, <1>2, <1>3, <1>4, StreamInvariant, PTL DEF StreamSpec, TurnsKeepContract, Contract!Spec
=============================================================================
