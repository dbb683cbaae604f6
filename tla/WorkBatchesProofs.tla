-------------------------- MODULE WorkBatchesProofs --------------------------
(***************************************************************************)
(* What core/work_batches.py guarantees for any batches, items, lanes and   *)
(* limits and any number of workers: that a batch is over exactly when its  *)
(* items are, that results stand, and, while heartbeats get through, that   *)
(* admission is bounded and no item is run twice at a time.                 *)
(*                                                                         *)
(* The invariant has a part about the two tables, one about the leases, one *)
(* about the heartbeats and one about admission.  For each there is a lemma *)
(* that names what a step has to respect to keep it; an action then shows   *)
(* that it does.                                                            *)
(***************************************************************************)
EXTENDS WorkBatches, FiniteSetTheorems, TLAPS

(* A token that is in use was taken from an item that exists, at an attempt *)
(* that the item has made, so the next attempt has another.                 *)
Spent(t, rows, table) ==
    \A i \in Items, n \in Nat : t = <<i, n>> =>
        table[BatchOf[i]].status # "none" /\ (rows[i].status \in ACTIVE => n <= rows[i].attempt)

(* The two tables. *)
TablesOK ==
    /\ \A i \in Items : item[i].status = "none" <=> batch[BatchOf[i]].status \in {"none", "deleted"}
    /\ \A b \in Batches : batch[b].status \notin {"none", "deleted"} => batch[b].feature \in FeaturesOf[b]
    /\ BatchOverWithItems

(* The leases: a worker at work has a token of its own, which stands for it *)
(* in the items it holds; while it writes, its item is locked.              *)
AtWork(w) == worker[w].at \in {"working", "writing"}
LeasesOK ==
    /\ \A i \in Items : Spent(item[i].token, item, batch)
    /\ \A w \in Workers : Spent(worker[w].token, item, batch)
    /\ \A w \in Workers : AtWork(w) <=> worker[w].token # None
    /\ \A w \in Workers : AtWork(w) => worker[w].item \in Items
    /\ \A v, w \in Workers : AtWork(w) /\ worker[v].token = worker[w].token => v = w
    /\ \A i \in Items, w \in Workers : AtWork(w) /\ item[i].token = worker[w].token => item[i].owner = w
    /\ \A w \in Workers : worker[w].at = "writing" => Holds(worker[w].item, worker[w].token)

(* While heartbeats get through, they come in time for the item a worker    *)
(* runs, which it holds until it finishes; a coordinating executor may      *)
(* complete its own, or find it overwritten.                                *)
Loose(w) ==
    \/ worker[w].runs = "batch"
    \/ worker[w].runs = "leader" /\ overwritten /\ item[worker[w].item].status \notin ACTIVE
InTime(w) ==
    /\ ~Loose(w) => Holds(worker[w].item, worker[w].token)
    /\ Holds(worker[w].item, worker[w].token) =>
          worker[w].beat >= 0 /\ item[worker[w].item].left >= worker[w].beat + (LeaseLen - Renew)
HeartsOK == ~missed => \A w \in Workers : worker[w].at = "working" => InTime(w)

(* Coordinating: the workers that run an item of a coordinated batch, and   *)
(* no others, may complete items, those of that batch.                      *)
Coordinates(w) ==
    /\ batch[BatchOf[worker[w].item]].status # "none"
    /\ \/ batch[BatchOf[worker[w].item]].status = "deleted"
       \/ worker[w].runs = "item" <=> Feature(worker[w].item) # Coordinated
Closes(w) ==
    /\ worker[w].at = "working" /\ worker[w].runs = "batch"
    /\ \A i \in worker[w].closing : BatchOf[i] = BatchOf[worker[w].item]
CoordinatesOK ==
    \A w \in Workers : (AtWork(w) => Coordinates(w)) /\ (worker[w].closing = {} \/ Closes(w))

CoreInv == BatchTypeOK /\ TablesOK /\ LeasesOK /\ HeartsOK /\ AdmissionBounded
BatchInv == CoreInv /\ CoordinatesOK
-----------------------------------------------------------------------------
(* Rows. *)

LEMMA UnleasedRow ==
  ASSUME NEW rec \in ItemRec
  PROVE  /\ Unleased(rec) \in ItemRec /\ Unleased(rec).token = None
         /\ Unleased(rec).attempt = rec.attempt /\ Unleased(rec).status = rec.status
<1>1. 0 \in 0..LeaseLen /\ 0 \in 0..Backoff /\ None \in Tokens
  BY BatchAssumption DEF Tokens
<1> QED BY <1>1 DEF Unleased, ItemRec

LEMMA EndedRow ==
  ASSUME NEW rec \in ItemRec, NEW s \in TERMINAL
  PROVE  Ended(rec, s) \in ItemRec /\ Ended(rec, s).status = s /\ Ended(rec, s).token = None
<1>1. 0 \in 0..LeaseLen /\ 0 \in 0..Backoff /\ None \in Tokens
  BY BatchAssumption DEF Tokens
<1>2. Unleased(rec) \in ItemRec /\ Unleased(rec).token = None
  BY <1>1 DEF Unleased, ItemRec
<1> QED BY <1>2 DEF Ended, ItemRec

LEMMA RenewedRow ==
  ASSUME NEW rec \in ItemRec
  PROVE  /\ Renewed(rec) \in ItemRec /\ Renewed(rec).left = LeaseLen /\ Renewed(rec).status = rec.status
         /\ Renewed(rec).token = rec.token /\ Renewed(rec).owner = rec.owner /\ Renewed(rec).attempt = rec.attempt
<1>1. LeaseLen \in 0..LeaseLen
  BY BatchAssumption
<1> QED BY <1>1 DEF Renewed, ItemRec

LEMMA LeasedRow ==
  ASSUME NEW rec \in ItemRec, NEW w \in Workers, NEW t \in Tokens
  PROVE  /\ Leased(rec, w, t) \in ItemRec /\ Leased(rec, w, t).status = "running"
         /\ Leased(rec, w, t).attempt = rec.attempt + 1 /\ Leased(rec, w, t).token = t
         /\ Leased(rec, w, t).owner = w /\ Leased(rec, w, t).left = LeaseLen
<1>1. LeaseLen \in 0..LeaseLen /\ 0 \in 0..Backoff /\ "running" \in ACTIVE
  BY BatchAssumption DEF ACTIVE
<1>2. rec.attempt + 1 \in Nat
  BY DEF ItemRec
<1> QED BY <1>1, <1>2 DEF Leased, ItemRec

LEMMA NoItemRow == NoItem \in ItemRec /\ NoItem.status = "none" /\ NoItem.token = None /\ NoItem.attempt = 0
  BY BatchAssumption DEF NoItem, ItemRec, Tokens

LEMMA RestingWorker ==
  /\ Resting \in WorkerRec /\ Resting.at = "idle" /\ Resting.token = None
  /\ \A at \in {"stopping", "down"} : /\ [Resting EXCEPT !.at = at] \in WorkerRec
                                      /\ [Resting EXCEPT !.at = at].at = at
                                      /\ [Resting EXCEPT !.at = at].token = None
<1>1. Resting \in WorkerRec /\ Resting.at = "idle" /\ Resting.token = None
  BY BatchAssumption DEF Resting, WorkerRec, Tokens
<1>2. ASSUME NEW at \in {"stopping", "down"}
      PROVE  /\ [Resting EXCEPT !.at = at] \in WorkerRec
             /\ [Resting EXCEPT !.at = at].at = at /\ [Resting EXCEPT !.at = at].token = None
  BY <1>1 DEF WorkerRec
<1> QED BY <1>1, <1>2

LEMMA Phases == ACTIVE \intersect TERMINAL = {} /\ {"none", "deleted"} \intersect (ACTIVE \union TERMINAL) = {}
  BY DEF ACTIVE, TERMINAL

LEMMA AggregateOf ==
  ASSUME NEW b \in Batches, NEW rows, \A i \in ItemsOf(b) : rows[i].status \in ACTIVE \union TERMINAL
  PROVE  /\ Aggregate(b, rows) \in ACTIVE \union TERMINAL
         /\ Aggregate(b, rows) \in TERMINAL <=> \A i \in ItemsOf(b) : rows[i].status \in TERMINAL
<1> DEFINE statuses == {rows[i].status : i \in ItemsOf(b)}
<1>1. statuses \subseteq TERMINAL <=> \A i \in ItemsOf(b) : rows[i].status \in TERMINAL
  OBVIOUS
<1>2. Aggregate(b, rows) =
        IF statuses \subseteq TERMINAL
        THEN IF statuses \in {{"cancelled"}, {"failed"}, {"succeeded"}}
             THEN CHOOSE s \in statuses : TRUE ELSE "partial"
        ELSE IF "running" \in statuses THEN "running" ELSE "queued"
  BY DEF Aggregate
<1> HIDE DEF statuses
<1>3. CASE statuses \subseteq TERMINAL
  <2>1. CASE statuses \in {{"cancelled"}, {"failed"}, {"succeeded"}}
    <3>1. (CHOOSE s \in statuses : TRUE) \in statuses
      BY <2>1
    <3> QED BY <1>1, <1>2, <1>3, <2>1, <3>1
  <2>2. CASE statuses \notin {{"cancelled"}, {"failed"}, {"succeeded"}}
    BY <1>1, <1>2, <1>3, <2>2 DEF TERMINAL
  <2> QED BY <2>1, <2>2
<1>4. CASE ~(statuses \subseteq TERMINAL)
  BY <1>1, <1>2, <1>4 DEF ACTIVE, TERMINAL
<1> QED BY <1>3, <1>4
-----------------------------------------------------------------------------
(* What a step has to respect. *)

(* The tables: batches are refreshed when an item ends. *)
LEMMA TablesKept ==
  ASSUME BatchTypeOK, TablesOK, NEW touched \in SUBSET Batches, BatchTypeOK',
         \A b \in touched : /\ batch[b].status \notin {"none", "deleted"}
                            /\ batch'[b].feature = batch[b].feature
                            /\ batch'[b].status = Aggregate(b, item'),
         \A b \in Batches \ touched :
            /\ batch'[b].feature = batch[b].feature
            /\ batch'[b].status = batch[b].status \/ {batch[b].status, batch'[b].status} \subseteq ACTIVE,
         \A i \in Items : /\ item'[i].status = "none" <=> item[i].status = "none"
                          /\ BatchOf[i] \in touched
                             \/ (item'[i].status \in TERMINAL <=> item[i].status \in TERMINAL)
  PROVE  TablesOK'
<1>1. BatchOf \in [Items -> Batches] /\ \A b \in Batches : ItemsOf(b) = {i \in Items : BatchOf[i] = b}
  BY BatchAssumption DEF ItemsOf
<1>2. /\ \A i \in Items : item[i].status = "none" <=> batch[BatchOf[i]].status \in {"none", "deleted"}
      /\ \A b \in Batches : batch[b].status \notin {"none", "deleted"} => batch[b].feature \in FeaturesOf[b]
      /\ \A b \in Batches : batch[b].status \notin {"none", "deleted"} =>
            (batch[b].status \in TERMINAL <=> \A i \in ItemsOf(b) : item[i].status \in TERMINAL)
  BY DEF TablesOK, BatchOverWithItems
<1>3. \A i \in Items : item'[i].status # "none" => item'[i].status \in ACTIVE \union TERMINAL
  BY DEF BatchTypeOK, ItemRec
<1>4. \A b \in touched : /\ batch'[b].status \in ACTIVE \union TERMINAL
                         /\ batch'[b].status \in TERMINAL <=> \A i \in ItemsOf(b) : item'[i].status \in TERMINAL
  <2>1. ASSUME NEW b \in touched
        PROVE  \A i \in ItemsOf(b) : item'[i].status \in ACTIVE \union TERMINAL
    BY <1>1, <1>2, <1>3
  <2> QED BY <2>1, AggregateOf
<1>5. \A b \in Batches : batch'[b].status \in {"none", "deleted"} <=> batch[b].status \in {"none", "deleted"}
  BY <1>4, Phases
<1>6. \A b \in Batches : batch'[b].status \notin {"none", "deleted"} =>
            (batch'[b].status \in TERMINAL <=> \A i \in ItemsOf(b) : item'[i].status \in TERMINAL)
  <2>1. ASSUME NEW b \in Batches \ touched, batch'[b].status \notin {"none", "deleted"}
        PROVE  batch'[b].status \in TERMINAL <=> \A i \in ItemsOf(b) : item'[i].status \in TERMINAL
    <3>1. batch'[b].status \in TERMINAL <=> batch[b].status \in TERMINAL
      BY Phases
    <3>2. \A i \in ItemsOf(b) : item'[i].status \in TERMINAL <=> item[i].status \in TERMINAL
      BY <1>1
    <3> QED BY <1>2, <1>5, <2>1, <3>1, <3>2
  <2> QED BY <1>4, <2>1
<1>7. \A i \in Items : item'[i].status = "none" <=> batch'[BatchOf[i]].status \in {"none", "deleted"}
  BY <1>1, <1>2, <1>5
<1>8. \A b \in Batches : batch'[b].status \notin {"none", "deleted"} => batch'[b].feature \in FeaturesOf[b]
  BY <1>2, <1>5
<1> QED BY <1>6, <1>7, <1>8 DEF TablesOK, BatchOverWithItems, ItemsOf

(* The leases: a token goes with its owner or is given up, and an item a    *)
(* worker writes stays locked.                                              *)
LEMMA LeasesKept ==
  ASSUME BatchTypeOK, LeasesOK, BatchTypeOK',
         \A b \in Batches : batch'[b].status = "none" => batch[b].status = "none",
         \A i \in Items :
            /\ item'[i].status \in ACTIVE =>
                  \/ item[i].status \in ACTIVE /\ item'[i].attempt >= item[i].attempt
                  \/ batch[BatchOf[i]].status = "none"
            /\ \/ item'[i].token = None
               \/ item'[i].token = item[i].token /\ item'[i].owner = item[i].owner
               \/ \E w \in Workers : AtWork(w) /\ item'[i].token = worker[w].token /\ item'[i].owner = w,
         \A w \in Workers :
            \/ worker'[w].at \notin {"working", "writing"} /\ worker'[w].token = None
            \/ /\ AtWork(w) /\ worker'[w].at \in {"working", "writing"}
               /\ worker'[w].token = worker[w].token /\ worker'[w].item = worker[w].item
               /\ worker'[w].at = "writing" => /\ item'[worker[w].item].status = "running"
                                               /\ item'[worker[w].item].token = worker[w].token
  PROVE  LeasesOK'
<1>1. BatchOf \in [Items -> Batches] /\ \A i \in Items, n \in Nat : None # <<i, n>>
  BY BatchAssumption DEF None
<1>2. /\ \A i \in Items : item[i].attempt \in Nat /\ item'[i].attempt \in Nat
      /\ \A w \in Workers : AtWork(w)' <=> worker'[w].at \in {"working", "writing"}
  BY DEF BatchTypeOK, ItemRec, AtWork
<1>3. /\ \A i \in Items : Spent(item[i].token, item, batch)
      /\ \A w \in Workers : Spent(worker[w].token, item, batch)
      /\ \A w \in Workers : AtWork(w) <=> worker[w].token # None
      /\ \A w \in Workers : AtWork(w) => worker[w].item \in Items
      /\ \A v, w \in Workers : AtWork(w) /\ worker[v].token = worker[w].token => v = w
      /\ \A i \in Items, w \in Workers : AtWork(w) /\ item[i].token = worker[w].token => item[i].owner = w
  BY DEF LeasesOK
<1>4. ASSUME NEW t, Spent(t, item, batch)
      PROVE  Spent(t, item', batch')
  <2>1. ASSUME NEW i \in Items, NEW n \in Nat, t = <<i, n>>
        PROVE  batch'[BatchOf[i]].status # "none" /\ (item'[i].status \in ACTIVE => n <= item'[i].attempt)
    <3>1. batch[BatchOf[i]].status # "none" /\ (item[i].status \in ACTIVE => n <= item[i].attempt)
      BY <1>4, <2>1 DEF Spent
    <3>2. batch'[BatchOf[i]].status # "none"
      BY <1>1, <3>1
    <3>3. item'[i].status \in ACTIVE => item[i].status \in ACTIVE /\ item'[i].attempt >= item[i].attempt
      BY <3>1
    <3> QED BY <1>2, <3>1, <3>2, <3>3
  <2> QED BY <2>1 DEF Spent
<1>5. Spent(None, item', batch')
  BY <1>1 DEF Spent
<1>6. /\ \A i \in Items : Spent(item'[i].token, item', batch')
      /\ \A w \in Workers : Spent(worker'[w].token, item', batch')
  BY <1>3, <1>4, <1>5
<1>7. \A w \in Workers : AtWork(w)' => AtWork(w) /\ worker'[w].token = worker[w].token
  BY <1>2
<1>8. \A w \in Workers : /\ AtWork(w)' <=> worker'[w].token # None
                         /\ AtWork(w)' => worker'[w].item \in Items
  BY <1>2, <1>3
<1>9. \A v, w \in Workers : AtWork(w)' /\ worker'[v].token = worker'[w].token => v = w
  BY <1>3, <1>7, <1>8
<1>10. \A i \in Items, w \in Workers : AtWork(w)' /\ item'[i].token = worker'[w].token => item'[i].owner = w
  BY <1>3, <1>7
<1>11. \A w \in Workers : worker'[w].at = "writing" =>
          /\ item'[worker'[w].item].status = "running" /\ item'[worker'[w].item].token = worker'[w].token
  OBVIOUS
<1> QED BY <1>6, <1>8, <1>9, <1>10, <1>11 DEF LeasesOK, Holds, Running

(* The heartbeats: an item that a worker runs is left alone by the others.  *)
LEMMA HeartsKept ==
  ASSUME BatchTypeOK, LeasesOK, HeartsOK, CoordinatesOK, missed' = missed, overwritten => overwritten',
         \A i \in Items : item'[i].status \in ACTIVE =>
            item[i].status \in ACTIVE \/ batch[BatchOf[i]].status = "none",
         \A w \in Workers : worker'[w].at = "working" =>
            /\ worker[w].at = "working" /\ worker'[w].runs \in {worker[w].runs, "batch"}
            /\ worker'[w].item = worker[w].item /\ worker'[w].token = worker[w].token
            /\ worker'[w].beat = worker[w].beat
            /\ \/ missed \/ item'[worker[w].item] = item[worker[w].item]
               \/ item'[worker[w].item].token # worker[w].token /\ Loose(w)'
               \/ ~Holds(worker[w].item, worker[w].token) /\ item'[worker[w].item].token # worker[w].token
  PROVE  HeartsOK'
<1> SUFFICES ASSUME ~missed, NEW w \in Workers, worker'[w].at = "working"
             PROVE  InTime(w)'
  BY DEF HeartsOK
<1> DEFINE i == worker[w].item
<1>1. ~Loose(w)' => ~Loose(w)
  <2>1. i \in Items /\ batch[BatchOf[i]].status # "none" /\ worker'[w].item = i
    BY DEF LeasesOK, CoordinatesOK, Coordinates, AtWork
  <2>2. item'[i].status \in ACTIVE => item[i].status \in ACTIVE
    BY <2>1
  <2> HIDE DEF i
  <2>3. i = worker[w].item
    BY DEF i
  <2> QED BY <2>1, <2>2, <2>3 DEF Loose
<1>2. /\ ~Loose(w) => item[i].status = "running" /\ item[i].token = worker[w].token
      /\ item[i].status = "running" /\ item[i].token = worker[w].token =>
            worker[w].beat >= 0 /\ item[i].left >= worker[w].beat + (LeaseLen - Renew)
  BY DEF HeartsOK, InTime, Holds, Running
<1> HIDE DEF i
<1>3. worker'[w].item = i /\ worker'[w].token = worker[w].token /\ worker'[w].beat = worker[w].beat
  BY DEF i
<1>4. \/ item'[i] = item[i]
      \/ item'[i].token # worker[w].token /\ Loose(w)'
      \/ ~(item[i].status = "running" /\ item[i].token = worker[w].token) /\ item'[i].token # worker[w].token
  BY DEF i, Holds, Running
<1>5. ~Loose(w)' => item'[i].status = "running" /\ item'[i].token = worker[w].token
  BY <1>1, <1>2, <1>4
<1>7. item'[i].status = "running" /\ item'[i].token = worker[w].token =>
            worker[w].beat >= 0 /\ item'[i].left >= worker[w].beat + (LeaseLen - Renew)
  BY <1>2, <1>4
<1> QED BY <1>3, <1>5, <1>7 DEF InTime, Holds, Running

(* Admission: what is live goes on, under the lease of something that was   *)
(* live in its lane and for its feature.                                    *)
LEMMA LeasesFinite ==
  ASSUME NEW S \in SUBSET Items
  PROVE  /\ IsFiniteSet(S) /\ IsFiniteSet(Leases(S)) /\ Cardinality(S) \in Nat
         /\ Cardinality(Leases(S)) \in Nat /\ Cardinality(Leases(S)) <= Cardinality(S)
<1>1. IsFiniteSet(S)
  BY BatchAssumption, FS_Subset
<1> DEFINE f == [i \in S |-> item[i].token]
<1>2. f \in Surjection(S, Leases(S))
  BY DEF Surjection, Leases
<1>3. IsFiniteSet(Leases(S)) /\ Cardinality(Leases(S)) <= Cardinality(S)
  BY <1>1, <1>2, FS_Surjection
<1> QED BY <1>1, <1>3, FS_CardinalityType

LEMMA AdmissionKept ==
  ASSUME BatchTypeOK, AdmissionBounded, missed => missed', overwritten => overwritten',
         ~missed /\ ~overwritten => \A i \in Items : Live(i)' =>
            \E k \in Items : /\ Live(k) /\ LaneOf[k] = LaneOf[i] /\ Feature(k) = batch'[BatchOf[i]].feature
                             /\ item'[i].token = item[k].token
  PROVE  AdmissionBounded'
<1> SUFFICES ASSUME ~missed', ~overwritten'
             PROVE  AdmissionBounded'
  BY DEF AdmissionBounded
<1>1. /\ \A i, k \in Items : Live(i) /\ Live(k) /\ LaneOf[i] = LaneOf[k] => item[i].token = item[k].token
      /\ \A f \in DOMAIN FeatureLimit :
            Cardinality(Leases({i \in Items : Live(i) /\ Feature(i) = f})) <= FeatureLimit[f]
  BY DEF AdmissionBounded
<1>2. \A i, k \in Items : Live(i)' /\ Live(k)' /\ LaneOf[i] = LaneOf[k] => item'[i].token = item'[k].token
  BY <1>1
<1>3. ASSUME NEW f \in DOMAIN FeatureLimit
      PROVE  Cardinality({item'[i].token : i \in {k \in Items : Live(k)' /\ batch'[BatchOf[k]].feature = f}})
                <= FeatureLimit[f]
  <2> DEFINE old == {i \in Items : Live(i) /\ Feature(i) = f}
             tokens == {item'[i].token : i \in {k \in Items : Live(k)' /\ batch'[BatchOf[k]].feature = f}}
  <2>1. tokens \subseteq Leases(old)
    BY DEF Leases
  <2>2. IsFiniteSet(Leases(old)) /\ Cardinality(Leases(old)) \in Nat
    BY LeasesFinite
  <2>3. Cardinality(Leases(old)) <= FeatureLimit[f]
    BY <1>1
  <2> HIDE DEF tokens, old
  <2>4. IsFiniteSet(tokens) /\ Cardinality(tokens) <= Cardinality(Leases(old))
    BY <2>1, <2>2, FS_Subset
  <2>5. Cardinality(tokens) \in Nat /\ FeatureLimit[f] \in Nat
    BY <2>4, FS_CardinalityType, BatchAssumption
  <2> QED BY <2>2, <2>3, <2>4, <2>5 DEF tokens
<1> QED BY <1>2, <1>3 DEF AdmissionBounded, Leases, Feature

(* What a worker does and holds, but for the completions it has begun. *)
AsBefore(w) ==
    /\ worker'[w].at = worker[w].at /\ worker'[w].item = worker[w].item
    /\ worker'[w].token = worker[w].token /\ worker'[w].runs = worker[w].runs
    /\ worker'[w].beat = worker[w].beat

(* Most steps end items or put them back, in batches that they refresh, and *)
(* let workers rest or begin to write.                                      *)
LEMMA ItemsEnd ==
  ASSUME BatchInv, BatchTypeOK', NEW touched \in SUBSET Batches, missed' = missed, overwritten => overwritten',
         \A b \in touched : /\ batch[b].status \notin {"none", "deleted"}
                            /\ batch'[b].feature = batch[b].feature
                            /\ batch'[b].status = Aggregate(b, item'),
         \A b \in Batches \ touched : batch'[b] = batch[b],
         \A i \in Items : \/ item'[i] = item[i]
                          \/ /\ BatchOf[i] \in touched /\ item[i].status # "none" /\ item'[i].token = None
                             /\ \/ item'[i].status \in TERMINAL
                                \/ /\ item[i].status \in ACTIVE /\ item'[i].status = "queued"
                                   /\ item'[i].attempt >= item[i].attempt,
         \A w \in Workers :
            \/ /\ AsBefore(w)
               /\ worker[w].at = "writing" => item'[worker[w].item] = item[worker[w].item]
               /\ worker[w].at = "working" =>
                     \/ missed \/ item'[worker[w].item] = item[worker[w].item]
                     \/ Loose(w)' \/ ~Holds(worker[w].item, worker[w].token)
            \/ worker'[w].at \notin {"working", "writing"} /\ worker'[w].token = None
            \/ /\ worker[w].at = "working" /\ worker'[w].at = "writing"
               /\ worker'[w].token = worker[w].token /\ worker'[w].item = worker[w].item
               /\ Holds(worker[w].item, worker[w].token)
               /\ item'[worker[w].item] = item[worker[w].item]
  PROVE  CoreInv'
<1>1. /\ BatchOf \in [Items -> Batches]
      /\ \A i \in Items : item[i].attempt \in Nat /\ item[i].attempt >= item[i].attempt
  BY BatchAssumption DEF BatchInv, CoreInv, BatchTypeOK, ItemRec
<1>2. /\ \A w \in Workers : AtWork(w) => worker[w].item \in Items
      /\ \A w \in Workers : AtWork(w) <=> worker[w].token # None
      /\ \A w \in Workers : worker[w].at = "writing" => Holds(worker[w].item, worker[w].token)
  BY DEF BatchInv, CoreInv, LeasesOK
<1>3. /\ \A i \in Items : item[i].status = "none" <=> batch[BatchOf[i]].status \in {"none", "deleted"}
      /\ \A b \in Batches : batch[b].status \notin {"none", "deleted"} =>
            (batch[b].status \in TERMINAL <=> \A i \in ItemsOf(b) : item[i].status \in TERMINAL)
  BY DEF BatchInv, CoreInv, TablesOK, BatchOverWithItems
<1>4. \A b \in touched : Aggregate(b, item') \in ACTIVE \union TERMINAL
  <2>1. ASSUME NEW b \in touched, NEW i \in ItemsOf(b)
        PROVE  item'[i].status \in ACTIVE \union TERMINAL
    <3>1. i \in Items /\ BatchOf[i] = b
      BY DEF ItemsOf
    <3>2. item[i].status \in ACTIVE \union TERMINAL
      BY <1>3, <2>1, <3>1 DEF BatchInv, CoreInv, BatchTypeOK, ItemRec
    <3> QED BY <3>1, <3>2 DEF ACTIVE
  <2> QED BY <2>1, AggregateOf
<1>5. TablesOK'
  <2>1. \A i \in Items : /\ item'[i].status = "none" <=> item[i].status = "none"
                         /\ BatchOf[i] \in touched
                            \/ (item'[i].status \in TERMINAL <=> item[i].status \in TERMINAL)
    BY DEF ACTIVE, TERMINAL
  <2>2. \A b \in Batches \ touched : batch'[b].feature = batch[b].feature /\ batch'[b].status = batch[b].status
    OBVIOUS
  <2> QED BY <2>1, <2>2, TablesKept DEF BatchInv, CoreInv
<1>6. LeasesOK'
  <2>1. \A b \in Batches : batch'[b].status = "none" => batch[b].status = "none"
    BY <1>4, Phases
  <2>2. \A i \in Items :
           /\ item'[i].status \in ACTIVE => item[i].status \in ACTIVE /\ item'[i].attempt >= item[i].attempt
           /\ \/ item'[i].token = None
              \/ item'[i].token = item[i].token /\ item'[i].owner = item[i].owner
    BY <1>1, Phases
  <2>3. \A w \in Workers :
           \/ worker'[w].at \notin {"working", "writing"} /\ worker'[w].token = None
           \/ /\ AtWork(w) /\ worker'[w].at \in {"working", "writing"}
              /\ worker'[w].token = worker[w].token /\ worker'[w].item = worker[w].item
              /\ worker'[w].at = "writing" => /\ item'[worker[w].item].status = "running"
                                              /\ item'[worker[w].item].token = worker[w].token
    BY <1>2 DEF AtWork, Holds, Running, AsBefore
  <2> QED BY <2>1, <2>2, <2>3, LeasesKept DEF BatchInv, CoreInv
<1>7. HeartsOK'
  <2>1. ASSUME NEW w \in Workers, worker'[w].at = "working"
        PROVE  /\ worker[w].at = "working" /\ AsBefore(w)
               /\ \/ missed \/ item'[worker[w].item] = item[worker[w].item]
                  \/ item'[worker[w].item].token # worker[w].token /\ Loose(w)'
                  \/ ~Holds(worker[w].item, worker[w].token) /\ item'[worker[w].item].token # worker[w].token
    <3>1. AsBefore(w) /\ worker[w].at = "working"
      BY <2>1 DEF AsBefore
    <3>2. worker[w].item \in Items /\ worker[w].token # None
      BY <1>2, <3>1 DEF AtWork
    <3>3. \/ missed \/ item'[worker[w].item] = item[worker[w].item] \/ Loose(w)'
          \/ ~Holds(worker[w].item, worker[w].token)
      BY <2>1, <3>1
    <3> QED BY <3>1, <3>2, <3>3
  <2>2. \A i \in Items : item'[i].status \in ACTIVE => item[i].status \in ACTIVE
    BY Phases
  <2> QED BY <2>1, <2>2, HeartsKept DEF BatchInv, CoreInv, AsBefore
<1>8. AdmissionBounded'
  <2>1. \A i \in Items : Live(i)' => item'[i] = item[i]
    BY DEF Live, Running, TERMINAL
  <2>2. \A i \in Items : batch'[BatchOf[i]].feature = Feature(i)
    BY <1>1 DEF Feature
  <2>3. \A i \in Items : Live(i)' => Live(i) /\ item'[i].token = item[i].token
    BY <2>1 DEF Live, Running
  <2> QED BY <2>2, <2>3, AdmissionKept DEF BatchInv, CoreInv
<1> QED BY <1>5, <1>6, <1>7, <1>8 DEF BatchInv, CoreInv
-----------------------------------------------------------------------------
(* The batches. *)

LEMMA CreateOK ==
  ASSUME BatchInv, NEW b \in Batches, Create(b)
  PROVE  CoreInv'
<1>1. PICK f \in FeaturesOf[b] : batch' = [batch EXCEPT ![b] = [status |-> "queued", feature |-> f, cancel |-> FALSE]]
  BY DEF Create
<1> DEFINE new == [NoItem EXCEPT !.status = "queued"]
<1>2. /\ new \in ItemRec /\ new.status = "queued" /\ new.token = None
      /\ item' = [i \in Items |-> IF BatchOf[i] = b THEN new ELSE item[i]]
      /\ UNCHANGED <<worker, faults, missed, overwritten>> /\ batch[b].status = "none"
  BY NoItemRow DEF Create, ItemRec, ACTIVE
<1> HIDE DEF new
<1>3. /\ batch \in [Batches -> [status : {"none", "deleted"} \union ACTIVE \union TERMINAL,
                               feature : DOMAIN FeatureLimit \union {"none"}, cancel : BOOLEAN]]
      /\ item \in [Items -> ItemRec] /\ worker \in [Workers -> WorkerRec]
      /\ faults \in 0..MaxFaults /\ {missed, overwritten} \subseteq BOOLEAN
  BY DEF BatchInv, CoreInv, BatchTypeOK
<1>4. /\ f \in DOMAIN FeatureLimit /\ BatchOf \in [Items -> Batches] /\ \E i \in Items : BatchOf[i] = b
  BY BatchAssumption
<1>5. BatchTypeOK'
  BY <1>1, <1>2, <1>3, <1>4 DEF BatchTypeOK, ACTIVE
<1>6. /\ batch'[b].status = "queued" /\ batch'[b].feature = f /\ \A c \in Batches \ {b} : batch'[c] = batch[c]
      /\ \A i \in Items : item'[i] = IF BatchOf[i] = b THEN new ELSE item[i]
      /\ \A i \in Items : BatchOf[i] = b => item[i].status = "none"
  BY <1>1, <1>2, <1>3 DEF BatchInv, CoreInv, TablesOK
<1>7. TablesOK'
  <2>1. \A c \in Batches : batch'[c].status \notin {"none", "deleted"} => batch'[c].feature \in FeaturesOf[c]
    BY <1>6 DEF BatchInv, CoreInv, TablesOK
  <2>2. \A i \in Items : item'[i].status = "none" <=> batch'[BatchOf[i]].status \in {"none", "deleted"}
    BY <1>2, <1>4, <1>6 DEF BatchInv, CoreInv, TablesOK
  <2>3. ASSUME NEW c \in Batches, batch'[c].status \notin {"none", "deleted"}
        PROVE  batch'[c].status \in TERMINAL <=> \A i \in ItemsOf(c) : item'[i].status \in TERMINAL
    <3>1. CASE c = b
      BY <1>2, <1>4, <1>6, <3>1 DEF TERMINAL, ItemsOf
    <3>2. CASE c # b
      <4>1. \A i \in ItemsOf(c) : item'[i] = item[i]
        BY <1>6, <3>2 DEF ItemsOf
      <4> QED BY <1>6, <2>3, <3>2, <4>1 DEF BatchInv, CoreInv, TablesOK, BatchOverWithItems
    <3> QED BY <3>1, <3>2
  <2> QED BY <2>1, <2>2, <2>3 DEF TablesOK, BatchOverWithItems, ItemsOf
<1>8. LeasesOK'
  <2>1. \A w \in Workers : worker'[w] = worker[w]
    BY <1>2
  <2>2. \A w \in Workers : worker[w].at = "writing" =>
           item'[worker[w].item].status = "running" /\ item'[worker[w].item].token = worker[w].token
    BY <1>6 DEF BatchInv, CoreInv, LeasesOK, AtWork, Holds, Running
  <2>3. \A i \in Items :
            /\ item'[i].status \in ACTIVE =>
                  \/ item[i].status \in ACTIVE /\ item'[i].attempt >= item[i].attempt
                  \/ batch[BatchOf[i]].status = "none"
            /\ \/ item'[i].token = None
               \/ item'[i].token = item[i].token /\ item'[i].owner = item[i].owner
    <3>1. \A i \in Items : item[i].attempt \in Nat /\ item[i].attempt >= item[i].attempt
      BY <1>3 DEF ItemRec
    <3> QED BY <1>2, <1>6, <3>1
  <2>4. \A c \in Batches : batch'[c].status = "none" => batch[c].status = "none"
    BY <1>6
  <2>5. \A w \in Workers : AtWork(w) \/ (worker[w].at \notin {"working", "writing"} /\ worker[w].token = None)
    <3>1. \A w \in Workers : AtWork(w) <=> worker[w].token # None
      BY DEF BatchInv, CoreInv, LeasesOK
    <3> QED BY <3>1 DEF AtWork
  <2> QED BY <1>5, <2>1, <2>2, <2>3, <2>4, <2>5, LeasesKept DEF BatchInv, CoreInv, AtWork
<1>9. HeartsOK'
  <2>1. \A w \in Workers : worker[w].at = "working" =>
           \/ item'[worker[w].item] = item[worker[w].item]
           \/ ~Holds(worker[w].item, worker[w].token) /\ item'[worker[w].item].token # worker[w].token
    BY <1>2, <1>6 DEF BatchInv, CoreInv, LeasesOK, AtWork, Holds, Running
  <2> QED BY <1>2, <1>6, <2>1, HeartsKept DEF BatchInv, CoreInv
<1>10. AdmissionBounded'
  <2>1. \A i \in Items : Live(i)' => /\ Live(i) /\ item'[i].token = item[i].token
                                     /\ Feature(i) = batch'[BatchOf[i]].feature
    BY <1>2, <1>4, <1>6 DEF Live, Running, Feature
  <2> QED BY <1>2, <2>1, AdmissionKept DEF BatchInv, CoreInv
<1> QED BY <1>5, <1>7, <1>8, <1>9, <1>10 DEF BatchInv, CoreInv

LEMMA Typed ==
  ASSUME BatchInv
  PROVE  /\ batch \in [Batches -> [status : {"none", "deleted"} \union ACTIVE \union TERMINAL,
                                   feature : DOMAIN FeatureLimit \union {"none"}, cancel : BOOLEAN]]
         /\ item \in [Items -> ItemRec] /\ worker \in [Workers -> WorkerRec]
         /\ faults \in 0..MaxFaults /\ {missed, overwritten} \subseteq BOOLEAN
         /\ BatchOf \in [Items -> Batches] /\ \A b \in Batches : ItemsOf(b) = {i \in Items : BatchOf[i] = b}
         /\ \A w \in Workers : /\ AtWork(w) => worker[w].item \in Items
                               /\ AtWork(w) <=> worker[w].token # None
         /\ \A i \in Items : item[i].status = "none" <=> batch[BatchOf[i]].status \in {"none", "deleted"}
         /\ \A b \in Batches : batch[b].status \notin {"none", "deleted"} =>
               (batch[b].status \in TERMINAL <=> \A i \in ItemsOf(b) : item[i].status \in TERMINAL)
<1>1. BatchTypeOK /\ TablesOK /\ LeasesOK
  BY DEF BatchInv, CoreInv
<1>2. BatchOf \in [Items -> Batches] /\ \A b \in Batches : ItemsOf(b) = {i \in Items : BatchOf[i] = b}
  BY BatchAssumption DEF ItemsOf
<1> QED BY <1>1, <1>2 DEF BatchTypeOK, TablesOK, LeasesOK, BatchOverWithItems

LEMMA CancelOK ==
  ASSUME BatchInv, NEW b \in Batches, Cancel(b)
  PROVE  CoreInv'
<1>1. /\ batch[b].status \in ACTIVE /\ UNCHANGED <<worker, faults, missed, overwritten>>
      /\ item' = [i \in Items |-> IF i \in CancelLeft(b) THEN Ended(item[i], "cancelled") ELSE item[i]]
      /\ batch' = [batch EXCEPT ![b] = [batch[b] EXCEPT !.status = Aggregate(b, item'), !.cancel = TRUE]]
  BY Typed DEF Cancel
<1>2. \A i \in CancelLeft(b) : i \in Items /\ BatchOf[i] = b /\ item[i].status = "queued"
  BY DEF CancelLeft, ItemsOf
<1>3. \A i \in Items : /\ Ended(item[i], "cancelled") \in ItemRec
                       /\ Ended(item[i], "cancelled").status = "cancelled"
                       /\ Ended(item[i], "cancelled").token = None
  <2>1. \A rec \in ItemRec : /\ Ended(rec, "cancelled") \in ItemRec /\ Ended(rec, "cancelled").token = None
                             /\ Ended(rec, "cancelled").status = "cancelled"
    BY EndedRow DEF TERMINAL
  <2> QED BY <2>1, Typed
<1>4. item' \in [Items -> ItemRec] /\ \A i \in Items : item'[i].status \in ACTIVE \union TERMINAL \union {"none"}
  BY <1>1, <1>3, Typed DEF ItemRec
<1>5. Aggregate(b, item') \in ACTIVE \union TERMINAL
  <2>1. \A i \in ItemsOf(b) : item[i].status \in ACTIVE \union TERMINAL
    BY <1>1, Typed, Phases DEF ItemRec
  <2>2. \A i \in ItemsOf(b) : item'[i].status \in ACTIVE \union TERMINAL
    BY <1>1, <1>3, <2>1, Typed DEF TERMINAL
  <2> QED BY <2>2, AggregateOf
<1>6. BatchTypeOK'
  <2>1. [batch[b] EXCEPT !.status = Aggregate(b, item'), !.cancel = TRUE]
           \in [status : {"none", "deleted"} \union ACTIVE \union TERMINAL,
                feature : DOMAIN FeatureLimit \union {"none"}, cancel : BOOLEAN]
    <3> DEFINE states == {"none", "deleted"} \union ACTIVE \union TERMINAL
               features == DOMAIN FeatureLimit \union {"none"}
    <3>1. \A r \in [status : states, feature : features, cancel : BOOLEAN] : \A s \in states :
             [r EXCEPT !.status = s, !.cancel = TRUE]
                \in [status : states, feature : features, cancel : BOOLEAN]
      <4> HIDE DEF states, features
      <4> QED OBVIOUS
    <3>2. batch[b] \in [status : states, feature : features, cancel : BOOLEAN]
      BY Typed
    <3>3. Aggregate(b, item') \in states
      BY <1>5
    <3> HIDE DEF states, features
    <3>4. [batch[b] EXCEPT !.status = Aggregate(b, item'), !.cancel = TRUE]
             \in [status : states, feature : features, cancel : BOOLEAN]
      BY <3>1, <3>2, <3>3
    <3> QED BY <3>4 DEF states, features
  <2>2. batch' \in [Batches -> [status : {"none", "deleted"} \union ACTIVE \union TERMINAL,
                               feature : DOMAIN FeatureLimit \union {"none"}, cancel : BOOLEAN]]
    BY <1>1, <2>1, Typed
  <2> QED BY <1>1, <1>4, <2>2, Typed DEF BatchTypeOK
<1>7. /\ batch'[b].status = Aggregate(b, item') /\ batch'[b].feature = batch[b].feature
      /\ \A c \in Batches \ {b} : batch'[c] = batch[c]
  BY <1>1, Typed
<1>8. \A i \in Items : \/ item'[i] = item[i]
                       \/ /\ BatchOf[i] = b /\ item[i].status \in ACTIVE /\ item'[i].token = None
                          /\ item'[i].status \in TERMINAL /\ item[i].status = "queued"
  BY <1>1, <1>2, <1>3 DEF ACTIVE, TERMINAL
<1>9. \A w \in Workers :
         /\ AsBefore(w)
         /\ worker[w].at = "writing" => item'[worker[w].item] = item[worker[w].item]
         /\ worker[w].at = "working" => \/ item'[worker[w].item] = item[worker[w].item]
                                        \/ ~Holds(worker[w].item, worker[w].token)
  <2>1. \A w \in Workers : worker[w].at = "writing" => Holds(worker[w].item, worker[w].token)
    BY DEF BatchInv, CoreInv, LeasesOK
  <2>2. \A w \in Workers : AtWork(w) /\ Holds(worker[w].item, worker[w].token) =>
           item'[worker[w].item] = item[worker[w].item]
    BY <1>8, Typed DEF Holds, Running
  <2> QED BY <1>1, <2>1, <2>2 DEF AtWork, AsBefore
<1>10. batch[b].status \notin {"none", "deleted"}
  BY <1>1, Phases
<1> DEFINE touched == {b}
<1>11. /\ touched \in SUBSET Batches
       /\ \A c \in touched : /\ batch[c].status \notin {"none", "deleted"}
                             /\ batch'[c].feature = batch[c].feature
                             /\ batch'[c].status = Aggregate(c, item')
       /\ \A c \in Batches \ touched : batch'[c] = batch[c]
  BY <1>7, <1>10
<1>12. \A i \in Items : \/ item'[i] = item[i]
                        \/ /\ BatchOf[i] \in touched /\ item[i].status # "none" /\ item'[i].token = None
                           /\ \/ item'[i].status \in TERMINAL
                              \/ /\ item[i].status \in ACTIVE /\ item'[i].status = "queued"
                                 /\ item'[i].attempt >= item[i].attempt
  BY <1>8 DEF TERMINAL
<1> HIDE DEF touched
<1> QED BY <1>1, <1>6, <1>9, <1>11, <1>12, ItemsEnd

LEMMA Refreshed ==
  ASSUME BatchInv, NEW touched \in SUBSET Batches, Refresh(touched),
         \A b \in touched : batch[b].status \notin {"none", "deleted"},
         \A i \in Items : \/ item'[i] = item[i]
                          \/ BatchOf[i] \in touched /\ item'[i].status \in ACTIVE \union TERMINAL
  PROVE  /\ batch' \in [Batches -> [status : {"none", "deleted"} \union ACTIVE \union TERMINAL,
                                    feature : DOMAIN FeatureLimit \union {"none"}, cancel : BOOLEAN]]
         /\ \A b \in touched : /\ batch'[b].feature = batch[b].feature
                               /\ batch'[b].status = Aggregate(b, item')
                               /\ batch'[b].status \in ACTIVE \union TERMINAL
         /\ \A b \in Batches \ touched : batch'[b] = batch[b]
<1>1. ASSUME NEW b \in touched
      PROVE  Aggregate(b, item') \in ACTIVE \union TERMINAL
  <2>1. \A i \in ItemsOf(b) : i \in Items /\ item[i].status \in ACTIVE \union TERMINAL
    BY Typed DEF ItemRec
  <2>2. \A i \in ItemsOf(b) : item'[i].status \in ACTIVE \union TERMINAL
    BY <2>1
  <2> QED BY <2>2, AggregateOf
<1>2. batch' = [b \in Batches |-> IF b \in touched THEN [batch[b] EXCEPT !.status = Aggregate(b, item')]
                                  ELSE batch[b]]
  BY DEF Refresh
<1>3. ASSUME NEW b \in touched
      PROVE  /\ batch'[b] \in [status : {"none", "deleted"} \union ACTIVE \union TERMINAL,
                               feature : DOMAIN FeatureLimit \union {"none"}, cancel : BOOLEAN]
             /\ batch'[b].feature = batch[b].feature /\ batch'[b].status = Aggregate(b, item')
  <2>1. batch'[b] = [batch[b] EXCEPT !.status = Aggregate(b, item')]
    BY <1>2
  <2>2. batch[b] \in [status : {"none", "deleted"} \union ACTIVE \union TERMINAL,
                      feature : DOMAIN FeatureLimit \union {"none"}, cancel : BOOLEAN]
    BY Typed
  <2> QED BY <1>1, <2>1, <2>2
<1>4. \A b \in Batches \ touched : batch'[b] = batch[b]
  BY <1>2
<1> QED BY <1>1, <1>2, <1>3, <1>4, Typed

LEMMA DeleteOK ==
  ASSUME BatchInv, NEW b \in Batches, Delete(b)
  PROVE  CoreInv'
<1>1. /\ batch' = [batch EXCEPT ![b] = [status |-> "deleted", feature |-> "none", cancel |-> FALSE]]
      /\ item' = [i \in Items |-> IF BatchOf[i] = b THEN NoItem ELSE item[i]]
      /\ UNCHANGED <<worker, faults, missed, overwritten>> /\ batch[b].status \in TERMINAL
  BY DEF Delete
<1>2. BatchTypeOK'
  BY <1>1, Typed, NoItemRow DEF BatchTypeOK
<1>3. /\ batch'[b].status = "deleted" /\ \A c \in Batches \ {b} : batch'[c] = batch[c]
      /\ \A i \in Items : item'[i] = IF BatchOf[i] = b THEN NoItem ELSE item[i]
  BY <1>1, Typed
<1>4. \A i \in Items : BatchOf[i] = b => item[i].status \in TERMINAL
  BY <1>1, Typed, Phases
<1>5. TablesOK'
  <2>1. \A c \in Batches : batch'[c].status \notin {"none", "deleted"} => batch'[c].feature \in FeaturesOf[c]
    BY <1>3 DEF BatchInv, CoreInv, TablesOK
  <2>2. \A i \in Items : item'[i].status = "none" <=> batch'[BatchOf[i]].status \in {"none", "deleted"}
    BY <1>3, NoItemRow, Typed
  <2>3. ASSUME NEW c \in Batches, batch'[c].status \notin {"none", "deleted"}
        PROVE  batch'[c].status \in TERMINAL <=> \A i \in ItemsOf(c) : item'[i].status \in TERMINAL
    <3>1. c # b /\ batch'[c] = batch[c]
      BY <1>3, <2>3
    <3>2. \A i \in ItemsOf(c) : item'[i] = item[i]
      BY <1>3, <3>1, Typed
    <3> QED BY <2>3, <3>1, <3>2, Typed
  <2> QED BY <2>1, <2>2, <2>3 DEF TablesOK, BatchOverWithItems, ItemsOf
<1>6. \A w \in Workers : AtWork(w) =>
         \/ item'[worker[w].item] = item[worker[w].item]
         \/ ~Holds(worker[w].item, worker[w].token) /\ item'[worker[w].item].token # worker[w].token
  BY <1>3, <1>4, NoItemRow, Typed DEF Holds, Running, TERMINAL
<1>7. LeasesOK'
  <2>1. \A c \in Batches : batch'[c].status = "none" => batch[c].status = "none"
    BY <1>3
  <2>2. \A i \in Items :
           /\ item'[i].status \in ACTIVE => item[i].status \in ACTIVE /\ item'[i].attempt >= item[i].attempt
           /\ \/ item'[i].token = None
              \/ item'[i].token = item[i].token /\ item'[i].owner = item[i].owner
    <3>1. \A i \in Items : item[i].attempt \in Nat /\ item[i].attempt >= item[i].attempt
      BY Typed DEF ItemRec
    <3> QED BY <1>3, <3>1, NoItemRow DEF ACTIVE
  <2>3. \A w \in Workers : worker[w].at = "writing" => Holds(worker[w].item, worker[w].token)
    BY DEF BatchInv, CoreInv, LeasesOK
  <2>4. \A w \in Workers :
           \/ worker'[w].at \notin {"working", "writing"} /\ worker'[w].token = None
           \/ /\ AtWork(w) /\ worker'[w].at \in {"working", "writing"}
              /\ worker'[w].token = worker[w].token /\ worker'[w].item = worker[w].item
              /\ worker'[w].at = "writing" => /\ item'[worker[w].item].status = "running"
                                              /\ item'[worker[w].item].token = worker[w].token
    BY <1>1, <1>6, <2>3, Typed DEF AtWork, Holds, Running
  <2> QED BY <1>2, <2>1, <2>2, <2>4, LeasesKept DEF BatchInv, CoreInv
<1>8. HeartsOK'
  <2>1. \A i \in Items : item'[i].status \in ACTIVE => item[i].status \in ACTIVE
    BY <1>3, NoItemRow DEF ACTIVE
  <2> QED BY <1>1, <1>6, <2>1, HeartsKept DEF BatchInv, CoreInv, AtWork
<1>9. AdmissionBounded'
  <2>1. \A i \in Items : Live(i)' => /\ Live(i) /\ item'[i].token = item[i].token
                                     /\ Feature(i) = batch'[BatchOf[i]].feature
    BY <1>3, NoItemRow, Typed DEF Live, Running, Feature
  <2> QED BY <1>1, <2>1, AdmissionKept DEF BatchInv, CoreInv
<1> QED BY <1>2, <1>5, <1>7, <1>8, <1>9 DEF BatchInv, CoreInv
-----------------------------------------------------------------------------
(* The workers. *)

(* The workers go on and leave the tables alone. *)
LEMMA WorkersAsBefore ==
  ASSUME BatchInv, worker' \in [Workers -> WorkerRec], \A v \in Workers : AsBefore(v),
         UNCHANGED <<batch, item, faults, missed>>, overwritten' \in BOOLEAN, overwritten => overwritten'
  PROVE  CoreInv'
<1>1. BatchTypeOK'
  BY Typed DEF BatchTypeOK
<1> DEFINE touched == {}
<1>2. touched \in SUBSET Batches /\ \A b \in touched : FALSE
  OBVIOUS
<1> HIDE DEF touched
<1> QED BY <1>1, <1>2, ItemsEnd

(* A worker that leaves the tables alone and rests, or begins to write.     *)
LEMMA WorkerRests ==
  ASSUME BatchInv, NEW w \in Workers, NEW rec \in WorkerRec, worker' = [worker EXCEPT ![w] = rec],
         UNCHANGED <<batch, item, missed, overwritten>>, faults' \in 0..MaxFaults,
         \/ rec.at \notin {"working", "writing"} /\ rec.token = None
         \/ /\ worker[w].at = "working" /\ rec.at = "writing" /\ rec.token = worker[w].token
            /\ rec.item = worker[w].item /\ Holds(worker[w].item, worker[w].token)
  PROVE  CoreInv'
<1>1. BatchTypeOK'
  BY Typed DEF BatchTypeOK
<1>2. worker'[w] = rec /\ \A v \in Workers \ {w} : worker'[v] = worker[v]
  BY Typed
<1>3. \A v \in Workers :
         \/ AsBefore(v)
         \/ worker'[v].at \notin {"working", "writing"} /\ worker'[v].token = None
         \/ /\ worker[v].at = "working" /\ worker'[v].at = "writing"
            /\ worker'[v].token = worker[v].token /\ worker'[v].item = worker[v].item
            /\ Holds(worker[v].item, worker[v].token)
  BY <1>2 DEF AsBefore
<1> DEFINE touched == {}
<1>4. touched \in SUBSET Batches /\ \A b \in touched : FALSE
  OBVIOUS
<1> HIDE DEF touched
<1> QED BY <1>1, <1>3, <1>4, ItemsEnd

LEMMA FinishReadOK ==
  ASSUME BatchInv, NEW w \in Workers, FinishRead(w)
  PROVE  CoreInv'
<1> DEFINE rec == IF StillLeased(w)
                  THEN [worker[w] EXCEPT !.at = "writing", !.beat = -1,
                                         !.cancelSeen = batch[BatchOf[worker[w].item]].cancel]
                  ELSE Resting
<1>1. /\ worker' = [worker EXCEPT ![w] = rec] /\ UNCHANGED <<batch, item, faults, missed, overwritten>>
      /\ worker[w].at = "working"
  BY Typed DEF FinishRead
<1>2. CASE StillLeased(w)
  <2>1. batch[BatchOf[worker[w].item]].cancel \in BOOLEAN /\ -1 \in -1..Renew
    BY <1>1, BatchAssumption, Typed DEF AtWork
  <2>2. rec \in WorkerRec /\ rec.at = "writing" /\ rec.token = worker[w].token /\ rec.item = worker[w].item
    <3> DEFINE cancel == batch[BatchOf[worker[w].item]].cancel
    <3>1. rec = [worker[w] EXCEPT !.at = "writing", !.beat = -1, !.cancelSeen = cancel]
      BY <1>2
    <3>2. worker[w] \in WorkerRec /\ cancel \in BOOLEAN /\ -1 \in -1..Renew
      BY <2>1, Typed
    <3> HIDE DEF rec, cancel
    <3> QED BY <3>1, <3>2 DEF WorkerRec
  <2>3. Holds(worker[w].item, worker[w].token)
    BY <1>2 DEF StillLeased
  <2> HIDE DEF rec
  <2> QED BY <1>1, <2>2, <2>3, WorkerRests, Typed
<1>3. CASE ~StillLeased(w)
  <2>1. rec = Resting
    BY <1>3
  <2> HIDE DEF rec
  <2> QED BY <1>1, <2>1, RestingWorker, WorkerRests, Typed
<1> QED BY <1>2, <1>3

LEMMA WorkerStopsOK ==
  ASSUME BatchInv, NEW w \in Workers, FinishFails(w) \/ Stop(w) \/ Crash(w)
  PROVE  CoreInv'
<1>1. \E rec \in {Resting, [Resting EXCEPT !.at = "stopping"], [Resting EXCEPT !.at = "down"]} :
         worker' = [worker EXCEPT ![w] = rec]
  BY DEF FinishFails, Stop, Crash
<1>2. UNCHANGED <<batch, item, missed, overwritten>> /\ faults' \in {faults, faults + 1}
  BY DEF FinishFails, Stop, Crash
<1>3. faults' \in 0..MaxFaults
  BY Typed, BatchAssumption DEF FinishFails, Stop, Crash
<1>4. \A rec \in {Resting, [Resting EXCEPT !.at = "stopping"], [Resting EXCEPT !.at = "down"]} :
         rec \in WorkerRec /\ rec.at \notin {"working", "writing"} /\ rec.token = None
  BY RestingWorker
<1>5. PICK rec \in WorkerRec : /\ worker' = [worker EXCEPT ![w] = rec]
                               /\ rec.at \notin {"working", "writing"} /\ rec.token = None
  BY <1>1, <1>4
<1> QED BY <1>2, <1>3, <1>5, WorkerRests

(* One item ends or goes back to the queue, and its batch is refreshed: the *)
(* workers that held it stop, or may find it overwritten.                   *)
LEMMA OneItemEnds ==
  ASSUME BatchInv, NEW i \in Items, NEW rec \in ItemRec, item[i].status # "none",
         item' = [item EXCEPT ![i] = rec], Refresh({BatchOf[i]}), rec.token = None,
         \/ rec.status \in TERMINAL
         \/ item[i].status \in ACTIVE /\ rec.status = "queued" /\ rec.attempt = item[i].attempt,
         worker' \in [Workers -> WorkerRec],
         \A v \in Workers :
            \/ /\ AsBefore(v)
               /\ AtWork(v) /\ worker[v].item = i /\ Holds(i, worker[v].token) =>
                     worker[v].at = "working" /\ Loose(v)'
            \/ worker'[v].at \notin {"working", "writing"} /\ worker'[v].token = None,
         UNCHANGED <<faults, missed>>, overwritten' \in BOOLEAN, overwritten => overwritten'
  PROVE  CoreInv'
<1> DEFINE touched == {BatchOf[i]}
<1>1. /\ item' \in [Items -> ItemRec] /\ item'[i] = rec /\ \A k \in Items \ {i} : item'[k] = item[k]
      /\ item[i].attempt \in Nat
  BY Typed DEF ItemRec
<1>2. touched \in SUBSET Batches /\ \A b \in touched : batch[b].status \notin {"none", "deleted"}
  BY <1>1, Typed
<1>3. \A k \in Items : \/ item'[k] = item[k]
                       \/ /\ BatchOf[k] \in touched /\ item[k].status # "none" /\ item'[k].token = None
                          /\ \/ item'[k].status \in TERMINAL
                             \/ /\ item[k].status \in ACTIVE /\ item'[k].status = "queued"
                                /\ item'[k].attempt >= item[k].attempt
  BY <1>1
<1>4. \A k \in Items : item'[k] = item[k] \/ (BatchOf[k] \in touched /\ item'[k].status \in ACTIVE \union TERMINAL)
  BY <1>3 DEF ACTIVE
<1> HIDE DEF touched
<1>5. /\ batch' \in [Batches -> [status : {"none", "deleted"} \union ACTIVE \union TERMINAL,
                                 feature : DOMAIN FeatureLimit \union {"none"}, cancel : BOOLEAN]]
      /\ \A b \in touched : batch'[b].feature = batch[b].feature /\ batch'[b].status = Aggregate(b, item')
      /\ \A b \in Batches \ touched : batch'[b] = batch[b]
  BY <1>2, <1>4, Refreshed DEF touched
<1>6. BatchTypeOK'
  BY <1>1, <1>5, Typed DEF BatchTypeOK
<1>7. \A v \in Workers : worker[v].at = "writing" => Holds(worker[v].item, worker[v].token)
  BY DEF BatchInv, CoreInv, LeasesOK
<1>8. \A v \in Workers :
          \/ /\ AsBefore(v)
             /\ worker[v].at = "writing" => item'[worker[v].item] = item[worker[v].item]
             /\ worker[v].at = "working" =>
                   \/ missed \/ item'[worker[v].item] = item[worker[v].item]
                   \/ Loose(v)' \/ ~Holds(worker[v].item, worker[v].token)
          \/ worker'[v].at \notin {"working", "writing"} /\ worker'[v].token = None
  BY <1>1, <1>7, Typed DEF AtWork
<1> QED BY <1>2, <1>3, <1>5, <1>6, <1>8, ItemsEnd

(* The item that a completion ends may be another worker's by now: not one  *)
(* that writes it, nor one that runs it alone.                              *)
LEMMA WriteExternalOK ==
  ASSUME BatchInv, NEW w \in Workers, WriteExternal(w)
  PROVE  CoreInv'
<1>1. PICK i \in worker[w].closing :
         /\ worker' = [worker EXCEPT ![w].closing = worker[w].closing \ {i}] /\ ~Locked(i)
         /\ \/ /\ item[i].status = "none" /\ UNCHANGED <<batch, item>>
            \/ /\ item[i].status # "none" /\ Refresh({BatchOf[i]})
               /\ \E r \in Results : item' = [item EXCEPT ![i] = Ended(item[i], r)]
         /\ overwritten' = (overwritten \/ (Running(i) /\ ~Holds(i, worker[w].token)))
         /\ UNCHANGED <<faults, missed>>
  BY DEF WriteExternal, Ended, Unleased
<1>2. /\ i \in Items /\ AtWork(w) /\ BatchOf[i] = BatchOf[worker[w].item] /\ worker[w].runs = "batch"
      /\ worker[w].at = "working" /\ Coordinates(w)
  BY Typed DEF BatchInv, CoordinatesOK, Closes, AtWork, WorkerRec
<1>3. /\ worker' \in [Workers -> WorkerRec] /\ \A v \in Workers : AsBefore(v)
      /\ worker'[w].runs = "batch"
  BY <1>1, <1>2, Typed DEF AsBefore, WorkerRec
<1>4. overwritten' \in BOOLEAN /\ (overwritten => overwritten')
  BY <1>1, Typed DEF Running
<1>5. CASE item[i].status # "none"
  <2>1. PICK r \in Results : item' = [item EXCEPT ![i] = Ended(item[i], r)]
    BY <1>1, <1>5
  <2>2. r \in TERMINAL
    BY BatchAssumption DEF TERMINAL
  <2>3. Ended(item[i], r) \in ItemRec /\ Ended(item[i], r).status = r /\ Ended(item[i], r).token = None
    BY <1>2, <2>2, EndedRow, Typed
  <2>4. ASSUME NEW v \in Workers, AtWork(v), worker[v].item = i, Holds(i, worker[v].token)
        PROVE  worker[v].at = "working" /\ Loose(v)'
    <3>1. worker[v].at = "working"
      BY <1>1, <2>4 DEF AtWork, Locked
    <3>2. CASE v = w
      BY <1>3, <3>1, <3>2 DEF Loose
    <3>3. CASE v # w
      <4>1. worker[w].token # worker[v].token
        BY <1>2, <2>4, <3>3 DEF BatchInv, CoreInv, LeasesOK
      <4>2. overwritten'
        BY <1>1, <2>4, <4>1 DEF Holds
      <4>3. batch[BatchOf[i]].status # "deleted"
        BY <1>2, <1>5, Typed
      <4>4. worker[v].runs # "item"
        BY <1>2, <2>4, <4>3 DEF BatchInv, CoordinatesOK, Coordinates, Feature
      <4>5. worker'[v].runs \in {"leader", "batch"}
        BY <1>3, <4>4, Typed DEF WorkerRec, AsBefore
      <4>6. worker'[v].item = i /\ item'[i].status \notin ACTIVE
        BY <1>2, <1>3, <2>1, <2>2, <2>3, <2>4, Typed, Phases DEF AsBefore
      <4> QED BY <3>1, <4>2, <4>5, <4>6 DEF Loose
    <3> QED BY <3>2, <3>3
  <2> QED BY <1>1, <1>2, <1>3, <1>4, <1>5, <2>1, <2>2, <2>3, <2>4, OneItemEnds
<1>6. CASE item[i].status = "none"
  BY <1>1, <1>3, <1>4, <1>6, WorkersAsBefore
<1> QED BY <1>5, <1>6

LEMMA ReadExternalOK ==
  ASSUME BatchInv, NEW w \in Workers, ReadExternal(w)
  PROVE  CoreInv'
<1>1. PICK i \in Mine(w) : /\ worker' = [worker EXCEPT ![w].closing = worker[w].closing \union {i}]
                           /\ UNCHANGED <<batch, item, faults, missed, overwritten>>
  BY DEF ReadExternal
<1>2. i \in Items
  BY DEF Mine, ItemsOf
<1>3. worker' \in [Workers -> WorkerRec] /\ \A v \in Workers : AsBefore(v)
  BY <1>1, <1>2, Typed DEF AsBefore, WorkerRec
<1> QED BY <1>1, <1>3, Typed, WorkersAsBefore

LEMMA FinishWriteOK ==
  ASSUME BatchInv, NEW w \in Workers, FinishWrite(w)
  PROVE  CoreInv'
<1> DEFINE i == worker[w].item
           back == [Unleased(item[i]) EXCEPT !.status = "queued", !.wait = Backoff]
<1>1. /\ worker[w].at = "writing" /\ AtWork(w) /\ i \in Items /\ Holds(i, worker[w].token)
      /\ Refresh({BatchOf[i]}) /\ worker' = [worker EXCEPT ![w] = Resting] /\ UNCHANGED <<faults, missed, overwritten>>
      /\ item[i] \in ItemRec
  BY Typed DEF FinishWrite, BatchInv, CoreInv, LeasesOK, AtWork
<1>2. /\ back \in ItemRec /\ back.token = None /\ back.status = "queued" /\ back.attempt = item[i].attempt
  <2>1. Unleased(item[i]) \in ItemRec /\ Unleased(item[i]).token = None
        /\ Unleased(item[i]).attempt = item[i].attempt
    BY <1>1, UnleasedRow
  <2>2. Backoff \in 0..Backoff /\ "queued" \in ACTIVE
    BY BatchAssumption DEF ACTIVE
  <2> QED BY <2>1, <2>2 DEF ItemRec
<1>3. \/ \E r \in TERMINAL : item' = [item EXCEPT ![i] = Ended(item[i], r)]
      \/ item' = [item EXCEPT ![i] = back]
  <2>1. Outcomes(w) \subseteq TERMINAL
    BY BatchAssumption DEF Outcomes, TERMINAL
  <2> QED BY <1>1, <2>1 DEF FinishWrite, Ended, Unleased
<1> HIDE DEF back, i
<1>a. /\ worker' \in [Workers -> WorkerRec]
      /\ \A v \in Workers :
            \/ /\ AsBefore(v)
               /\ AtWork(v) /\ worker[v].item = i /\ Holds(i, worker[v].token) =>
                     worker[v].at = "working" /\ Loose(v)'
            \/ worker'[v].at \notin {"working", "writing"} /\ worker'[v].token = None
  <2>1. \A u, v \in Workers : AtWork(v) /\ worker[u].token = worker[v].token => u = v
    BY DEF BatchInv, CoreInv, LeasesOK
  <2>2. \A v \in Workers \ {w} : worker'[v] = worker[v] /\ (AtWork(v) => ~Holds(i, worker[v].token))
    BY <1>1, <2>1, Typed DEF Holds
  <2> QED BY <1>1, <2>2, RestingWorker, Typed DEF AsBefore
<1>b. item[i].status = "running" /\ item[i].status \in ACTIVE /\ item[i].status # "none"
      /\ overwritten' \in BOOLEAN
  BY <1>1, Typed DEF Holds, Running, ACTIVE
<1>4. CASE item' = [item EXCEPT ![i] = back]
  BY <1>1, <1>2, <1>4, <1>a, <1>b, OneItemEnds
<1>5. CASE \E r \in TERMINAL : item' = [item EXCEPT ![i] = Ended(item[i], r)]
  <2>1. PICK r \in TERMINAL : item' = [item EXCEPT ![i] = Ended(item[i], r)]
    BY <1>5
  <2> DEFINE ended == Ended(item[i], r)
  <2>2. ended \in ItemRec /\ ended.status \in TERMINAL /\ ended.token = None
    BY <1>1, EndedRow
  <2>3. item' = [item EXCEPT ![i] = ended]
    BY <2>1
  <2> HIDE DEF ended
  <2>4. /\ item[i].status # "none" /\ Refresh({BatchOf[i]}) /\ UNCHANGED <<faults, missed>>
        /\ i \in Items /\ overwritten' \in BOOLEAN /\ (overwritten => overwritten')
    BY <1>1, <1>b
  <2> QED BY <1>a, <2>2, <2>3, <2>4, OneItemEnds
<1> QED BY <1>3, <1>4, <1>5

(* A recovery puts back, or ends, what is running under no live worker's    *)
(* lease.                                                                   *)
LEMMA RecoverOK ==
  ASSUME BatchInv, NEW w \in Workers, ~AtWork(w), NEW S \in SUBSET Items, \A i \in S : Running(i),
         Recover(S), NEW rec \in WorkerRec, worker' = [worker EXCEPT ![w] = rec],
         rec.at \notin {"working", "writing"}, rec.token = None, UNCHANGED <<faults, missed, overwritten>>,
         \A v \in Workers : worker[v].at = "working" /\ Holds(worker[v].item, worker[v].token) =>
            missed \/ worker[v].item \notin S
  PROVE  CoreInv'
<1> DEFINE touched == {BatchOf[i] : i \in S} \union
                      {b \in Batches : batch[b].status \in ACTIVE /\ batch[b].cancel}
           queued == S \union {i \in Items : item[i].status = "queued"}
           back(i) == [Unleased(item[i]) EXCEPT !.status = "queued"]
           ends(i) == i \in queued /\ BatchOf[i] \in touched /\ batch[BatchOf[i]].cancel
<1>1. /\ \A i \in S : ~Locked(i) /\ item[i].status = "running"
      /\ item' = [i \in Items |-> IF ends(i) THEN Ended(item[i], "cancelled")
                                  ELSE IF i \in S THEN back(i) ELSE item[i]]
      /\ Refresh(touched)
  BY DEF Recover, Running
<1>2. touched \in SUBSET Batches /\ \A b \in touched : batch[b].status \notin {"none", "deleted"}
  <2>1. \A i \in S : BatchOf[i] \in Batches /\ batch[BatchOf[i]].status \notin {"none", "deleted"}
    BY <1>1, Typed
  <2> QED BY <2>1, Phases
<1>3. ASSUME NEW i \in Items
      PROVE  /\ Ended(item[i], "cancelled") \in ItemRec /\ Ended(item[i], "cancelled").status = "cancelled"
             /\ Ended(item[i], "cancelled").token = None
             /\ back(i) \in ItemRec /\ back(i).status = "queued" /\ back(i).token = None
             /\ back(i).attempt = item[i].attempt /\ item[i].attempt \in Nat
  <2>1. item[i] \in ItemRec /\ "cancelled" \in TERMINAL /\ "queued" \in ACTIVE
    BY Typed DEF TERMINAL, ACTIVE
  <2>2. /\ Unleased(item[i]) \in ItemRec /\ Unleased(item[i]).token = None
        /\ Unleased(item[i]).attempt = item[i].attempt
    BY <2>1, UnleasedRow
  <2>3. back(i) \in ItemRec /\ back(i).status = "queued" /\ back(i).token = None /\ back(i).attempt = item[i].attempt
    BY <2>1, <2>2 DEF ItemRec
  <2> QED BY <2>1, <2>3, EndedRow DEF ItemRec
<1>4. \A i \in Items : ends(i) \/ i \in S =>
         BatchOf[i] \in touched /\ item[i].status \in {"queued", "running"} /\ (i \in S \/ item[i].status = "queued")
  BY <1>1
<1> HIDE DEF touched, queued, back, ends
<1>5. item' \in [Items -> ItemRec]
  BY <1>1, <1>3, Typed
<1>6. \A i \in Items : \/ item'[i] = item[i]
                       \/ /\ BatchOf[i] \in touched /\ item[i].status \in {"queued", "running"}
                          /\ item'[i].token = None
                          /\ i \in S \/ item[i].status = "queued"
                          /\ \/ item'[i].status = "cancelled"
                             \/ item'[i].status = "queued" /\ item'[i].attempt = item[i].attempt
  BY <1>1, <1>3, <1>4
<1>7. \A i \in Items : \/ item'[i] = item[i]
                       \/ /\ BatchOf[i] \in touched /\ item[i].status # "none" /\ item'[i].token = None
                          /\ \/ item'[i].status \in TERMINAL
                             \/ /\ item[i].status \in ACTIVE /\ item'[i].status = "queued"
                                /\ item'[i].attempt >= item[i].attempt
  BY <1>3, <1>6 DEF ACTIVE, TERMINAL
<1>8. \A i \in Items : item'[i] = item[i] \/ (BatchOf[i] \in touched /\ item'[i].status \in ACTIVE \union TERMINAL)
  BY <1>7 DEF ACTIVE
<1>9. /\ batch' \in [Batches -> [status : {"none", "deleted"} \union ACTIVE \union TERMINAL,
                                 feature : DOMAIN FeatureLimit \union {"none"}, cancel : BOOLEAN]]
      /\ \A b \in touched : batch'[b].feature = batch[b].feature /\ batch'[b].status = Aggregate(b, item')
      /\ \A b \in Batches \ touched : batch'[b] = batch[b]
  BY <1>1, <1>2, <1>8, Refreshed
<1>10. BatchTypeOK'
  <2>1. worker' \in [Workers -> WorkerRec]
    BY Typed
  <2> QED BY <1>5, <1>9, <2>1, Typed DEF BatchTypeOK
<1>11. ASSUME NEW v \in Workers, v # w
       PROVE  /\ worker'[v] = worker[v]
              /\ worker[v].at = "writing" => item'[worker[v].item] = item[worker[v].item]
              /\ worker[v].at = "working" =>
                    \/ missed \/ item'[worker[v].item] = item[worker[v].item]
                    \/ Loose(v)' \/ ~Holds(worker[v].item, worker[v].token)
  <2>1. worker'[v] = worker[v]
    BY <1>11, Typed
  <2>2. ASSUME AtWork(v), Holds(worker[v].item, worker[v].token), worker[v].item \notin S
        PROVE  item'[worker[v].item] = item[worker[v].item]
    BY <1>6, <2>2, Typed DEF Holds, Running
  <2>3. worker[v].at = "writing" => Holds(worker[v].item, worker[v].token) /\ worker[v].item \notin S
    BY <1>1 DEF BatchInv, CoreInv, LeasesOK, Locked
  <2> QED BY <2>1, <2>2, <2>3 DEF AtWork
<1>12. worker'[w].at \notin {"working", "writing"} /\ worker'[w].token = None
  BY Typed
<1>13. \A v \in Workers :
          \/ /\ AsBefore(v)
             /\ worker[v].at = "writing" => item'[worker[v].item] = item[worker[v].item]
             /\ worker[v].at = "working" =>
                   \/ missed \/ item'[worker[v].item] = item[worker[v].item]
                   \/ Loose(v)' \/ ~Holds(worker[v].item, worker[v].token)
          \/ worker'[v].at \notin {"working", "writing"} /\ worker'[v].token = None
  BY <1>11, <1>12 DEF AsBefore
<1> QED BY <1>2, <1>7, <1>9, <1>10, <1>13, ItemsEnd

LEMMA RecoverOwnedOK ==
  ASSUME BatchInv, NEW w \in Workers, RecoverOwned(w)
  PROVE  CoreInv'
<1> DEFINE S == {i \in Items : Running(i) /\ item[i].owner = w}
           rec == [worker[w] EXCEPT !.at = "down"]
<1>1. /\ worker[w].at = "stopping" /\ Recover(S) /\ worker' = [worker EXCEPT ![w] = rec]
      /\ UNCHANGED <<faults, missed, overwritten>>
  BY Typed DEF RecoverOwned
<1>2. ~AtWork(w) /\ worker[w].token = None
  BY <1>1, Typed DEF AtWork
<1>3. rec \in WorkerRec /\ rec.at = "down" /\ rec.token = None
  <2>1. worker[w] \in WorkerRec
    BY Typed
  <2> QED BY <1>2, <2>1 DEF WorkerRec
<1>4. \A v \in Workers : worker[v].at = "working" /\ Holds(worker[v].item, worker[v].token) => worker[v].item \notin S
  <2>1. \A i \in Items, v \in Workers : AtWork(v) /\ item[i].token = worker[v].token => item[i].owner = v
    BY DEF BatchInv, CoreInv, LeasesOK
  <2> QED BY <1>2, <2>1 DEF AtWork, Holds
<1>5. S \in SUBSET Items /\ \A i \in S : Running(i)
  OBVIOUS
<1> HIDE DEF S, rec
<1> QED BY <1>1, <1>2, <1>3, <1>4, <1>5, RecoverOK

LEMMA StartOK ==
  ASSUME BatchInv, NEW w \in Workers, Start(w)
  PROVE  CoreInv'
<1> DEFINE S == {i \in Items : Running(i) /\ Expired(i)}
<1>1. /\ worker[w].at = "down" /\ Recover(S) /\ worker' = [worker EXCEPT ![w] = Resting]
      /\ UNCHANGED <<faults, missed, overwritten>>
  BY DEF Start
<1>2. \A v \in Workers : worker[v].at = "working" /\ Holds(worker[v].item, worker[v].token) =>
         missed \/ worker[v].item \notin S
  <2>1. ASSUME ~missed, NEW v \in Workers, worker[v].at = "working", Holds(worker[v].item, worker[v].token),
               worker[v].item \in S
        PROVE  FALSE
    <3>1. worker[v].beat >= 0 /\ item[worker[v].item].left >= worker[v].beat + (LeaseLen - Renew)
      BY <2>1 DEF BatchInv, CoreInv, HeartsOK, InTime
    <3>2. worker[v].token # None /\ worker[v].item \in Items
      BY <2>1, Typed DEF AtWork
    <3>3. item[worker[v].item].left = 0
      BY <2>1, <3>2 DEF Expired, Holds
    <3>4. worker[v].beat \in Int
      BY Typed, BatchAssumption DEF WorkerRec
    <3> QED BY <3>1, <3>3, <3>4, BatchAssumption
  <2> QED BY <2>1
<1>3. S \in SUBSET Items /\ \A i \in S : Running(i)
  OBVIOUS
<1> HIDE DEF S
<1>4. ~AtWork(w)
  BY <1>1 DEF AtWork
<1> QED BY <1>1, <1>2, <1>3, <1>4, RestingWorker, RecoverOK

LEMMA BeatRenews ==
  ASSUME BatchInv, NEW w \in Workers, Beat(w), Holds(worker[w].item, worker[w].token)
  PROVE  CoreInv'
<1> DEFINE i == worker[w].item
<1>1. /\ worker[w].at = "working" /\ worker[w].beat = 0 /\ UNCHANGED <<batch, faults, missed, overwritten>>
      /\ item' = [item EXCEPT ![i] = Renewed(item[i])] /\ worker' = [worker EXCEPT ![w].beat = Renew]
  BY DEF Beat, Renewed
<1>2. AtWork(w) /\ i \in Items /\ item[i] \in ItemRec /\ item[i].status = "running" /\ item[i].token = worker[w].token
  BY <1>1, Typed DEF AtWork, Holds, Running
<1>3. /\ Renewed(item[i]) \in ItemRec /\ Renewed(item[i]).left = LeaseLen /\ Renewed(item[i]).status = item[i].status
      /\ Renewed(item[i]).token = item[i].token /\ Renewed(item[i]).owner = item[i].owner
      /\ Renewed(item[i]).attempt = item[i].attempt
  BY <1>2, RenewedRow
<1>4. /\ item'[i] = Renewed(item[i]) /\ \A k \in Items \ {i} : item'[k] = item[k]
      /\ item' \in [Items -> ItemRec]
  BY <1>1, <1>2, <1>3, Typed
<1>5. /\ worker'[w].at = "working" /\ worker'[w].item = i /\ worker'[w].token = worker[w].token
      /\ worker'[w].runs = worker[w].runs /\ worker'[w].beat = Renew
      /\ \A v \in Workers \ {w} : worker'[v] = worker[v]
  BY <1>1, Typed DEF WorkerRec
<1>6. worker' \in [Workers -> WorkerRec]
  <2>1. Renew \in -1..Renew
    BY BatchAssumption
  <2>2. worker[w] \in WorkerRec
    BY Typed
  <2>3. [worker[w] EXCEPT !.beat = Renew] \in WorkerRec
    BY <2>1, <2>2 DEF WorkerRec
  <2> QED BY <1>1, <2>3, Typed
<1>7. BatchTypeOK'
  BY <1>1, <1>4, <1>6, Typed DEF BatchTypeOK
<1>8. \A k \in Items : item'[k].status = item[k].status /\ item'[k].token = item[k].token
                       /\ item'[k].owner = item[k].owner /\ item'[k].attempt = item[k].attempt
  BY <1>3, <1>4
<1> HIDE DEF i
<1>9. TablesOK'
  <2> DEFINE touched == {}
  <2>1. touched \in SUBSET Batches /\ \A b \in touched : FALSE
    OBVIOUS
  <2> HIDE DEF touched
  <2> QED BY <1>1, <1>7, <1>8, <2>1, TablesKept DEF BatchInv, CoreInv
<1>10. LeasesOK'
  <2>1. \A v \in Workers : worker[v].at = "writing" => Holds(worker[v].item, worker[v].token)
    BY DEF BatchInv, CoreInv, LeasesOK
  <2>2. \A k \in Items : item[k].attempt \in Nat /\ item'[k].attempt >= item[k].attempt
    BY <1>8, Typed DEF ItemRec
  <2>3. \A v \in Workers :
           \/ worker'[v].at \notin {"working", "writing"} /\ worker'[v].token = None
           \/ /\ AtWork(v) /\ worker'[v].at \in {"working", "writing"}
              /\ worker'[v].token = worker[v].token /\ worker'[v].item = worker[v].item
              /\ worker'[v].at = "writing" => /\ item'[worker[v].item].status = "running"
                                              /\ item'[worker[v].item].token = worker[v].token
    <3>1. ASSUME NEW v \in Workers, v # w, ~AtWork(v)
          PROVE  worker'[v].at \notin {"working", "writing"} /\ worker'[v].token = None
      BY <1>5, <3>1, Typed DEF AtWork
    <3>2. ASSUME NEW v \in Workers, AtWork(v)
          PROVE  /\ worker'[v].at \in {"working", "writing"}
                 /\ worker'[v].token = worker[v].token /\ worker'[v].item = worker[v].item
                 /\ worker'[v].at = "writing" => /\ item'[worker[v].item].status = "running"
                                                 /\ item'[worker[v].item].token = worker[v].token
      BY <1>2, <1>5, <1>8, <2>1, <3>2, Typed DEF AtWork, Holds, Running, i
    <3> QED BY <1>2, <3>1, <3>2
  <2> QED BY <1>1, <1>7, <1>8, <2>2, <2>3, LeasesKept DEF BatchInv, CoreInv
<1>11. HeartsOK'
  <2> SUFFICES ASSUME ~missed, NEW v \in Workers, worker'[v].at = "working"
               PROVE  InTime(v)'
    BY <1>1 DEF HeartsOK
  <2>1. ASSUME v # w
        PROVE  InTime(v)'
    <3>1. worker'[v] = worker[v] /\ InTime(v) /\ AtWork(v)
      BY <1>1, <1>5, <2>1 DEF BatchInv, CoreInv, HeartsOK, AtWork
    <3>2. \A u, x \in Workers : AtWork(x) /\ worker[u].token = worker[x].token => u = x
      BY DEF BatchInv, CoreInv, LeasesOK
    <3>3. worker[v].token # worker[w].token
      BY <2>1, <3>1, <3>2
    <3>4. worker[v].item \in Items
      BY <3>1, Typed
    <3>5. item'[worker[v].item] = item[worker[v].item] \/ item[worker[v].item].token # worker[v].token
      BY <1>2, <1>4, <3>3, <3>4
    <3>6. /\ item'[worker[v].item].status = item[worker[v].item].status
          /\ item'[worker[v].item].token = item[worker[v].item].token
          /\ batch' = batch
      BY <1>1, <1>8, <3>4
    <3>7. \/ item'[worker[v].item].left = item[worker[v].item].left
          \/ ~Holds(worker[v].item, worker[v].token)
      BY <3>5 DEF Holds
    <3> QED BY <1>1, <3>1, <3>6, <3>7 DEF InTime, Loose, Holds, Running
  <2>2. ASSUME v = w
        PROVE  InTime(v)'
    <3>2. item'[i].status = "running" /\ item'[i].token = worker'[w].token /\ item'[i].left = LeaseLen
      BY <1>2, <1>3, <1>4, <1>5
    <3>3. Renew >= 0 /\ LeaseLen >= Renew + (LeaseLen - Renew)
      BY BatchAssumption
    <3> QED BY <1>1, <1>5, <2>2, <3>2, <3>3 DEF InTime, Holds, Running
  <2> QED BY <2>1, <2>2
<1>12. AdmissionBounded'
  <2>1. ASSUME ~missed, NEW k \in Items, Live(k)'
        PROVE  Live(k) /\ Feature(k) = batch'[BatchOf[k]].feature /\ item'[k].token = item[k].token
    <3>1. CASE k = i
      <4>1. worker[w].beat >= 0 /\ item[i].left >= worker[w].beat + (LeaseLen - Renew)
        BY <1>1, <2>1 DEF BatchInv, CoreInv, HeartsOK, InTime, i
      <4>2. item[i].left \in 0..LeaseLen
        BY <1>2 DEF ItemRec
      <4>3. item[i].left > 0
        BY <1>1, <4>1, <4>2, BatchAssumption
      <4> QED BY <1>1, <1>2, <1>8, <3>1, <4>3 DEF Live, Running, Feature
    <3>2. CASE k # i
      BY <1>1, <1>4, <2>1, <3>2 DEF Live, Running, Feature
    <3> QED BY <3>1, <3>2
  <2> QED BY <1>1, <2>1, AdmissionKept DEF BatchInv, CoreInv
<1> QED BY <1>7, <1>9, <1>10, <1>11, <1>12 DEF BatchInv, CoreInv

(* A heartbeat that ends, or that fails and is due again. *)
LEMMA BeatEnds ==
  ASSUME BatchInv, NEW w \in Workers, \/ Beat(w) /\ ~Holds(worker[w].item, worker[w].token)
                                      \/ BeatFails(w)
  PROVE  CoreInv'
<1>1. PICK beat \in {-1, Renew} : worker' = [worker EXCEPT ![w].beat = beat]
  BY DEF Beat, BeatFails
<1>2. /\ UNCHANGED <<batch, item, overwritten>> /\ worker[w].at = "working"
      /\ \/ missed' = TRUE /\ faults' = faults + 1 /\ faults < MaxFaults
         \/ UNCHANGED <<missed, faults>> /\ ~Holds(worker[w].item, worker[w].token)
  BY DEF Beat, BeatFails
<1>3. beat \in -1..Renew
  BY BatchAssumption
<1>4. worker' \in [Workers -> WorkerRec]
  <2>1. worker[w] \in WorkerRec
    BY Typed
  <2>2. [worker[w] EXCEPT !.beat = beat] \in WorkerRec
    BY <1>3, <2>1 DEF WorkerRec
  <2> QED BY <1>1, <2>2, Typed
<1>5. faults' \in 0..MaxFaults /\ missed' \in BOOLEAN
  <2>1. faults \in Nat /\ MaxFaults \in Nat
    BY Typed, BatchAssumption
  <2>2. faults' = faults \/ (faults' = faults + 1 /\ faults < MaxFaults)
    BY <1>2
  <2>3. faults \in 0..MaxFaults
    BY Typed
  <2>4. faults' \in 0..MaxFaults
    BY <2>1, <2>2, <2>3
  <2>5. missed' \in BOOLEAN
    BY <1>2, Typed
  <2> QED BY <2>4, <2>5
<1>6. BatchTypeOK'
  BY <1>2, <1>4, <1>5, Typed DEF BatchTypeOK
<1>7. \A v \in Workers : /\ worker'[v].at = worker[v].at /\ worker'[v].item = worker[v].item
                         /\ worker'[v].token = worker[v].token /\ worker'[v].runs = worker[v].runs
                         /\ worker'[v].beat = IF v = w THEN beat ELSE worker[v].beat
  BY <1>1, Typed DEF WorkerRec
<1>8. TablesOK'
  BY <1>2 DEF BatchInv, CoreInv, TablesOK, BatchOverWithItems
<1>9. LeasesOK'
  BY <1>2, <1>7 DEF BatchInv, CoreInv, LeasesOK, AtWork, Holds, Running
<1>10. HeartsOK'
  <2> SUFFICES ASSUME ~missed', NEW v \in Workers, worker'[v].at = "working"
               PROVE  InTime(v)'
    BY DEF HeartsOK
  <2>1. UNCHANGED missed /\ ~Holds(worker[w].item, worker[w].token)
    BY <1>2
  <2>2. InTime(v)
    BY <1>7, <2>1 DEF BatchInv, CoreInv, HeartsOK
  <2> QED BY <1>2, <1>7, <2>1, <2>2 DEF InTime, Loose, Holds, Running
<1>11. AdmissionBounded'
  <2>1. missed => missed'
    BY <1>2
  <2>2. \A i \in Items : Live(i)' => Live(i) /\ Feature(i) = batch'[BatchOf[i]].feature
                                     /\ item'[i].token = item[i].token
    BY <1>2 DEF Live, Running, Feature
  <2> QED BY <1>2, <2>1, <2>2, AdmissionKept DEF BatchInv, CoreInv
<1> QED BY <1>6, <1>8, <1>9, <1>10, <1>11 DEF BatchInv, CoreInv

(* What a claim or a heartbeat finds, while heartbeats get through. *)
LEMMA HeldIsLive ==
  ASSUME BatchInv, ~missed, NEW v \in Workers, worker[v].at = "working", Holds(worker[v].item, worker[v].token)
  PROVE  Live(worker[v].item) /\ ~Claimable(worker[v].item) /\ ~Expired(worker[v].item)
<1> DEFINE i == worker[v].item
<1>1. worker[v].beat >= 0 /\ item[i].left >= worker[v].beat + (LeaseLen - Renew)
  BY DEF BatchInv, CoreInv, HeartsOK, InTime
<1>2. i \in Items /\ worker[v].token # None /\ item[i].token = worker[v].token /\ Running(i)
  BY Typed DEF AtWork, Holds
<1>3. item[i].left \in Nat /\ worker[v].beat \in Int
  BY <1>2, Typed, BatchAssumption DEF ItemRec, WorkerRec
<1>4. item[i].left > 0
  BY <1>1, <1>3, BatchAssumption
<1>5. ~Expired(i)
  BY <1>2, <1>3, <1>4 DEF Expired
<1> QED BY <1>2, <1>4, <1>5 DEF Live, Claimable, Running

LEMMA ClaimMatesOK ==
  ASSUME BatchInv, NEW w \in Workers, ClaimMates(w)
  PROVE  CoreInv'
<1> DEFINE l == worker[w].item
           mates == {i \in Items : BatchOf[i] = BatchOf[l] /\ item[i].status = "queued" /\ Expired(i)}
<1>1. /\ worker[w].at = "working" /\ worker[w].runs = "leader" /\ UNCHANGED <<batch, faults, missed, overwritten>>
      /\ item' = [i \in Items |-> IF i \in mates THEN Leased(item[i], w, worker[w].token) ELSE item[i]]
      /\ worker' = [worker EXCEPT ![w].runs = "batch"]
  BY DEF ClaimMates
<1>2. AtWork(w) /\ l \in Items /\ worker[w] \in WorkerRec /\ worker[w].token \in Tokens /\ worker[w].token # None
  BY <1>1, Typed DEF AtWork, WorkerRec
<1>3. \A i \in mates : i \in Items /\ BatchOf[i] = BatchOf[l] /\ item[i].status = "queued"
  OBVIOUS
<1>4. ASSUME NEW i \in mates
      PROVE  /\ item'[i] \in ItemRec /\ item'[i].status = "running" /\ item'[i].token = worker[w].token
             /\ item'[i].owner = w /\ item'[i].attempt >= item[i].attempt
  <2>1. item[i] \in ItemRec /\ item[i].attempt \in Nat
    BY Typed DEF ItemRec
  <2>2. item'[i] = Leased(item[i], w, worker[w].token)
    BY <1>1
  <2> QED BY <1>2, <2>1, <2>2, LeasedRow
<1> HIDE DEF mates
<1>5. /\ \A i \in Items \ mates : item'[i] = item[i]
      /\ item' \in [Items -> ItemRec]
  BY <1>1, <1>4, Typed
<1>6. \A v \in Workers : /\ worker'[v].at = worker[v].at /\ worker'[v].item = worker[v].item
                         /\ worker'[v].token = worker[v].token /\ worker'[v].beat = worker[v].beat
                         /\ worker'[v].runs = IF v = w THEN "batch" ELSE worker[v].runs
  BY <1>1, <1>2, Typed DEF WorkerRec
<1>7. worker' \in [Workers -> WorkerRec]
  BY <1>1, <1>2, Typed DEF WorkerRec
<1>8. BatchTypeOK'
  BY <1>1, <1>5, <1>7, Typed DEF BatchTypeOK
<1>9. TablesOK'
  <2> DEFINE touched == {}
  <2>1. touched \in SUBSET Batches /\ \A b \in touched : FALSE
    OBVIOUS
  <2>2. \A i \in Items : /\ item'[i].status = "none" <=> item[i].status = "none"
                         /\ item'[i].status \in TERMINAL <=> item[i].status \in TERMINAL
    BY <1>3, <1>4, <1>5 DEF TERMINAL
  <2> HIDE DEF touched
  <2> QED BY <1>1, <1>8, <2>1, <2>2, TablesKept DEF BatchInv, CoreInv
<1>10. LeasesOK'
  <2>1. \A v \in Workers : worker[v].at = "writing" => Holds(worker[v].item, worker[v].token)
    BY DEF BatchInv, CoreInv, LeasesOK
  <2>2. \A i \in Items :
           /\ item'[i].status \in ACTIVE => item[i].status \in ACTIVE /\ item'[i].attempt >= item[i].attempt
           /\ \/ item'[i].token = item[i].token /\ item'[i].owner = item[i].owner
              \/ \E v \in Workers : AtWork(v) /\ item'[i].token = worker[v].token /\ item'[i].owner = v
    <3>1. \A i \in Items : item[i].attempt \in Nat /\ item[i].attempt >= item[i].attempt
      BY Typed DEF ItemRec
    <3> QED BY <1>2, <1>3, <1>4, <1>5, <3>1 DEF ACTIVE
  <2>3. ASSUME NEW v \in Workers, AtWork(v)
        PROVE  /\ worker'[v].at \in {"working", "writing"}
               /\ worker'[v].at = "writing" => /\ item'[worker[v].item].status = "running"
                                               /\ item'[worker[v].item].token = worker[v].token
    <3>1. worker'[v].at = worker[v].at /\ worker[v].at \in {"working", "writing"}
      BY <1>6, <2>3 DEF AtWork
    <3>2. CASE worker[v].at = "writing"
      <4>1. /\ worker[v].item \in Items /\ item[worker[v].item].status = "running"
            /\ item[worker[v].item].token = worker[v].token
        BY <2>1, <3>2, Typed DEF AtWork, Holds, Running
      <4>2. item'[worker[v].item] = item[worker[v].item]
        BY <1>3, <1>5, <4>1
      <4> QED BY <3>1, <4>1, <4>2
    <3>3. CASE worker[v].at # "writing"
      BY <3>1, <3>3
    <3> QED BY <3>2, <3>3
  <2>4. ASSUME NEW v \in Workers, ~AtWork(v)
        PROVE  worker'[v].at \notin {"working", "writing"} /\ worker'[v].token = None
    BY <1>6, <2>4, Typed DEF AtWork
  <2>5. \A v \in Workers :
           \/ worker'[v].at \notin {"working", "writing"} /\ worker'[v].token = None
           \/ /\ AtWork(v) /\ worker'[v].at \in {"working", "writing"}
              /\ worker'[v].token = worker[v].token /\ worker'[v].item = worker[v].item
              /\ worker'[v].at = "writing" => /\ item'[worker[v].item].status = "running"
                                              /\ item'[worker[v].item].token = worker[v].token
    BY <1>6, <2>3, <2>4
  <2> QED BY <1>1, <1>8, <2>2, <2>5, LeasesKept DEF BatchInv, CoreInv
<1>11. HeartsOK'
  <2>1. ASSUME NEW v \in Workers, worker'[v].at = "working"
        PROVE  /\ worker[v].at = "working" /\ worker'[v].runs \in {worker[v].runs, "batch"}
               /\ \/ missed \/ item'[worker[v].item] = item[worker[v].item]
                  \/ ~Holds(worker[v].item, worker[v].token) /\ item'[worker[v].item].token # worker[v].token
    <3>1. worker[v].at = "working" /\ AtWork(v) /\ worker[v].item \in Items
      BY <1>6, <2>1, Typed DEF AtWork
    <3>2. CASE v = w
      <4>1. ~missed => Loose(w) \/ Holds(l, worker[w].token)
        BY <1>1 DEF BatchInv, CoreInv, HeartsOK, InTime
      <4>2. ~missed => item[l].status # "queued"
        BY <1>1, <4>1 DEF Loose, Holds, Running, ACTIVE
      <4>3. ~missed => item'[l] = item[l]
        BY <1>2, <1>3, <1>5, <4>2
      <4> QED BY <1>6, <3>1, <3>2, <4>3
    <3>3. CASE v # w
      <4>1. worker[v].token # worker[w].token
        BY <1>2, <3>3 DEF BatchInv, CoreInv, LeasesOK
      <4> QED BY <1>3, <1>4, <1>5, <1>6, <3>1, <3>3, <4>1 DEF Holds, Running
    <3> QED BY <3>2, <3>3
  <2>2. \A i \in Items : item'[i].status \in ACTIVE => item[i].status \in ACTIVE
    BY <1>3, <1>5 DEF ACTIVE
  <2> QED BY <1>1, <1>6, <2>1, <2>2, HeartsKept DEF BatchInv, CoreInv
<1>12. AdmissionBounded'
  <2>1. ASSUME ~missed, ~overwritten, NEW i \in Items, Live(i)'
        PROVE  \E k \in Items : /\ Live(k) /\ LaneOf[k] = LaneOf[i] /\ Feature(k) = batch'[BatchOf[i]].feature
                                /\ item'[i].token = item[k].token
    <3>1. CASE i \in mates
      <4>1. Holds(l, worker[w].token) /\ Feature(l) = Coordinated
        <5>1. Holds(l, worker[w].token)
          BY <1>1, <2>1 DEF BatchInv, CoreInv, HeartsOK, InTime, Loose
        <5>2. batch[BatchOf[l]].status # "deleted" /\ Coordinates(w)
          BY <1>2, <5>1, Typed DEF Holds, Running, BatchInv, CoordinatesOK
        <5> QED BY <1>1, <5>1, <5>2 DEF Coordinates
      <4>2. Live(l)
        BY <1>1, <2>1, <4>1, HeldIsLive
      <4>3. batch[BatchOf[l]].feature \in FeaturesOf[BatchOf[l]]
        BY <1>2, <4>1, Typed DEF Holds, Running, BatchInv, CoreInv, TablesOK
      <4>4. LaneOf[l] = LaneOf[i]
        BY <1>2, <1>3, <3>1, <4>1, <4>3, BatchAssumption DEF Feature
      <4> QED BY <1>1, <1>2, <1>3, <1>4, <3>1, <4>1, <4>2, <4>4 DEF Feature, Holds
    <3>2. CASE i \notin mates
      BY <1>1, <1>5, <2>1, <3>2 DEF Live, Running, Feature
    <3> QED BY <3>1, <3>2
  <2> QED BY <1>1, <2>1, AdmissionKept DEF BatchInv, CoreInv
<1> QED BY <1>8, <1>9, <1>10, <1>11, <1>12 DEF BatchInv, CoreInv

(* A claim takes a token that nobody has: it is of the item's next attempt. *)
LEMMA ClaimOK ==
  ASSUME BatchInv, NEW w \in Workers, Claim(w)
  PROVE  CoreInv'
<1>1. PICK i \in Scanned :
         /\ Admitted(i)
         /\ LET token == <<i, item[i].attempt + 1>>
            IN  /\ item' = [item EXCEPT ![i] = Leased(item[i], w, token)]
                /\ worker' = [worker EXCEPT ![w] = [Resting EXCEPT !.at = "working", !.item = i,
                              !.token = token, !.beat = Renew,
                              !.runs = IF Feature(i) = Coordinated THEN "leader" ELSE "item"]]
         /\ batch' = [batch EXCEPT ![BatchOf[i]].status = "running"]
  BY DEF Claim
<1>2. worker[w].at = "idle" /\ UNCHANGED <<faults, missed, overwritten>>
  BY DEF Claim
<1> DEFINE token == <<i, item[i].attempt + 1>>
           runs == IF Feature(i) = Coordinated THEN "leader" ELSE "item"
           rec == [Resting EXCEPT !.at = "working", !.item = i, !.token = token, !.beat = Renew,
                                  !.runs = IF Feature(i) = Coordinated THEN "leader" ELSE "item"]
           b == BatchOf[i]
<1>3. /\ i \in Items /\ b \in Batches /\ batch[b].status \in ACTIVE /\ ~Locked(i) /\ Claimable(i)
      /\ item[i] \in ItemRec /\ item[i].attempt \in Nat /\ item[i].status \in ACTIVE
  BY Typed DEF Scanned, Candidates, Claimable, Running, ACTIVE, ItemRec
<1>4. token \in Tokens /\ token # None
  BY <1>3, BatchAssumption DEF Tokens, None
<1>5. /\ rec \in WorkerRec /\ rec.at = "working" /\ rec.item = i /\ rec.token = token /\ rec.beat = Renew
      /\ rec.runs = runs /\ runs \in {"leader", "item"}
  <2>1. Renew \in -1..Renew
    BY BatchAssumption
  <2> HIDE DEF token
  <2> QED BY <1>3, <1>4, <2>1, RestingWorker DEF WorkerRec
<1>6. /\ item' = [item EXCEPT ![i] = Leased(item[i], w, token)] /\ worker' = [worker EXCEPT ![w] = rec]
      /\ batch' = [batch EXCEPT ![b].status = "running"]
  BY <1>1
<1> HIDE DEF rec
<1>8. /\ Leased(item[i], w, token) \in ItemRec /\ Leased(item[i], w, token).status = "running"
      /\ Leased(item[i], w, token).attempt = item[i].attempt + 1 /\ Leased(item[i], w, token).token = token
      /\ Leased(item[i], w, token).owner = w /\ Leased(item[i], w, token).left = LeaseLen
  BY <1>3, <1>4, LeasedRow
<1>9. /\ item'[i].status = "running" /\ item'[i].attempt = item[i].attempt + 1 /\ item'[i].token = token
      /\ item'[i].owner = w /\ item'[i].left = LeaseLen /\ \A k \in Items \ {i} : item'[k] = item[k]
      /\ item' \in [Items -> ItemRec]
  <2> DEFINE new == Leased(item[i], w, token)
  <2>1. item' = [item EXCEPT ![i] = new] /\ item \in [Items -> ItemRec] /\ i \in Items /\ new \in ItemRec
    BY <1>3, <1>6, <1>8, Typed
  <2>2. /\ new.status = "running" /\ new.attempt = item[i].attempt + 1 /\ new.token = token
        /\ new.owner = w /\ new.left = LeaseLen
    BY <1>8
  <2> HIDE DEF new, token
  <2>3. item'[i] = new /\ \A k \in Items \ {i} : item'[k] = item[k]
    BY <2>1
  <2>4. item' \in [Items -> ItemRec]
    BY <2>1
  <2> QED BY <2>2, <2>3, <2>4
<1>10. /\ worker'[w] = rec /\ \A v \in Workers \ {w} : worker'[v] = worker[v]
       /\ worker' \in [Workers -> WorkerRec]
  BY <1>5, <1>6, Typed
<1>11. /\ batch'[b].status = "running" /\ \A c \in Batches : batch'[c].feature = batch[c].feature
       /\ \A c \in Batches \ {b} : batch'[c] = batch[c]
       /\ batch' \in [Batches -> [status : {"none", "deleted"} \union ACTIVE \union TERMINAL,
                                  feature : DOMAIN FeatureLimit \union {"none"}, cancel : BOOLEAN]]
  <2> DEFINE states == {"none", "deleted"} \union ACTIVE \union TERMINAL
             features == DOMAIN FeatureLimit \union {"none"}
  <2>1. batch \in [Batches -> [status : states, feature : features, cancel : BOOLEAN]]
    BY Typed
  <2>2. "running" \in states
    BY DEF ACTIVE
  <2> HIDE DEF states, features, b
  <2>3. /\ batch'[b].status = "running" /\ \A c \in Batches : batch'[c].feature = batch[c].feature
        /\ \A c \in Batches \ {b} : batch'[c] = batch[c]
        /\ batch' \in [Batches -> [status : states, feature : features, cancel : BOOLEAN]]
    BY <1>3, <1>6, <2>1, <2>2
  <2> QED BY <2>3 DEF states, features
<1>12. BatchTypeOK'
  BY <1>2, <1>9, <1>10, <1>11, Typed DEF BatchTypeOK
<1>13. /\ \A k \in Items : Spent(item[k].token, item, batch)
       /\ \A v \in Workers : Spent(worker[v].token, item, batch)
       /\ \A v \in Workers : worker[v].at = "writing" => Holds(worker[v].item, worker[v].token)
       /\ \A u, v \in Workers : AtWork(v) /\ worker[u].token = worker[v].token => u = v
       /\ \A k \in Items, v \in Workers : AtWork(v) /\ item[k].token = worker[v].token => item[k].owner = v
  BY DEF BatchInv, CoreInv, LeasesOK
<1>14. ASSUME NEW t, Spent(t, item, batch)
       PROVE  t # token
  <2>1. item[i].attempt + 1 \in Nat /\ ~(item[i].attempt + 1 <= item[i].attempt)
    BY <1>3
  <2> QED BY <1>3, <1>14, <2>1 DEF Spent
<1>15. (\A k \in Items : item[k].token # token) /\ (\A v \in Workers : worker[v].token # token)
  BY <1>13, <1>14
<1>16. TablesOK'
  <2> DEFINE touched == {}
  <2>1. touched \in SUBSET Batches /\ \A c \in touched : FALSE
    OBVIOUS
  <2>2. \A k \in Items : /\ item'[k].status = "none" <=> item[k].status = "none"
                         /\ item'[k].status \in TERMINAL <=> item[k].status \in TERMINAL
    BY <1>3, <1>9 DEF TERMINAL, ACTIVE
  <2>3. \A c \in Batches : batch'[c].status = batch[c].status \/ {batch[c].status, batch'[c].status} \subseteq ACTIVE
    BY <1>3, <1>11 DEF ACTIVE
  <2> HIDE DEF touched
  <2> QED BY <1>11, <1>12, <2>1, <2>2, <2>3, TablesKept DEF BatchInv, CoreInv
<1>17. LeasesOK'
  <2>1. ASSUME NEW t, Spent(t, item, batch)
        PROVE  Spent(t, item', batch')
    <3>1. ASSUME NEW k \in Items, NEW n \in Nat, t = <<k, n>>
          PROVE  batch'[BatchOf[k]].status # "none" /\ (item'[k].status \in ACTIVE => n <= item'[k].attempt)
      <4>1. batch[BatchOf[k]].status # "none" /\ (item[k].status \in ACTIVE => n <= item[k].attempt)
        BY <2>1, <3>1 DEF Spent
      <4>2. batch'[BatchOf[k]].status # "none"
        BY <1>11, <4>1, Typed
      <4>3. CASE k = i
        <5>1. n <= item[i].attempt
          BY <1>3, <4>1, <4>3
        <5>2. n <= item'[i].attempt
          BY <1>3, <1>9, <5>1
        <5> QED BY <4>2, <4>3, <5>2
      <4>4. CASE k # i
        BY <1>9, <4>1, <4>2, <4>4
      <4> QED BY <4>3, <4>4
    <3> QED BY <3>1 DEF Spent
  <2>2. Spent(token, item', batch')
    <3>1. item[i].attempt + 1 <= item'[i].attempt /\ batch'[b].status # "none"
      BY <1>3, <1>9, <1>11
    <3> QED BY <3>1 DEF Spent
  <2>3. /\ \A k \in Items : Spent(item'[k].token, item', batch')
        /\ \A v \in Workers : Spent(worker'[v].token, item', batch')
    BY <1>5, <1>9, <1>10, <1>13, <2>1, <2>2
  <2> HIDE DEF token
  <2>4. ASSUME NEW v \in Workers
        PROVE  /\ AtWork(v)' <=> worker'[v].token # None
               /\ AtWork(v)' => worker'[v].item \in Items
    BY <1>3, <1>4, <1>5, <1>10, Typed DEF AtWork
  <2>5. ASSUME NEW u \in Workers, NEW v \in Workers, AtWork(v)', worker'[u].token = worker'[v].token
        PROVE  u = v
    <3>1. u = w <=> worker'[u].token = token
      BY <1>5, <1>10, <1>15
    <3>2. v = w <=> worker'[v].token = token
      BY <1>5, <1>10, <1>15
    <3> QED BY <1>10, <1>13, <2>5, <3>1, <3>2 DEF AtWork
  <2>6. ASSUME NEW k \in Items, NEW v \in Workers, AtWork(v)', item'[k].token = worker'[v].token
        PROVE  item'[k].owner = v
    <3>1. k = i <=> item'[k].token = token
      BY <1>9, <1>15
    <3>2. v = w <=> worker'[v].token = token
      BY <1>5, <1>10, <1>15
    <3>3. CASE k = i
      BY <1>9, <2>6, <3>1, <3>2, <3>3
    <3>4. CASE k # i
      BY <1>9, <1>10, <1>13, <2>6, <3>1, <3>2, <3>4 DEF AtWork
    <3> QED BY <3>3, <3>4
  <2>7. ASSUME NEW v \in Workers, worker'[v].at = "writing"
        PROVE  Holds(worker[v].item, worker[v].token)' /\ worker'[v] = worker[v]
    <3>1. v # w /\ worker'[v] = worker[v] /\ worker[v].at = "writing"
      BY <1>5, <1>10, <2>7
    <3>2. worker[v].item # i /\ worker[v].item \in Items
      BY <1>3, <3>1, Typed DEF Locked, AtWork
    <3> QED BY <1>9, <1>13, <3>1, <3>2 DEF Holds, Running
  <2> QED BY <2>3, <2>4, <2>5, <2>6, <2>7 DEF LeasesOK, Holds, Running
<1>18. HeartsOK'
  <2> SUFFICES ASSUME ~missed, NEW v \in Workers, worker'[v].at = "working"
               PROVE  InTime(v)'
    BY <1>2 DEF HeartsOK
  <2> HIDE DEF token, runs
  <2>1. CASE v = w
    <3>3. Renew >= 0 /\ LeaseLen >= Renew + (LeaseLen - Renew)
      BY BatchAssumption
    <3>4. /\ worker'[v].item = i /\ worker'[v].token = token /\ worker'[v].beat = Renew
      BY <1>5, <1>10, <2>1
    <3> QED BY <1>9, <3>3, <3>4 DEF InTime, Holds, Running
  <2>2. CASE v # w
    <3>1. worker'[v] = worker[v] /\ InTime(v) /\ worker[v].at = "working" /\ worker[v].item \in Items
      BY <1>10, <2>2, Typed DEF BatchInv, CoreInv, HeartsOK, AtWork
    <3>2. CASE worker[v].item = i
      <4>1. ~Holds(i, worker[v].token)
        BY <1>3, <3>1, <3>2, HeldIsLive
      <4>2. item'[i].token # worker[v].token
        BY <1>9, <1>15
      <4> QED BY <1>2, <1>3, <3>1, <3>2, <4>1, <4>2 DEF InTime, Loose, Holds, Running
    <3>3. CASE worker[v].item # i
      <4>1. item'[worker[v].item] = item[worker[v].item]
        BY <1>9, <3>1, <3>3
      <4> QED BY <1>2, <3>1, <4>1 DEF InTime, Loose, Holds, Running
    <3> QED BY <3>2, <3>3
  <2> QED BY <2>1, <2>2
<1>19. AdmissionBounded'
  <2> SUFFICES ASSUME ~missed, ~overwritten
               PROVE  AdmissionBounded'
    BY <1>2 DEF AdmissionBounded
  <2> HIDE DEF token
  <2>1. \A k \in Items : Live(k)' => k = i \/ (k # i /\ Live(k) /\ item'[k].token = item[k].token)
    BY <1>9 DEF Live, Running
  <2>2. \A k \in Items : batch'[BatchOf[k]].feature = Feature(k)
    BY <1>11, Typed DEF Feature
  <2>3. \A k \in Items : Live(k) => LaneOf[k] # LaneOf[i]
    BY <1>1 DEF Admitted, LaneFree
  <2>4. \A j, k \in Items : Live(j)' /\ Live(k)' /\ LaneOf[j] = LaneOf[k] => item'[j].token = item'[k].token
    <3>1. \A j, k \in Items : Live(j) /\ Live(k) /\ LaneOf[j] = LaneOf[k] => item[j].token = item[k].token
      BY DEF BatchInv, CoreInv, AdmissionBounded
    <3> QED BY <2>1, <2>3, <3>1
  <2>5. ASSUME NEW f \in DOMAIN FeatureLimit
        PROVE  Cardinality({item'[k].token : k \in {j \in Items : Live(j)' /\ batch'[BatchOf[j]].feature = f}})
                  <= FeatureLimit[f]
    <3> DEFINE old == {k \in Items : Live(k) /\ Feature(k) = f}
               tokens == {item'[k].token : k \in {j \in Items : Live(j)' /\ batch'[BatchOf[j]].feature = f}}
    <3>1. old \in SUBSET Items
      OBVIOUS
    <3>2. Cardinality(Leases(old)) <= FeatureLimit[f]
      BY DEF BatchInv, CoreInv, AdmissionBounded
    <3>3. /\ IsFiniteSet(Leases(old)) /\ Cardinality(old) \in Nat
          /\ Cardinality(Leases(old)) \in Nat /\ Cardinality(Leases(old)) <= Cardinality(old)
      BY <3>1, LeasesFinite
    <3>4. FeatureLimit[f] \in Nat
      BY BatchAssumption
    <3>5. tokens \subseteq Leases(old) \union (IF Feature(i) = f THEN {token} ELSE {})
      BY <1>9, <2>1, <2>2 DEF Leases
    <3>6. Feature(i) = f => Cardinality(old) < FeatureLimit[f]
      BY <1>1 DEF Admitted, FeatureFree
    <3> HIDE DEF tokens, old
    <3>7. CASE Feature(i) = f
      <4>1. /\ IsFiniteSet(Leases(old) \union {token})
            /\ \/ Cardinality(Leases(old) \union {token}) = Cardinality(Leases(old))
               \/ Cardinality(Leases(old) \union {token}) = Cardinality(Leases(old)) + 1
        BY <3>3, FS_AddElement
      <4>2. Cardinality(tokens) <= Cardinality(Leases(old) \union {token}) /\ Cardinality(tokens) \in Nat
        BY <3>5, <3>7, <4>1, FS_Subset, FS_CardinalityType
      <4>3. Cardinality(old) < FeatureLimit[f]
        BY <3>6, <3>7
      <4> QED BY <3>3, <3>4, <4>1, <4>2, <4>3 DEF tokens
    <3>8. CASE Feature(i) # f
      <4>1. tokens \subseteq Leases(old)
        BY <3>5, <3>8
      <4>2. Cardinality(tokens) <= Cardinality(Leases(old)) /\ Cardinality(tokens) \in Nat
        BY <3>3, <4>1, FS_Subset, FS_CardinalityType
      <4> QED BY <3>2, <3>3, <3>4, <4>2 DEF tokens
    <3> QED BY <3>7, <3>8
  <2> QED BY <2>4, <2>5 DEF AdmissionBounded, Leases, Feature
<1> QED BY <1>12, <1>16, <1>17, <1>18, <1>19 DEF BatchInv, CoreInv

(* Time passes for the leases as it does for the heartbeats, none of which  *)
(* is due.                                                                  *)
LEMMA BatchTickOK ==
  ASSUME BatchInv, BatchTick
  PROVE  CoreInv'
<1>1. /\ \A w \in Workers : worker[w].beat # 0
      /\ item' = [i \in Items |-> [item[i] EXCEPT !.left = Less(item[i].left), !.wait = Less(item[i].wait)]]
      /\ worker' = [w \in Workers |-> [worker[w] EXCEPT !.beat = Less(worker[w].beat)]]
      /\ UNCHANGED <<batch, faults, missed, overwritten>>
  BY DEF BatchTick
<1>2. ASSUME NEW i \in Items
      PROVE  /\ item'[i] \in ItemRec /\ item'[i].status = item[i].status /\ item'[i].token = item[i].token
             /\ item'[i].owner = item[i].owner /\ item'[i].attempt = item[i].attempt /\ item[i].attempt \in Nat
             /\ item'[i].left = Less(item[i].left) /\ item[i].left \in 0..LeaseLen
  <2>1. item[i] \in ItemRec
    BY Typed
  <2>2. /\ \A n \in 0..LeaseLen : Less(n) \in 0..LeaseLen
        /\ \A n \in 0..Backoff : Less(n) \in 0..Backoff
    BY BatchAssumption DEF Less
  <2>3. item'[i] = [item[i] EXCEPT !.left = Less(item[i].left), !.wait = Less(item[i].wait)]
    BY <1>1
  <2> QED BY <2>1, <2>2, <2>3 DEF ItemRec
<1>3. ASSUME NEW w \in Workers
      PROVE  /\ worker'[w] \in WorkerRec /\ worker'[w].at = worker[w].at /\ worker'[w].item = worker[w].item
             /\ worker'[w].token = worker[w].token /\ worker'[w].runs = worker[w].runs
             /\ worker'[w].beat = Less(worker[w].beat) /\ worker[w].beat \in -1..Renew
  <2>1. worker[w] \in WorkerRec
    BY Typed
  <2>2. \A n \in -1..Renew : Less(n) \in -1..Renew
    BY BatchAssumption DEF Less
  <2>3. worker'[w] = [worker[w] EXCEPT !.beat = Less(worker[w].beat)]
    BY <1>1
  <2> QED BY <2>1, <2>2, <2>3 DEF WorkerRec
<1>4. BatchTypeOK'
  <2>1. item' \in [Items -> ItemRec] /\ worker' \in [Workers -> WorkerRec]
    BY <1>1, <1>2, <1>3
  <2> QED BY <1>1, <2>1, Typed DEF BatchTypeOK
<1>5. TablesOK'
  <2> DEFINE touched == {}
  <2>1. touched \in SUBSET Batches /\ \A b \in touched : FALSE
    OBVIOUS
  <2> HIDE DEF touched
  <2> QED BY <1>1, <1>2, <1>4, <2>1, TablesKept DEF BatchInv, CoreInv
<1>6. LeasesOK'
  <2>1. \A w \in Workers : worker[w].at = "writing" => Holds(worker[w].item, worker[w].token)
    BY DEF BatchInv, CoreInv, LeasesOK
  <2>2. \A i \in Items : item'[i].attempt >= item[i].attempt
    BY <1>2
  <2>3. \A w \in Workers :
           \/ worker'[w].at \notin {"working", "writing"} /\ worker'[w].token = None
           \/ /\ AtWork(w) /\ worker'[w].at \in {"working", "writing"}
              /\ worker'[w].token = worker[w].token /\ worker'[w].item = worker[w].item
              /\ worker'[w].at = "writing" => /\ item'[worker[w].item].status = "running"
                                              /\ item'[worker[w].item].token = worker[w].token
    BY <1>2, <1>3, <2>1, Typed DEF AtWork, Holds, Running
  <2> QED BY <1>1, <1>2, <1>4, <2>2, <2>3, LeasesKept DEF BatchInv, CoreInv
<1>7. HeartsOK'
  <2> SUFFICES ASSUME ~missed, NEW w \in Workers, worker'[w].at = "working"
               PROVE  InTime(w)'
    BY <1>1 DEF HeartsOK
  <2> DEFINE i == worker[w].item
  <2>1. i \in Items /\ InTime(w)
    BY <1>3, Typed DEF AtWork, BatchInv, CoreInv, HeartsOK
  <2>2. ASSUME Holds(i, worker[w].token)
        PROVE  worker'[w].beat >= 0 /\ item'[i].left >= worker'[w].beat + (LeaseLen - Renew)
    <3>1. worker[w].beat >= 0 /\ item[i].left >= worker[w].beat + (LeaseLen - Renew) /\ worker[w].beat # 0
      BY <1>1, <2>1, <2>2 DEF InTime
    <3>2. /\ worker'[w].beat = Less(worker[w].beat) /\ worker[w].beat \in -1..Renew
          /\ item'[i].left = Less(item[i].left) /\ item[i].left \in 0..LeaseLen
      BY <1>2, <1>3, <2>1
    <3> HIDE DEF i
    <3> DEFINE beat == worker[w].beat
               left == item[i].left
    <3>3. beat \in Int /\ left \in Int /\ LeaseLen \in Int /\ Renew \in Int /\ Renew < LeaseLen
      BY <3>2, BatchAssumption
    <3>4. beat > 0 /\ left > 0 /\ left >= beat + (LeaseLen - Renew)
      <4> HIDE DEF beat, left
      <4>1. beat >= 0 /\ left >= beat + (LeaseLen - Renew) /\ beat # 0
        BY <3>1 DEF beat, left
      <4> QED BY <3>3, <4>1
    <3>5. worker'[w].beat = beat - 1 /\ item'[i].left = left - 1
      BY <3>2, <3>4 DEF Less
    <3> HIDE DEF beat, left
    <3> QED BY <3>3, <3>4, <3>5
  <2>3. worker'[w].item = i /\ item'[i].status = item[i].status /\ item'[i].token = item[i].token
    BY <1>2, <1>3, <2>1
  <2> HIDE DEF i
  <2>4. worker[w].item = i
    BY DEF i
  <2>5. worker'[w].runs = worker[w].runs /\ worker'[w].token = worker[w].token /\ batch' = batch
    BY <1>1, <1>3
  <2>6. Holds(worker[w].item, worker[w].token)' <=> Holds(worker[w].item, worker[w].token)
    BY <2>3, <2>4, <2>5 DEF Holds, Running
  <2>7. Loose(w)' <=> Loose(w)
    BY <1>1, <2>3, <2>4, <2>5 DEF Loose
  <2> QED BY <2>1, <2>2, <2>3, <2>4, <2>5, <2>6, <2>7 DEF InTime
<1>8. AdmissionBounded'
  <2>1. \A n \in 0..LeaseLen : Less(n) > 0 => n > 0
    BY BatchAssumption DEF Less
  <2>2. \A i \in Items : Live(i)' => Live(i) /\ Feature(i) = batch'[BatchOf[i]].feature
                                     /\ item'[i].token = item[i].token
    BY <1>1, <1>2, <2>1 DEF Live, Running, Feature
  <2> QED BY <1>1, <2>2, AdmissionKept DEF BatchInv, CoreInv
<1> QED BY <1>4, <1>5, <1>6, <1>7, <1>8 DEF BatchInv, CoreInv
-----------------------------------------------------------------------------
(* Who coordinates stays so: no step gives a batch another feature, and     *)
(* completions begin and end with their worker.                             *)
Steady ==
    \A b \in Batches : batch[b].status # "none" =>
        /\ batch'[b].status # "none"
        /\ \/ batch'[b].status = "deleted"
           \/ batch[b].status # "deleted" /\ batch'[b].feature = batch[b].feature
GoesOn(w) ==
    \/ worker'[w].at \notin {"working", "writing"} /\ worker'[w].closing = {}
    \/ /\ AtWork(w) /\ worker'[w].item = worker[w].item
       /\ worker'[w].runs = "item" <=> worker[w].runs = "item"
       /\ \/ worker'[w].closing = {}
          \/ /\ worker'[w].at = "working" /\ worker'[w].runs = "batch"
             /\ \A i \in worker'[w].closing : BatchOf[i] = BatchOf[worker[w].item]
    \/ worker'[w].closing = {} /\ Coordinates(w)'

LEMMA CoordinatesKept ==
  ASSUME BatchInv, Steady, \A w \in Workers : GoesOn(w)
  PROVE  CoordinatesOK'
<1>1. ASSUME NEW w \in Workers, AtWork(w), worker'[w].item = worker[w].item,
             worker'[w].runs = "item" <=> worker[w].runs = "item"
      PROVE  Coordinates(w)'
  <2>1. BatchOf[worker[w].item] \in Batches /\ Coordinates(w)
    BY <1>1, Typed DEF BatchInv, CoordinatesOK
  <2> QED BY <1>1, <2>1 DEF Steady, Coordinates, Feature
<1>2. ASSUME NEW w \in Workers
      PROVE  /\ AtWork(w)' => Coordinates(w)'
             /\ worker'[w].closing = {} \/ Closes(w)'
  <2>1. CASE worker'[w].at \notin {"working", "writing"} /\ worker'[w].closing = {}
    BY <2>1 DEF AtWork
  <2>2. CASE /\ AtWork(w) /\ worker'[w].item = worker[w].item
             /\ worker'[w].runs = "item" <=> worker[w].runs = "item"
             /\ \/ worker'[w].closing = {}
                \/ /\ worker'[w].at = "working" /\ worker'[w].runs = "batch"
                   /\ \A i \in worker'[w].closing : BatchOf[i] = BatchOf[worker[w].item]
    BY <1>1, <2>2 DEF Closes
  <2>3. CASE worker'[w].closing = {} /\ Coordinates(w)'
    BY <2>3
  <2> QED BY <2>1, <2>2, <2>3 DEF GoesOn
<1> QED BY <1>2 DEF CoordinatesOK

LEMMA AggregateIs ==
  ASSUME NEW b, NEW rows
  PROVE  Aggregate(b, rows) \in ACTIVE \union TERMINAL
<1> DEFINE statuses == {rows[i].status : i \in ItemsOf(b)}
<1>1. Aggregate(b, rows) =
        IF statuses \subseteq TERMINAL
        THEN IF statuses \in {{"cancelled"}, {"failed"}, {"succeeded"}}
             THEN CHOOSE s \in statuses : TRUE ELSE "partial"
        ELSE IF "running" \in statuses THEN "running" ELSE "queued"
  BY DEF Aggregate
<1> HIDE DEF statuses
<1>2. CASE statuses \subseteq TERMINAL /\ statuses \in {{"cancelled"}, {"failed"}, {"succeeded"}}
  <2>1. (CHOOSE s \in statuses : TRUE) \in statuses
    BY <1>2
  <2> QED BY <1>1, <1>2, <2>1
<1>3. CASE ~(statuses \subseteq TERMINAL /\ statuses \in {{"cancelled"}, {"failed"}, {"succeeded"}})
  BY <1>1, <1>3 DEF ACTIVE, TERMINAL
<1> QED BY <1>2, <1>3

LEMMA RefreshIsSteady ==
  ASSUME BatchInv, NEW touched \in SUBSET Batches, Refresh(touched),
         \A b \in touched : batch[b].status \notin {"none", "deleted"}
  PROVE  Steady
<1>1. ASSUME NEW b \in touched
      PROVE  batch'[b].status \notin {"none", "deleted"} /\ batch'[b].feature = batch[b].feature
  <2>1. batch'[b] = [batch[b] EXCEPT !.status = Aggregate(b, item')]
    BY <1>1 DEF Refresh
  <2>2. batch'[b].status = Aggregate(b, item') /\ batch'[b].feature = batch[b].feature
    BY <2>1, Typed
  <2> QED BY <2>2, AggregateIs, Phases
<1>2. \A b \in Batches \ touched : batch'[b] = batch[b]
  BY DEF Refresh
<1> QED BY <1>1, <1>2 DEF Steady

LEMMA StepCoordinates ==
  ASSUME BatchInv, BatchNext
  PROVE  CoordinatesOK'
<1>1. ASSUME NEW w \in Workers, worker'[w] = worker[w]
      PROVE  GoesOn(w)
  <2>1. (AtWork(w) => Coordinates(w)) /\ (worker[w].closing = {} \/ Closes(w))
    BY DEF BatchInv, CoordinatesOK
  <2> QED BY <1>1, <2>1 DEF GoesOn, Closes, AtWork
<1>2. ASSUME NEW w \in Workers, \A v \in Workers \ {w} : worker'[v] = worker[v], GoesOn(w)
      PROVE  \A v \in Workers : GoesOn(v)
  BY <1>1, <1>2
<1>3. \A rec \in {Resting, [Resting EXCEPT !.at = "stopping"], [Resting EXCEPT !.at = "down"]} :
         rec.at \notin {"working", "writing"} /\ rec.closing = {}
  BY RestingWorker DEF Resting
<1>4. ASSUME NEW w \in Workers,
             NEW rec \in {Resting, [Resting EXCEPT !.at = "stopping"], [Resting EXCEPT !.at = "down"]},
             worker' = [worker EXCEPT ![w] = rec]
      PROVE  \A v \in Workers : GoesOn(v)
  <2>1. worker'[w] = rec /\ \A v \in Workers \ {w} : worker'[v] = worker[v]
    BY <1>4, Typed
  <2>2. GoesOn(w)
    BY <1>3, <2>1 DEF GoesOn
  <2> QED BY <1>2, <2>1, <2>2
<1>5. batch' = batch => Steady
  BY DEF Steady
<1>6. ASSUME NEW S \in SUBSET Items, \A i \in S : Running(i), Recover(S)
      PROVE  Steady
  <2> DEFINE touched == {BatchOf[i] : i \in S} \union
                        {b \in Batches : batch[b].status \in ACTIVE /\ batch[b].cancel}
  <2>1. \A i \in S : BatchOf[i] \in Batches /\ batch[BatchOf[i]].status \notin {"none", "deleted"}
    BY <1>6, Typed DEF Running
  <2>2. touched \in SUBSET Batches /\ \A b \in touched : batch[b].status \notin {"none", "deleted"}
    BY <2>1, Phases
  <2>3. Refresh(touched)
    BY <1>6 DEF Recover
  <2> HIDE DEF touched
  <2> QED BY <2>2, <2>3, RefreshIsSteady
<1>7. CASE \E b \in Batches : Create(b) \/ Cancel(b) \/ Delete(b)
  <2>1. PICK b \in Batches : Create(b) \/ Cancel(b) \/ Delete(b)
    BY <1>7
  <2>2. \A w \in Workers : GoesOn(w)
    BY <1>1, <2>1 DEF Create, Cancel, Delete
  <2>3. ASSUME Create(b)
        PROVE  Steady
    <3>1. batch[b].status = "none" /\ \A c \in Batches \ {b} : batch'[c] = batch[c]
      BY <2>3 DEF Create
    <3> QED BY <3>1 DEF Steady
  <2>4. ASSUME Delete(b)
        PROVE  Steady
    <3>1. batch'[b].status = "deleted" /\ \A c \in Batches \ {b} : batch'[c] = batch[c]
      BY <2>4, Typed DEF Delete
    <3>2. ASSUME NEW c \in Batches, batch[c].status # "none"
          PROVE  /\ batch'[c].status # "none"
                 /\ \/ batch'[c].status = "deleted"
                    \/ batch[c].status # "deleted" /\ batch'[c].feature = batch[c].feature
      BY <3>1, <3>2
    <3> QED BY <3>2 DEF Steady
  <2>5. ASSUME Cancel(b)
        PROVE  Steady
    <3>1. /\ batch' = [batch EXCEPT ![b] = [batch[b] EXCEPT !.status = Aggregate(b, item'), !.cancel = TRUE]]
          /\ batch[b].status \in ACTIVE
      BY <2>5 DEF Cancel
    <3>2. /\ batch'[b].status = Aggregate(b, item') /\ batch'[b].feature = batch[b].feature
          /\ \A c \in Batches \ {b} : batch'[c] = batch[c]
      BY <3>1, Typed
    <3>3. {batch[b].status, batch'[b].status} \intersect {"none", "deleted"} = {}
      BY <3>1, <3>2, AggregateIs, Phases
    <3>4. ASSUME NEW c \in Batches, batch[c].status # "none"
          PROVE  /\ batch'[c].status # "none"
                 /\ \/ batch'[c].status = "deleted"
                    \/ batch[c].status # "deleted" /\ batch'[c].feature = batch[c].feature
      BY <3>2, <3>3, <3>4
    <3> QED BY <3>4 DEF Steady
  <2> QED BY <2>1, <2>2, <2>3, <2>4, <2>5, CoordinatesKept
<1>8. ASSUME NEW w \in Workers, Claim(w)
      PROVE  CoordinatesOK'
  <2>1. PICK i \in Scanned :
           /\ worker' = [worker EXCEPT ![w] = [Resting EXCEPT !.at = "working", !.item = i,
                            !.token = <<i, item[i].attempt + 1>>, !.beat = Renew,
                            !.runs = IF Feature(i) = Coordinated THEN "leader" ELSE "item"]]
           /\ batch' = [batch EXCEPT ![BatchOf[i]].status = "running"]
    BY <1>8 DEF Claim
  <2>2. i \in Items /\ BatchOf[i] \in Batches /\ batch[BatchOf[i]].status \in ACTIVE
    BY Typed DEF Scanned, Candidates
  <2>3. /\ \A b \in Batches : batch'[b].feature = batch[b].feature
        /\ \A b \in Batches \ {BatchOf[i]} : batch'[b].status = batch[b].status
        /\ batch'[BatchOf[i]].status = "running"
    BY <2>1, <2>2, Typed
  <2>4. Steady
    BY <2>2, <2>3, Phases DEF Steady
  <2>5. /\ worker'[w].item = i /\ worker'[w].closing = {}
        /\ worker'[w].runs = IF Feature(i) = Coordinated THEN "leader" ELSE "item"
        /\ \A v \in Workers \ {w} : worker'[v] = worker[v]
    BY <2>1, Typed DEF Resting
  <2>6. Coordinates(w)'
    BY <2>2, <2>3, <2>5 DEF Coordinates, Feature
  <2>7. GoesOn(w)
    BY <2>5, <2>6 DEF GoesOn
  <2> QED BY <1>2, <2>4, <2>5, <2>7, CoordinatesKept
<1>9. ASSUME NEW w \in Workers, ReadExternal(w) \/ WriteExternal(w)
      PROVE  CoordinatesOK'
  <2>1. PICK c : /\ worker' = [worker EXCEPT ![w].closing = c] /\ worker[w].at = "working" /\ worker[w].runs = "batch"
                 /\ \A i \in c : BatchOf[i] = BatchOf[worker[w].item]
    <3>1. worker[w].closing = {} \/ Closes(w)
      BY DEF BatchInv, CoordinatesOK
    <3>2. CASE ReadExternal(w)
      <4>1. PICK i \in Mine(w) : worker' = [worker EXCEPT ![w].closing = worker[w].closing \union {i}]
        BY <3>2 DEF ReadExternal
      <4>2. BatchOf[i] = BatchOf[worker[w].item]
        BY DEF Mine, ItemsOf
      <4>3. worker[w].at = "working" /\ worker[w].runs = "batch"
        BY <3>2 DEF ReadExternal
      <4>4. \A k \in worker[w].closing \union {i} : BatchOf[k] = BatchOf[worker[w].item]
        BY <3>1, <4>2 DEF Closes
      <4> QED BY <4>1, <4>3, <4>4
    <3>3. CASE WriteExternal(w)
      <4>1. PICK i \in worker[w].closing : worker' = [worker EXCEPT ![w].closing = worker[w].closing \ {i}]
        BY <3>3 DEF WriteExternal
      <4> QED BY <3>1, <4>1 DEF Closes
    <3> QED BY <1>9, <3>2, <3>3
  <2>2. /\ worker'[w].at = "working" /\ worker'[w].runs = "batch" /\ worker'[w].item = worker[w].item
        /\ worker'[w].closing = c /\ \A v \in Workers \ {w} : worker'[v] = worker[v]
    BY <2>1, Typed DEF WorkerRec
  <2>3. GoesOn(w)
    BY <2>1, <2>2 DEF GoesOn, AtWork
  <2>4. CASE batch' = batch
    BY <1>2, <1>5, <2>2, <2>3, <2>4, CoordinatesKept
  <2>5. CASE batch' # batch
    <3>1. PICK i \in worker[w].closing : item[i].status # "none" /\ Refresh({BatchOf[i]})
      BY <1>9, <2>5 DEF ReadExternal, WriteExternal
    <3>2. i \in Items
      BY <3>1, Typed DEF WorkerRec
    <3> DEFINE touched == {BatchOf[i]}
    <3>3. touched \in SUBSET Batches /\ \A b \in touched : batch[b].status \notin {"none", "deleted"}
      BY <3>1, <3>2, Typed
    <3>4. Refresh(touched)
      BY <3>1
    <3> HIDE DEF touched
    <3>5. Steady
      BY <3>3, <3>4, RefreshIsSteady
    <3> QED BY <1>2, <2>2, <2>3, <3>5, CoordinatesKept
  <2> QED BY <2>4, <2>5
<1>10. ASSUME NEW w \in Workers, FinishWrite(w)
       PROVE  CoordinatesOK'
  <2> DEFINE touched == {BatchOf[worker[w].item]}
  <2>1. /\ worker' = [worker EXCEPT ![w] = Resting] /\ Refresh(touched)
        /\ worker[w].item \in Items /\ Running(worker[w].item)
    BY <1>10, Typed DEF FinishWrite, BatchInv, CoreInv, LeasesOK, AtWork, Holds
  <2>2. touched \in SUBSET Batches /\ \A b \in touched : batch[b].status \notin {"none", "deleted"}
    BY <2>1, Typed DEF Running
  <2> HIDE DEF touched
  <2> QED BY <1>4, <2>1, <2>2, RefreshIsSteady, CoordinatesKept
<1>11. ASSUME NEW w \in Workers, RecoverOwned(w) \/ Start(w)
       PROVE  CoordinatesOK'
  <2>1. Steady
    <3>1. CASE RecoverOwned(w)
      BY <1>6, <3>1 DEF RecoverOwned
    <3>2. CASE Start(w)
      BY <1>6, <3>2 DEF Start
    <3> QED BY <1>11, <3>1, <3>2
  <2>2. CASE RecoverOwned(w)
    <3>1. worker' = [worker EXCEPT ![w].at = "down"] /\ worker[w].at = "stopping"
      BY <2>2 DEF RecoverOwned
    <3>2. /\ worker'[w].at = "down" /\ worker'[w].closing = worker[w].closing
          /\ \A v \in Workers \ {w} : worker'[v] = worker[v]
      BY <3>1, Typed DEF WorkerRec
    <3>3. worker[w].closing = {}
      BY <3>1 DEF BatchInv, CoordinatesOK, Closes
    <3>4. GoesOn(w)
      BY <3>2, <3>3 DEF GoesOn
    <3> QED BY <1>2, <2>1, <3>2, <3>4, CoordinatesKept
  <2>3. CASE Start(w)
    BY <1>4, <2>1, <2>3, CoordinatesKept DEF Start
  <2> QED BY <1>11, <2>2, <2>3
<1>12. ASSUME NEW w \in Workers, FinishFails(w) \/ Stop(w) \/ Crash(w)
       PROVE  CoordinatesOK'
  BY <1>4, <1>5, <1>12, CoordinatesKept DEF FinishFails, Stop, Crash
<1>13. ASSUME NEW w \in Workers, Beat(w) \/ BeatFails(w) \/ ClaimMates(w) \/ FinishRead(w)
       PROVE  CoordinatesOK'
  <2>1. worker[w].at = "working" /\ batch' = batch /\ \A v \in Workers \ {w} : worker'[v] = worker[v]
    BY <1>13, Typed DEF Beat, BeatFails, ClaimMates, FinishRead
  <2>2. /\ Closes(w) \/ worker[w].closing = {}
        /\ worker[w] \in WorkerRec /\ AtWork(w)
    BY <2>1, Typed DEF BatchInv, CoordinatesOK, AtWork
  <2>3. CASE Beat(w) \/ BeatFails(w)
    <3>1. PICK beat \in {-1, Renew} : worker' = [worker EXCEPT ![w].beat = beat]
      BY <2>3 DEF Beat, BeatFails
    <3>2. /\ worker'[w].at = worker[w].at /\ worker'[w].closing = worker[w].closing
          /\ worker'[w].runs = worker[w].runs /\ worker'[w].item = worker[w].item
      BY <3>1, Typed DEF WorkerRec
    <3>3. GoesOn(w)
      BY <2>2, <3>2 DEF GoesOn, Closes
    <3> QED BY <1>2, <1>5, <2>1, <3>3, CoordinatesKept
  <2>4. CASE ClaimMates(w)
    <3>1. /\ worker'[w].at = worker[w].at /\ worker'[w].closing = worker[w].closing
          /\ worker'[w].runs = "batch" /\ worker[w].runs = "leader" /\ worker'[w].item = worker[w].item
      BY <2>4, Typed DEF ClaimMates, WorkerRec
    <3>2. GoesOn(w)
      BY <2>2, <3>1 DEF GoesOn, Closes
    <3> QED BY <1>2, <1>5, <2>1, <3>2, CoordinatesKept
  <2>5. CASE FinishRead(w)
    <3> DEFINE rec == IF StillLeased(w)
                      THEN [worker[w] EXCEPT !.at = "writing", !.beat = -1,
                                             !.cancelSeen = batch[BatchOf[worker[w].item]].cancel]
                      ELSE Resting
    <3>1. worker' = [worker EXCEPT ![w] = rec] /\ worker[w].closing = {}
      BY <2>5 DEF FinishRead
    <3>2. worker'[w] = rec
      BY <3>1, Typed
    <3>3. CASE StillLeased(w)
      <4> DEFINE cancel == batch[BatchOf[worker[w].item]].cancel
      <4>1. worker'[w] = [worker[w] EXCEPT !.at = "writing", !.beat = -1, !.cancelSeen = cancel]
        BY <3>2, <3>3
      <4> HIDE DEF cancel
      <4>2. /\ worker'[w].closing = worker[w].closing /\ worker'[w].runs = worker[w].runs
            /\ worker'[w].item = worker[w].item
        <5>1. worker[w] \in WorkerRec
          BY <2>2
        <5> QED BY <4>1, <5>1 DEF WorkerRec
      <4>3. GoesOn(w)
        BY <2>2, <3>1, <4>2 DEF GoesOn
      <4> QED BY <1>2, <1>5, <2>1, <4>3, CoordinatesKept
    <3>4. CASE ~StillLeased(w)
      <4>1. worker' = [worker EXCEPT ![w] = Resting]
        BY <3>1, <3>4
      <4> QED BY <1>4, <1>5, <2>1, <4>1, CoordinatesKept
    <3> QED BY <3>3, <3>4
  <2> QED BY <1>13, <2>3, <2>4, <2>5
<1>14. CASE BatchTick
  <2>1. ASSUME NEW w \in Workers
        PROVE  GoesOn(w)
    <3>1. worker'[w] = [worker[w] EXCEPT !.beat = Less(worker[w].beat)]
      BY <1>14 DEF BatchTick
    <3>2. /\ worker'[w].at = worker[w].at /\ worker'[w].closing = worker[w].closing
          /\ worker'[w].runs = worker[w].runs /\ worker'[w].item = worker[w].item
      BY <3>1, Typed DEF WorkerRec
    <3>3. Closes(w) \/ worker[w].closing = {}
      BY DEF BatchInv, CoordinatesOK
    <3> QED BY <3>2, <3>3 DEF GoesOn, Closes, AtWork
  <2> QED BY <1>5, <1>14, <2>1, CoordinatesKept DEF BatchTick
<1> QED BY <1>7, <1>8, <1>9, <1>10, <1>11, <1>12, <1>13, <1>14 DEF BatchNext, Executes
-----------------------------------------------------------------------------
(* The invariant. *)

LEMMA InitBatchInv ==
  ASSUME BatchInit
  PROVE  BatchInv
<1>1. /\ \A b \in Batches : batch[b] = [status |-> "none", feature |-> "none", cancel |-> FALSE]
      /\ \A i \in Items : item[i] = NoItem
      /\ \A w \in Workers : worker[w] = Resting
      /\ faults = 0 /\ missed = FALSE /\ overwritten = FALSE
  BY DEF BatchInit
<1>2. BatchTypeOK
  <2>1. item \in [Items -> ItemRec] /\ worker \in [Workers -> WorkerRec]
    BY NoItemRow, RestingWorker DEF BatchInit
  <2>2. 0 \in 0..MaxFaults
    BY BatchAssumption
  <2> QED BY <2>1, <2>2 DEF BatchInit, BatchTypeOK
<1>3. TablesOK
  BY <1>1, NoItemRow, BatchAssumption DEF TablesOK, BatchOverWithItems
<1>4. LeasesOK
  <2>1. Spent(None, item, batch)
    BY BatchAssumption DEF Spent, None
  <2> QED BY <1>1, <2>1, NoItemRow, RestingWorker DEF LeasesOK, AtWork
<1>5. HeartsOK
  BY <1>1, RestingWorker DEF HeartsOK
<1>6. AdmissionBounded
  <2>1. \A i \in Items : ~Live(i)
    BY <1>1, NoItemRow DEF Live, Running
  <2>2. ASSUME NEW f \in DOMAIN FeatureLimit
        PROVE  Cardinality(Leases({i \in Items : Live(i) /\ Feature(i) = f})) <= FeatureLimit[f]
    <3>1. Leases({i \in Items : Live(i) /\ Feature(i) = f}) = {}
      BY <2>1 DEF Leases
    <3>2. Cardinality({}) = 0 /\ FeatureLimit[f] \in Nat
      BY FS_EmptySet, BatchAssumption
    <3>3. Cardinality(Leases({i \in Items : Live(i) /\ Feature(i) = f})) = 0
      BY <3>1, <3>2
    <3> QED BY <3>2, <3>3
  <2> QED BY <2>1, <2>2 DEF AdmissionBounded
<1>7. CoordinatesOK
  BY <1>1, RestingWorker DEF CoordinatesOK, AtWork, Resting
<1> QED BY <1>2, <1>3, <1>4, <1>5, <1>6, <1>7 DEF BatchInv, CoreInv

LEMMA StepBatchInv ==
  ASSUME BatchInv, [BatchNext]_bvars
  PROVE  BatchInv'
<1>1. ASSUME BatchNext
      PROVE  CoreInv'
  <2>1. CASE \E b \in Batches : Create(b) \/ Cancel(b) \/ Delete(b)
    BY <2>1, CreateOK, CancelOK, DeleteOK
  <2>2. CASE \E w \in Workers : Claim(w) \/ ClaimMates(w) \/ ReadExternal(w) \/ WriteExternal(w)
    BY <2>2, ClaimOK, ClaimMatesOK, ReadExternalOK, WriteExternalOK
  <2>3. CASE \E w \in Workers : Beat(w) \/ BeatFails(w)
    BY <2>3, BeatRenews, BeatEnds
  <2>4. CASE \E w \in Workers : FinishRead(w) \/ FinishWrite(w) \/ FinishFails(w)
    BY <2>4, FinishReadOK, FinishWriteOK, WorkerStopsOK
  <2>5. CASE \E w \in Workers : Stop(w) \/ RecoverOwned(w) \/ Crash(w) \/ Start(w)
    BY <2>5, WorkerStopsOK, RecoverOwnedOK, StartOK
  <2>6. CASE BatchTick
    BY <2>6, BatchTickOK
  <2> QED BY <1>1, <2>1, <2>2, <2>3, <2>4, <2>5, <2>6 DEF BatchNext, Executes
<1>2. CASE UNCHANGED bvars
  <2>1. UNCHANGED <<batch, item, worker, faults, missed, overwritten>>
    BY <1>2 DEF bvars
  <2>2. BatchTypeOK' /\ TablesOK'
    BY <2>1 DEF BatchInv, CoreInv, BatchTypeOK, TablesOK, BatchOverWithItems
  <2>3. LeasesOK' /\ HeartsOK'
    BY <2>1 DEF BatchInv, CoreInv, LeasesOK, AtWork, Holds, Running, HeartsOK, InTime, Loose
  <2>4. AdmissionBounded'
    BY <2>1 DEF BatchInv, CoreInv, AdmissionBounded, Live, Running, Feature, Leases
  <2>5. CoordinatesOK'
    BY <2>1 DEF BatchInv, CoordinatesOK, AtWork, Coordinates, Feature, Closes
  <2> QED BY <2>2, <2>3, <2>4, <2>5 DEF BatchInv, CoreInv
<1> QED BY <1>1, <1>2, StepCoordinates DEF BatchInv

(* The invariant holds of every behaviour. *)
THEOREM BatchInvariant == BatchSpec => []BatchInv
  BY InitBatchInv, StepBatchInv, PTL DEF BatchSpec

(* The two tables and the workers have their types; no lease is longer than *)
(* the code gives it.                                                       *)
THEOREM BatchTypes == BatchSpec => []BatchTypeOK
<1>1. BatchInv => BatchTypeOK
  BY DEF BatchInv, CoreInv
<1> QED BY <1>1, BatchInvariant, PTL

(* A batch is over exactly when all its items are, in whatever order        *)
(* finishes, retries, recoveries, cancellations and deletions refresh it.   *)
THEOREM BatchesAreOverWithTheirItems == BatchSpec => []BatchOverWithItems
<1>1. BatchInv => BatchOverWithItems
  BY DEF BatchInv, CoreInv, TablesOK
<1> QED BY <1>1, BatchInvariant, PTL

(* While heartbeats get through, a lane and a feature never have more       *)
(* leases at work than they admit, coordinated batches included, which take *)
(* all their items under one lease without a look at the limits, as long as *)
(* no completion from outside has ended an item under another's lease.      *)
THEOREM AdmissionIsBounded == BatchSpec => []AdmissionBounded
<1>1. BatchInv => AdmissionBounded
  BY DEF BatchInv, CoreInv
<1> QED BY <1>1, BatchInvariant, PTL

(* While heartbeats get through, a worker that runs an item holds it: no    *)
(* other worker was given it.                                               *)
THEOREM ItemsRunOnce == BatchSpec => []NoDoubleWork
<1>1. BatchInv => NoDoubleWork
  BY DEF BatchInv, CoreInv, HeartsOK, InTime, Loose, NoDoubleWork
<1> QED BY <1>1, BatchInvariant, PTL
-----------------------------------------------------------------------------
(* Results. *)
Stand(i) ==
    /\ item[i].status \in TERMINAL =>
          \/ item'[i].status = item[i].status \/ batch'[BatchOf[i]].status = "deleted"
          \/ EndedBlindly(i)
    /\ Running(i) /\ item'[i].status \in TERMINAL =>
          EndedByHolder(i) \/ EndedByRecovery(i) \/ EndedBlindly(i)

(* A step that ends no item that is running, and touches none that is over. *)
LEMMA NothingEnds ==
  ASSUME BatchInv,
         \A i \in Items : \/ item'[i].status = item[i].status
                          \/ item[i].status \notin TERMINAL /\ item'[i].status \notin TERMINAL
                          \/ item[i].status \in {"none", "queued"}
  PROVE  \A i \in Items : Stand(i)
  BY DEF Stand, Running, TERMINAL

(* A step that ends one item that its worker holds. *)
LEMMA HolderEnds ==
  ASSUME BatchInv, NEW w \in Workers, NEW i \in Items, Holds(i, worker[w].token),
         worker'[w].at = "idle" \/ worker[w].runs = "batch", \A k \in Items \ {i} : item'[k] = item[k]
  PROVE  \A k \in Items : Stand(k)
<1>1. item[i].status = "running" /\ EndedByHolder(i)
  BY DEF Holds, Running, EndedByHolder
<1>2. Stand(i)
  BY <1>1 DEF Stand, TERMINAL
<1>3. \A k \in Items \ {i} : Stand(k)
  BY DEF Stand, Running, TERMINAL
<1> QED BY <1>2, <1>3

LEMMA RecoveryEnds ==
  ASSUME BatchInv, NEW w \in Workers, worker[w].at \in {"stopping", "down"}, worker'[w].at # worker[w].at,
         NEW S \in SUBSET Items, \A i \in S : Running(i), Recover(S)
  PROVE  \A i \in Items : Stand(i)
<1>1. ASSUME NEW i \in Items
      PROVE  \/ item'[i] = item[i] \/ (i \in S /\ item'[i].status = "queued")
             \/ (i \in S \/ item[i].status = "queued") /\ batch[BatchOf[i]].cancel
  <2>1. Unleased(item[i]) \in ItemRec
    BY Typed, UnleasedRow
  <2>2. [Unleased(item[i]) EXCEPT !.status = "queued"].status = "queued"
    BY <2>1 DEF ItemRec
  <2> QED BY <2>2 DEF Recover
<1>2. \A i \in Items : batch[BatchOf[i]].cancel => EndedByRecovery(i)
  BY DEF EndedByRecovery
<1> QED BY <1>1, <1>2 DEF Stand, Running, TERMINAL

LEMMA StepStands ==
  ASSUME BatchInv, [BatchNext]_bvars
  PROVE  [\A i \in Items :
           /\ item[i].status \in TERMINAL =>
                 \/ item'[i].status = item[i].status \/ batch'[BatchOf[i]].status = "deleted"
                 \/ EndedBlindly(i)
           /\ Running(i) /\ item'[i].status \in TERMINAL =>
                 EndedByHolder(i) \/ EndedByRecovery(i) \/ EndedBlindly(i)]_bvars
<1> SUFFICES ASSUME BatchNext
             PROVE  \A i \in Items : Stand(i)
  BY DEF Stand
<1>1. CASE BatchTick
  <2>1. \A i \in Items : item'[i] = [item[i] EXCEPT !.left = Less(item[i].left),
                                                    !.wait = Less(item[i].wait)]
    BY <1>1, Typed DEF BatchTick
  <2>2. \A i \in Items : item[i] \in ItemRec
    BY Typed
  <2>3. \A r \in ItemRec : [r EXCEPT !.left = Less(r.left), !.wait = Less(r.wait)].status = r.status
    BY DEF ItemRec
  <2>4. \A i \in Items : item'[i].status = item[i].status
    BY <2>1, <2>2, <2>3
  <2> QED BY <2>4, NothingEnds
<1>2. CASE \E b \in Batches : Create(b)
  <2>1. PICK b \in Batches : Create(b)
    BY <1>2
  <2>2. \A i \in Items : BatchOf[i] = b => item[i].status = "none"
    BY <2>1, Typed DEF Create
  <2>3. \A i \in Items : BatchOf[i] # b => item'[i] = item[i]
    BY <2>1 DEF Create
  <2> QED BY <2>2, <2>3, NothingEnds
<1>3. CASE \E b \in Batches : Cancel(b)
  <2>1. \A i \in Items : item'[i] = item[i] \/ item[i].status = "queued"
    BY <1>3 DEF Cancel, CancelLeft
  <2> QED BY <2>1, NothingEnds
<1>4. CASE \E b \in Batches : Delete(b)
  <2>1. PICK b \in Batches : Delete(b)
    BY <1>4
  <2>2. \A i \in Items : BatchOf[i] = b =>
           /\ batch'[BatchOf[i]].status = "deleted" /\ item'[i].status = "none"
    BY <2>1, NoItemRow, Typed DEF Delete
  <2>3. \A i \in Items : BatchOf[i] # b => item'[i] = item[i]
    BY <2>1 DEF Delete
  <2> QED BY <2>2, <2>3 DEF Stand, Running, TERMINAL
<1>5. ASSUME NEW w \in Workers, Claim(w)
      PROVE  \A i \in Items : Stand(i)
  <2>1. PICK i \in Scanned :
           item' = [item EXCEPT ![i] = Leased(item[i], w, <<i, item[i].attempt + 1>>)]
    BY <1>5 DEF Claim
  <2> DEFINE t == <<i, item[i].attempt + 1>>
  <2>2. i \in Items /\ item[i].status \in ACTIVE
    BY DEF Scanned, Candidates, Claimable, Running, ACTIVE
  <2>a. item[i] \in ItemRec
    BY <2>2, Typed
  <2>b. item[i].attempt \in Nat
    BY <2>a DEF ItemRec
  <2>3. t \in Tokens
    BY <2>2, <2>b DEF Tokens
  <2>c. item' = [item EXCEPT ![i] = Leased(item[i], w, t)]
    BY <2>1
  <2> HIDE DEF t
  <2>4. Leased(item[i], w, t).status = "running"
    BY <2>2, <2>3, Typed, LeasedRow
  <2>5. \A k \in Items : item'[k] = item[k] \/ (item[k].status \in ACTIVE /\ item'[k].status = "running")
    BY <2>c, <2>2, <2>4, Typed
  <2> QED BY <2>5, NothingEnds DEF ACTIVE, TERMINAL
<1>6. ASSUME NEW w \in Workers, Beat(w)
      PROVE  \A i \in Items : Stand(i)
  <2>1. \A i \in Items : Renewed(item[i]).status = item[i].status
    BY Typed, RenewedRow
  <2>2. \A i \in Items : item'[i].status = item[i].status
    BY <1>6, <2>1, Typed DEF Beat
  <2> QED BY <2>2, NothingEnds
<1>7. ASSUME NEW w \in Workers, ClaimMates(w)
      PROVE  \A i \in Items : Stand(i)
  <2>1. \A i \in Items : item'[i] = item[i] \/ item[i].status = "queued"
    BY <1>7 DEF ClaimMates
  <2> QED BY <2>1, NothingEnds
<1>8. ASSUME NEW w \in Workers, WriteExternal(w)
      PROVE  \A i \in Items : Stand(i)
  <2>1. PICK i \in worker[w].closing : /\ worker' = [worker EXCEPT ![w].closing = worker[w].closing \ {i}]
                                       /\ \A k \in Items \ {i} : item'[k] = item[k]
    BY <1>8, Typed DEF WriteExternal
  <2>2. worker[w].at = "working"
    BY <2>1 DEF BatchInv, CoordinatesOK, Closes
  <2>3. worker'[w].at = "working" /\ i \in worker[w].closing \ worker'[w].closing
    BY <2>1, <2>2, Typed DEF WorkerRec
  <2>4. Stand(i)
    BY <2>2, <2>3 DEF Stand, EndedBlindly
  <2>5. \A k \in Items \ {i} : Stand(k)
    BY <2>1 DEF Stand, Running, TERMINAL
  <2> QED BY <2>4, <2>5
<1>9. ASSUME NEW w \in Workers, FinishWrite(w)
      PROVE  \A i \in Items : Stand(i)
  <2> DEFINE i == worker[w].item
  <2>1. i \in Items /\ Holds(i, worker[w].token) /\ worker[w].at = "writing"
    BY <1>9, Typed DEF FinishWrite, BatchInv, CoreInv, LeasesOK, AtWork
  <2>2. \A k \in Items \ {i} : item'[k] = item[k]
    BY <1>9, <2>1, Typed DEF FinishWrite
  <2>3. worker'[w].at = "idle"
    BY <1>9, RestingWorker, Typed DEF FinishWrite
  <2> QED BY <2>1, <2>2, <2>3, HolderEnds
<1>10. ASSUME NEW w \in Workers, RecoverOwned(w)
       PROVE  \A i \in Items : Stand(i)
  <2>1. worker[w].at = "stopping" /\ worker' = [worker EXCEPT ![w].at = "down"]
    BY <1>10 DEF RecoverOwned
  <2>2. worker'[w].at = "down"
    BY <2>1, Typed DEF WorkerRec
  <2> QED BY <1>10, <2>1, <2>2, RecoveryEnds DEF RecoverOwned
<1>11. ASSUME NEW w \in Workers, Start(w)
       PROVE  \A i \in Items : Stand(i)
  <2>1. worker[w].at = "down" /\ worker'[w].at = "idle"
    BY <1>11, RestingWorker, Typed DEF Start
  <2> QED BY <1>11, <2>1, RecoveryEnds DEF Start
<1>12. ASSUME NEW w \in Workers,
              BeatFails(w) \/ ReadExternal(w) \/ FinishRead(w) \/ FinishFails(w) \/ Stop(w) \/ Crash(w)
       PROVE  \A i \in Items : Stand(i)
  <2>1. item' = item
    BY <1>12 DEF BeatFails, ReadExternal, FinishRead, FinishFails, Stop, Crash
  <2> QED BY <2>1, NothingEnds
<1> QED BY <1>1, <1>2, <1>3, <1>4, <1>5, <1>6, <1>7, <1>8, <1>9, <1>10, <1>11, <1>12 DEF BatchNext, Executes

(* An item that is over keeps its result until its batch is deleted, and    *)
(* only the holder of its lease, or the recovery of a cancelled batch, ends *)
(* an item that is running: no worker that has lost it, no cancellation.    *)
(* The one exception is a completion that found its worker to hold the item *)
(* and writes it when that is no longer so.                                 *)
THEOREM ResultsAreKept == BatchSpec => ResultsStand
  BY BatchInvariant, StepStands, PTL DEF BatchSpec, ResultsStand
=============================================================================
