---------------------------- MODULE ServicesProofs ----------------------------
(***************************************************************************)
(* What the admission queue of the missions guarantees, for any number of   *)
(* missions, lanes and slots.                                               *)
(*                                                                         *)
(* The model dispatches at most one mission at a time.  That is exact       *)
(* because nobody who could go on waits (NoneWaits), which is inductive     *)
(* with the caps: a mission that comes is the only one that may go on, and  *)
(* a slot that is given back makes room for one (Refilled).                 *)
(*                                                                         *)
(* At the end, the three services that share nothing, side by side.         *)
(***************************************************************************)
EXTENDS Services, ChangeLedgerProofs, SequenceTheorems

Room(held, l) == Cardinality(held) < MaxGlobal /\ Cardinality(InLane(held, l)) < MaxPerLane
Distinct(queue) == \A i, j \in DOMAIN queue : queue[i] = queue[j] => i = j
Capped(held) ==
    /\ IsFiniteSet(held) /\ Cardinality(held) <= MaxGlobal
    /\ \A n \in Missions : Cardinality(InLane(held, Lane[n])) <= MaxPerLane

QueueInv ==
    /\ pending \in Seq(Missions) /\ Distinct(pending)
    /\ \A i \in DOMAIN pending : mission[pending[i]].at = "queued" /\ pending[i] \notin active
SlotsInv ==
    /\ \A m \in active : \/ mission[m].at = "queued"
                         \/ mission[m].at \in {"running", "final"} /\ mission[m].admitted
                         \/ mission[m].at = "ended" /\ m \in leaked
    /\ \A m \in Missions : mission[m].at \in {"running", "final"} /\ mission[m].admitted => m \in active
    /\ \A m \in Missions : mission[m].at = "running" => mission[m].admitted
    /\ \A m \in Missions : mission[m].at \in {"created", "queued"} => ~mission[m].admitted
    /\ \A m \in leaked : mission[m].at = "ended"
NoneWaits == \A i \in DOMAIN pending : ~Room(active, Lane[pending[i]])
MissionInv == MissionTypeOK /\ QueueInv /\ SlotsInv /\ Capped(active) /\ NoneWaits
-----------------------------------------------------------------------------
(* Queues. *)

LEMMA TakenFrom ==
  ASSUME NEW queue \in Seq(Missions), Distinct(queue), NEW i \in DOMAIN queue
  PROVE  /\ Taken(queue, i) \in Seq(Missions) /\ Distinct(Taken(queue, i))
         /\ \A k \in DOMAIN Taken(queue, i) : \E j \in DOMAIN queue : j # i /\ Taken(queue, i)[k] = queue[j]
<1>1. DOMAIN queue = 1..Len(queue) /\ Len(queue) \in Nat /\ i \in 1..Len(queue)
      /\ \A j \in 1..Len(queue) : queue[j] \in Missions
  BY LenProperties, ElementOfSeq
<1> DEFINE left == SubSeq(queue, 1, i - 1)
           right == SubSeq(queue, i + 1, Len(queue))
<1>2. /\ left \in Seq(Missions) /\ Len(left) = i - 1
      /\ \A k \in 1..i - 1 : left[k] = queue[k]
  <2>1. \A k \in 1..i - 1 : queue[k] \in Missions
    BY <1>1
  <2>2. /\ left \in Seq(Missions) /\ Len(left) = IF 1 <= i - 1 THEN (i - 1) - 1 + 1 ELSE 0
        /\ \A k \in 1..(i - 1) - 1 + 1 : left[k] = queue[1 + k - 1]
    BY <1>1, <2>1, SubSeqProperties
  <2> HIDE DEF left
  <2> QED BY <1>1, <2>2
<1>3. /\ right \in Seq(Missions) /\ Len(right) = Len(queue) - i
      /\ \A k \in 1..Len(queue) - i : right[k] = queue[i + k]
  <2>1. \A k \in i + 1..Len(queue) : queue[k] \in Missions
    BY <1>1
  <2>2. /\ right \in Seq(Missions)
        /\ Len(right) = IF i + 1 <= Len(queue) THEN Len(queue) - (i + 1) + 1 ELSE 0
        /\ \A k \in 1..Len(queue) - (i + 1) + 1 : right[k] = queue[(i + 1) + k - 1]
    BY <1>1, <2>1, SubSeqProperties
  <2> HIDE DEF right
  <2>3. Len(queue) - (i + 1) + 1 = Len(queue) - i /\ (i + 1 <= Len(queue) <=> Len(queue) - i # 0)
    BY <1>1
  <2>4. Len(right) = Len(queue) - i
    BY <1>1, <2>2, <2>3
  <2>5. ASSUME NEW k \in 1..Len(queue) - i
        PROVE  right[k] = queue[i + k]
    <3>1. (i + 1) + k - 1 = i + k
      BY <1>1
    <3>2. right[k] = queue[(i + 1) + k - 1]
      BY <2>2, <2>3
    <3> QED BY <3>1, <3>2
  <2> QED BY <2>2, <2>4, <2>5
<1>4. Taken(queue, i) = left \o right
  BY DEF Taken
<1> HIDE DEF left, right
<1> DEFINE taken == left \o right
<1>5. /\ taken \in Seq(Missions) /\ Len(taken) = Len(queue) - 1
      /\ \A k \in 1..Len(queue) - 1 : taken[k] = IF k <= i - 1 THEN left[k] ELSE right[k - (i - 1)]
  <2>1. Len(left) + Len(right) = Len(queue) - 1
    BY <1>1, <1>2, <1>3
  <2>2. /\ taken \in Seq(Missions) /\ Len(taken) = Len(left) + Len(right)
        /\ \A k \in 1..Len(left) + Len(right) :
              taken[k] = IF k <= Len(left) THEN left[k] ELSE right[k - Len(left)]
    BY <1>2, <1>3, ConcatProperties
  <2> HIDE DEF taken
  <2> QED BY <1>2, <2>1, <2>2
<1>6. DOMAIN taken = 1..Len(queue) - 1
  BY <1>5, LenProperties
<1> HIDE DEF taken
<1>7. ASSUME NEW k \in DOMAIN taken
      PROVE  LET j == IF k <= i - 1 THEN k ELSE k + 1
             IN  j \in DOMAIN queue /\ j # i /\ taken[k] = queue[j]
  <2>1. k \in Nat /\ k >= 1 /\ k <= Len(queue) - 1
    BY <1>1, <1>6
  <2>2. CASE k <= i - 1
    BY <1>1, <1>2, <1>5, <1>6, <2>1, <2>2
  <2>3. CASE ~(k <= i - 1)
    <3>1. k - (i - 1) \in 1..Len(queue) - i /\ i + (k - (i - 1)) = k + 1
      BY <1>1, <2>1, <2>3
    <3>2. taken[k] = queue[k + 1]
      BY <1>3, <1>5, <1>6, <2>3, <3>1
    <3> QED BY <1>1, <2>1, <2>3, <3>2
  <2> QED BY <2>2, <2>3
<1>8. Distinct(taken)
  <2> SUFFICES ASSUME NEW k \in DOMAIN taken, NEW l \in DOMAIN taken, taken[k] = taken[l]
               PROVE  k = l
    BY DEF Distinct
  <2> DEFINE j(x) == IF x <= i - 1 THEN x ELSE x + 1
  <2>1. j(k) = j(l)
    BY <1>7 DEF Distinct
  <2> QED BY <1>1, <1>6, <2>1
<1> QED BY <1>4, <1>5, <1>7, <1>8 DEF taken
-----------------------------------------------------------------------------
(* Room. *)

LEMMA LaneFinite ==
  ASSUME NEW held, IsFiniteSet(held), NEW l
  PROVE  /\ IsFiniteSet(InLane(held, l)) /\ Cardinality(InLane(held, l)) \in Nat
         /\ Cardinality(held) \in Nat
<1>1. InLane(held, l) \in SUBSET held
  BY DEF InLane
<1> QED BY <1>1, FS_Subset, FS_CardinalityType

(* A slot more is held: nobody has more room. *)
LEMMA LessRoom ==
  ASSUME NEW held, IsFiniteSet(held), NEW n, NEW l, ~Room(held, l)
  PROVE  ~Room(held \union {n}, l)
<1>1. IsFiniteSet(held \union {n})
  BY FS_AddElement
<1>2. held \in SUBSET (held \union {n}) /\ InLane(held, l) \in SUBSET InLane(held \union {n}, l)
  BY DEF InLane
<1>3. /\ Cardinality(held) <= Cardinality(held \union {n})
      /\ Cardinality(InLane(held, l)) <= Cardinality(InLane(held \union {n}, l))
  BY <1>1, <1>2, LaneFinite, FS_Subset
<1>4. /\ Cardinality(held) \in Nat /\ Cardinality(held \union {n}) \in Nat
      /\ Cardinality(InLane(held, l)) \in Nat /\ Cardinality(InLane(held \union {n}, l)) \in Nat
  BY <1>1, LaneFinite
<1> QED BY <1>3, <1>4, MissionAssumption DEF Room

(* A slot is given back and goes to a mission that had to wait for it:      *)
(* those that had no room still have none.                                  *)
LEMMA Refilled ==
  ASSUME NEW held, IsFiniteSet(held), NEW m \in held, NEW n, n \notin held,
         ~Room(held, Lane[n]), Room(held \ {m}, Lane[n]), NEW l, ~Room(held, l)
  PROVE  ~Room((held \ {m}) \union {n}, l)
<1> DEFINE rest == held \ {m}
<1>1. IsFiniteSet(rest) /\ Cardinality(rest) = Cardinality(held) - 1
  BY FS_RemoveElement
<1>2. Cardinality(rest \union {n}) = Cardinality(held)
  <2>1. Cardinality(held) \in Nat /\ n \notin rest
    BY FS_CardinalityType
  <2>2. Cardinality(rest \union {n}) = Cardinality(rest) + 1
    BY <1>1, <2>1, FS_AddElement
  <2> QED BY <1>1, <2>1, <2>2
<1>3. CASE ~(Cardinality(held) < MaxGlobal)
  BY <1>2, <1>3 DEF Room
<1>4. CASE Cardinality(held) < MaxGlobal
  <2>1. Lane[m] = Lane[n]
    <3> SUFFICES ASSUME Lane[m] # Lane[n] PROVE FALSE
      OBVIOUS
    <3>1. InLane(rest, Lane[n]) = InLane(held, Lane[n])
      BY DEF InLane
    <3> QED BY <1>4, <3>1 DEF Room
  <2>2. CASE l # Lane[m]
    <3>1. InLane(rest \union {n}, l) = InLane(held, l)
      BY <2>1, <2>2 DEF InLane
    <3> QED BY <1>4, <3>1 DEF Room
  <2>3. CASE l = Lane[m]
    <3>1. /\ InLane(rest \union {n}, l) = (InLane(held, l) \ {m}) \union {n}
          /\ m \in InLane(held, l) /\ n \notin InLane(held, l) \ {m}
      BY <2>1, <2>3 DEF InLane
    <3>2. /\ IsFiniteSet(InLane(held, l) \ {m}) /\ Cardinality(InLane(held, l)) \in Nat
          /\ Cardinality(InLane(held, l) \ {m}) = Cardinality(InLane(held, l)) - 1
      BY <3>1, LaneFinite, FS_RemoveElement
    <3>3. Cardinality(InLane(rest \union {n}, l)) = Cardinality(InLane(held, l))
      <4> DEFINE lane == InLane(held, l) \ {m}
      <4>1. Cardinality(lane \union {n}) = Cardinality(lane) + 1
        BY <3>1, <3>2, FS_AddElement
      <4>2. Cardinality(lane) + 1 = Cardinality(InLane(held, l))
        BY <3>2
      <4> QED BY <3>1, <4>1, <4>2
    <3> QED BY <1>4, <3>3 DEF Room
  <2> QED BY <2>2, <2>3
<1> QED BY <1>3, <1>4

LEMMA OneMore ==
  ASSUME NEW held \in SUBSET Missions, Capped(held), NEW n \in Missions, Room(held, Lane[n])
  PROVE  Capped(held \union {n})
<1>1. IsFiniteSet(held) /\ IsFiniteSet(held \union {n})
  BY FS_AddElement DEF Capped
<1>2. Cardinality(held \union {n}) <= MaxGlobal
  <2>1. Cardinality(held \union {n}) <= Cardinality(held) + 1 /\ Cardinality(held) \in Nat
    BY <1>1, FS_AddElement, FS_CardinalityType
  <2>2. Cardinality(held \union {n}) \in Nat
    BY <1>1, FS_CardinalityType
  <2> QED BY <2>1, <2>2, MissionAssumption DEF Room
<1>3. ASSUME NEW k \in Missions
      PROVE  Cardinality(InLane(held \union {n}, Lane[k])) <= MaxPerLane
  <2>1. CASE Lane[k] # Lane[n]
    <3>1. InLane(held \union {n}, Lane[k]) = InLane(held, Lane[k])
      BY <2>1 DEF InLane
    <3> QED BY <3>1 DEF Capped
  <2>2. CASE Lane[k] = Lane[n]
    <3>1. InLane(held \union {n}, Lane[k]) = InLane(held, Lane[n]) \union {n}
      BY <2>2 DEF InLane
    <3>2. IsFiniteSet(InLane(held, Lane[n])) /\ Cardinality(InLane(held, Lane[n])) \in Nat
      BY <1>1, LaneFinite
    <3>3. /\ IsFiniteSet(InLane(held, Lane[n]) \union {n})
          /\ Cardinality(InLane(held, Lane[n]) \union {n}) <= Cardinality(InLane(held, Lane[n])) + 1
      <4> DEFINE lane == InLane(held, Lane[n])
      <4>1. /\ IsFiniteSet(lane \union {n})
            /\ Cardinality(lane \union {n}) = IF n \in lane THEN Cardinality(lane) ELSE Cardinality(lane) + 1
        BY <3>2, FS_AddElement
      <4> HIDE DEF lane
      <4>2. Cardinality(lane \union {n}) <= Cardinality(lane) + 1
        BY <3>2, <4>1 DEF lane
      <4> QED BY <4>1, <4>2 DEF lane
    <3>4. Cardinality(InLane(held, Lane[n]) \union {n}) \in Nat
      BY <3>3, FS_CardinalityType
    <3>5. Cardinality(InLane(held, Lane[n])) < MaxPerLane /\ MaxPerLane \in Nat
      BY MissionAssumption DEF Room
    <3>6. Cardinality(InLane(held, Lane[n]) \union {n}) <= MaxPerLane
      BY <3>2, <3>3, <3>4, <3>5
    <3> QED BY <3>1, <3>6
  <2> QED BY <2>1, <2>2
<1> QED BY <1>1, <1>2, <1>3 DEF Capped

LEMMA OneLess ==
  ASSUME NEW held \in SUBSET Missions, Capped(held), NEW m
  PROVE  Capped(held \ {m})
<1>1. /\ IsFiniteSet(held) /\ held \ {m} \in SUBSET held
      /\ \A l : InLane(held \ {m}, l) \in SUBSET InLane(held, l)
  BY DEF Capped, InLane
<1>2. IsFiniteSet(held \ {m}) /\ Cardinality(held \ {m}) <= Cardinality(held)
  BY <1>1, FS_Subset
<1>3. \A l : Cardinality(InLane(held \ {m}, l)) <= Cardinality(InLane(held, l))
  BY <1>1, LaneFinite, FS_Subset
<1>4. \A l : /\ Cardinality(InLane(held \ {m}, l)) \in Nat /\ Cardinality(InLane(held, l)) \in Nat
             /\ Cardinality(held \ {m}) \in Nat /\ Cardinality(held) \in Nat
  BY <1>1, <1>2, LaneFinite
<1> QED BY <1>2, <1>3, <1>4, MissionAssumption DEF Capped
-----------------------------------------------------------------------------
LEMMA LeastNatural ==
  ASSUME NEW T, T \subseteq Nat, T # {}
  PROVE  \E x \in T : \A y \in T : x <= y
<1> DEFINE less == {p \in Nat \X Nat : p[1] < p[2]}
<1>1. IsWellFoundedOn(less, Nat)
  BY NatLessThanWellFounded DEF OpToRel
<1>2. \A x, y \in Nat : y < x => <<y, x>> \in less
  OBVIOUS
<1> HIDE DEF less
<1>3. PICK x \in T : \A y \in T : ~(<<y, x>> \in less)
  BY <1>1, WFMin
<1>4. \A y \in T : ~(y < x)
  BY <1>2, <1>3
<1> QED BY <1>4

(* A dispatch, when one mission at most may go on. *)

LEMMA Dispatched ==
  ASSUME NEW queue \in Seq(Missions), Distinct(queue), NEW held \in SUBSET Missions, Capped(held),
         \A i \in DOMAIN queue : queue[i] \notin held,
         \A i, j \in DOMAIN queue :
            i # j /\ Room(held, Lane[queue[i]]) => ~Room(held \union {queue[i]}, Lane[queue[j]]),
         Dispatch(queue, held)
  PROVE  /\ pending' \in Seq(Missions) /\ Distinct(pending')
         /\ \A k \in DOMAIN pending' : /\ \E j \in DOMAIN queue : pending'[k] = queue[j]
                                       /\ pending'[k] \notin active'
         /\ active' \subseteq Missions /\ Capped(active') /\ held \subseteq active'
         /\ \A n \in active' : n \in held \/ \E j \in DOMAIN queue : n = queue[j]
         /\ NoneWaits'
<1> DEFINE eligible == Eligible(queue, held)
<1>1. \A i \in DOMAIN queue : i \in eligible <=> Room(held, Lane[queue[i]])
  BY DEF Eligible, Room
<1>2. DOMAIN queue = 1..Len(queue) /\ Len(queue) \in Nat /\ \A i \in DOMAIN queue : queue[i] \in Missions
  BY LenProperties, ElementOfSeq
<1>3. CASE eligible = {}
  <2>1. pending' = queue /\ active' = held
    BY <1>3 DEF Dispatch
  <2>2. NoneWaits'
    BY <1>1, <1>3, <2>1 DEF NoneWaits
  <2> QED BY <2>1, <2>2
<1>4. CASE eligible # {}
  <2> DEFINE first == CHOOSE i \in eligible : \A j \in eligible : i <= j
  <2>1. eligible \subseteq DOMAIN queue
    BY DEF Eligible
  <2>2. first \in eligible
    <3>1. \E i \in eligible : \A j \in eligible : i <= j
      BY <1>2, <1>4, <2>1, LeastNatural
    <3> QED BY <3>1
  <2> DEFINE n == queue[first]
  <2>3. pending' = Taken(queue, first) /\ active' = held \union {n}
    BY <1>4 DEF Dispatch
  <2>4. first \in DOMAIN queue /\ n \in Missions /\ Room(held, Lane[n]) /\ n \notin held
    BY <1>1, <1>2, <2>1, <2>2
  <2> HIDE DEF first, eligible
  <2>5. /\ pending' \in Seq(Missions) /\ Distinct(pending')
        /\ \A k \in DOMAIN pending' : \E j \in DOMAIN queue : j # first /\ pending'[k] = queue[j]
    BY <2>3, <2>4, TakenFrom
  <2>6. Capped(active')
    BY <2>3, <2>4, OneMore
  <2>7. ASSUME NEW k \in DOMAIN pending'
        PROVE  /\ \E j \in DOMAIN queue : pending'[k] = queue[j]
               /\ pending'[k] \notin active' /\ ~Room(active', Lane[pending'[k]])
    <3>1. PICK j \in DOMAIN queue : j # first /\ pending'[k] = queue[j]
      BY <2>5
    <3>2. queue[j] # n /\ queue[j] \notin held
      BY <2>4, <3>1 DEF Distinct
    <3>3. ~Room(held \union {n}, Lane[queue[j]])
      BY <2>4, <3>1
    <3> QED BY <2>3, <3>1, <3>2, <3>3
  <2> QED BY <2>3, <2>4, <2>5, <2>6, <2>7 DEF NoneWaits
<1> QED BY <1>3, <1>4
-----------------------------------------------------------------------------
(* The steps. *)

(* What is left to show when a queue was dispatched: the missions that are  *)
(* in it are queued, and the slots are held by whom they should be.         *)
LEMMA MissionTypes ==
  ASSUME MissionInv
  PROVE  /\ mission \in [Missions -> MissionRec] /\ active \subseteq Missions /\ leaked \subseteq active
         /\ pending \in Seq(Missions) /\ DOMAIN pending = 1..Len(pending) /\ Len(pending) \in Nat
         /\ \A i \in DOMAIN pending : pending[i] \in Missions
  BY LenProperties, ElementOfSeq DEF MissionInv, MissionTypeOK, QueueInv

LEMMA GoesTo ==
  ASSUME MissionInv, NEW m \in Missions, NEW at \in {"queued", "final", "ended"}, Goes(m, at)
  PROVE  /\ mission' \in [Missions -> MissionRec]
         /\ mission'[m].at = at /\ mission'[m].admitted = mission[m].admitted
         /\ \A n \in Missions \ {m} : mission'[n] = mission[n]
<1> DEFINE rec == [mission[m] EXCEPT !.at = at, !.hit = FALSE]
<1>1. mission \in [Missions -> MissionRec] /\ mission[m] \in MissionRec
  BY DEF MissionInv, MissionTypeOK
<1>2. mission' = [mission EXCEPT ![m] = rec]
  BY DEF Goes
<1>3. rec \in MissionRec /\ rec.at = at /\ rec.admitted = mission[m].admitted
  BY <1>1 DEF MissionRec
<1> HIDE DEF rec
<1> QED BY <1>1, <1>2, <1>3

(* A mission that gave back its slot, or had none; one that waited may go.  *)
LEMMA RestDispatched ==
  ASSUME MissionInv, NEW m \in Missions, NEW queue \in Seq(Missions), Distinct(queue),
         \A i \in DOMAIN queue : queue[i] # m /\ \E j \in DOMAIN pending : queue[i] = pending[j],
         Dispatch(queue, active \ {m})
  PROVE  /\ pending' \in Seq(Missions) /\ Distinct(pending')
         /\ \A k \in DOMAIN pending' : /\ \E j \in DOMAIN pending : pending'[k] = pending[j]
                                       /\ pending'[k] # m /\ pending'[k] \notin active'
         /\ active' \subseteq Missions /\ Capped(active') /\ active \ {m} \subseteq active'
         /\ m \notin active'
         /\ \A n \in active' : n \in active \ {m} \/ \E j \in DOMAIN pending : n = pending[j]
         /\ NoneWaits'
<1>1. active \ {m} \in SUBSET Missions /\ Capped(active \ {m})
  BY OneLess DEF MissionInv, MissionTypeOK
<1>2. ASSUME NEW i \in DOMAIN queue
      PROVE  /\ queue[i] \in Missions /\ queue[i] \notin active /\ ~Room(active, Lane[queue[i]])
  BY MissionTypes DEF MissionInv, QueueInv, NoneWaits
<1>3. ASSUME NEW i \in DOMAIN queue, NEW j \in DOMAIN queue, Room(active \ {m}, Lane[queue[i]])
      PROVE  ~Room((active \ {m}) \union {queue[i]}, Lane[queue[j]])
  <2>1. m \in active
    <3> SUFFICES ASSUME m \notin active PROVE FALSE
      OBVIOUS
    <3>1. active \ {m} = active
      OBVIOUS
    <3> QED BY <1>2, <1>3, <3>1
  <2>2. IsFiniteSet(active)
    BY DEF MissionInv, Capped
  <2> QED BY <1>2, <1>3, <2>1, <2>2, Refilled
<1>4. \A i \in DOMAIN queue : queue[i] \notin active \ {m}
  BY <1>2
<1>5. /\ pending' \in Seq(Missions) /\ Distinct(pending')
      /\ \A k \in DOMAIN pending' : /\ \E j \in DOMAIN queue : pending'[k] = queue[j]
                                    /\ pending'[k] \notin active'
      /\ active' \subseteq Missions /\ Capped(active') /\ active \ {m} \subseteq active'
      /\ \A n \in active' : n \in active \ {m} \/ \E j \in DOMAIN queue : n = queue[j]
      /\ NoneWaits'
  BY <1>1, <1>3, <1>4, Dispatched
<1> QED BY <1>5

LEMMA EnqueueOK ==
  ASSUME MissionInv, NEW m \in Missions, Enqueue(m)
  PROVE  MissionInv'
<1> USE MissionTypes
<1>1. mission[m].at = "created" /\ ~mission[m].admitted /\ m \notin active /\ leaked' = leaked
  BY DEF Enqueue, MissionInv, SlotsInv
<1>2. \A i \in DOMAIN pending : pending[i] # m
  BY <1>1 DEF MissionInv, QueueInv
<1>3. CASE mission[m].hit
  <2>1. /\ mission' \in [Missions -> MissionRec]
        /\ mission'[m].at = "ended" /\ mission'[m].admitted = mission[m].admitted
        /\ \A n \in Missions \ {m} : mission'[n] = mission[n]
    BY <1>3, GoesTo DEF Enqueue
  <2>2. UNCHANGED <<pending, active, leaked>>
    BY <1>3 DEF Enqueue
  <2>3. MissionTypeOK' /\ QueueInv' /\ Capped(active') /\ NoneWaits'
    BY <1>2, <2>1, <2>2 DEF MissionInv, MissionTypeOK, QueueInv, NoneWaits
  <2>4. SlotsInv'
    BY <1>1, <2>1, <2>2 DEF MissionInv, SlotsInv
  <2> QED BY <2>3, <2>4 DEF MissionInv
<1>4. CASE ~mission[m].hit
  <2> DEFINE queue == Append(pending, m)
  <2>1. /\ mission' \in [Missions -> MissionRec]
        /\ mission'[m].at = "queued" /\ mission'[m].admitted = mission[m].admitted
        /\ \A n \in Missions \ {m} : mission'[n] = mission[n]
    BY <1>4, GoesTo DEF Enqueue
  <2>2. Dispatch(queue, active)
    BY <1>4 DEF Enqueue
  <2>3. /\ queue \in Seq(Missions) /\ Len(queue) = Len(pending) + 1
        /\ \A i \in 1..Len(pending) : queue[i] = pending[i]
        /\ queue[Len(pending) + 1] = m
    BY AppendProperties
  <2>4. DOMAIN queue = 1..Len(pending) + 1
    BY <2>3, LenProperties
  <2> HIDE DEF queue
  <2>5. \A i \in DOMAIN queue : (i \in DOMAIN pending /\ queue[i] = pending[i]) \/ (i = Len(pending) + 1 /\ queue[i] = m)
    BY <2>3, <2>4
  <2>6. Distinct(queue)
    BY <1>2, <2>5 DEF Distinct, MissionInv, QueueInv
  <2>7. \A i \in DOMAIN queue : queue[i] \notin active
    BY <1>1, <2>5 DEF MissionInv, QueueInv
  <2>8. ASSUME NEW i \in DOMAIN queue, NEW j \in DOMAIN queue, i # j, Room(active, Lane[queue[i]])
        PROVE  ~Room(active \union {queue[i]}, Lane[queue[j]])
    <3>1. queue[i] = m /\ j \in DOMAIN pending /\ queue[j] = pending[j]
      BY <2>5, <2>8 DEF MissionInv, NoneWaits
    <3>2. ~Room(active, Lane[queue[j]])
      BY <3>1 DEF MissionInv, NoneWaits
    <3> QED BY <3>2, LessRoom DEF MissionInv, Capped
  <2>9. /\ pending' \in Seq(Missions) /\ Distinct(pending')
        /\ \A k \in DOMAIN pending' : /\ \E j \in DOMAIN queue : pending'[k] = queue[j]
                                      /\ pending'[k] \notin active'
        /\ active' \subseteq Missions /\ Capped(active') /\ active \subseteq active'
        /\ \A n \in active' : n \in active \/ \E j \in DOMAIN queue : n = queue[j]
        /\ NoneWaits'
    BY <2>2, <2>3, <2>6, <2>7, <2>8, Dispatched DEF MissionInv
  <2>10. \A j \in DOMAIN queue : mission'[queue[j]].at = "queued" /\ ~mission'[queue[j]].admitted
    BY <1>1, <1>2, <2>1, <2>5 DEF MissionInv, QueueInv, SlotsInv
  <2>11. MissionTypeOK'
    BY <1>1, <2>1, <2>9, LenProperties, ElementOfSeq DEF MissionTypeOK, Distinct
  <2>12. QueueInv'
    BY <2>9, <2>10 DEF QueueInv
  <2>13. SlotsInv'
    BY <1>1, <2>1, <2>9, <2>10 DEF MissionInv, SlotsInv
  <2> QED BY <2>9, <2>11, <2>12, <2>13 DEF MissionInv
<1> QED BY <1>3, <1>4

LEMMA AcquireCancelledOK ==
  ASSUME MissionInv, NEW m \in Missions, AcquireCancelled(m)
  PROVE  MissionInv'
<1> USE MissionTypes
<1>1. /\ mission[m].at = "queued" /\ ~mission[m].admitted /\ m \notin leaked /\ leaked' = leaked
      /\ Dispatch(Without(m), active \ {m})
  BY DEF AcquireCancelled, GivenBack, MissionInv, SlotsInv
<1>2. /\ mission' \in [Missions -> MissionRec]
      /\ mission'[m].at = "final" /\ mission'[m].admitted = mission[m].admitted
      /\ \A n \in Missions \ {m} : mission'[n] = mission[n]
  BY GoesTo DEF AcquireCancelled
<1> DEFINE queue == Without(m)
           at == {i \in DOMAIN pending : pending[i] = m}
<1>3. /\ queue \in Seq(Missions) /\ Distinct(queue)
      /\ \A i \in DOMAIN queue : queue[i] # m /\ \E j \in DOMAIN pending : queue[i] = pending[j]
  <2>1. CASE at = {}
    BY <2>1 DEF Without, MissionInv, QueueInv
  <2>2. CASE at # {}
    <3> DEFINE place == CHOOSE i \in at : TRUE
    <3>1. place \in DOMAIN pending /\ pending[place] = m
      BY <2>2
    <3>2. queue = Taken(pending, place)
      BY <2>2 DEF Without
    <3> HIDE DEF place, queue
    <3>3. /\ queue \in Seq(Missions) /\ Distinct(queue)
          /\ \A k \in DOMAIN queue : \E j \in DOMAIN pending : j # place /\ queue[k] = pending[j]
      BY <3>1, <3>2, TakenFrom DEF MissionInv, QueueInv
    <3> QED BY <3>1, <3>3 DEF MissionInv, QueueInv, Distinct
  <2> QED BY <2>1, <2>2
<1> HIDE DEF queue
<1>4. /\ pending' \in Seq(Missions) /\ Distinct(pending')
      /\ \A k \in DOMAIN pending' : /\ \E j \in DOMAIN pending : pending'[k] = pending[j]
                                    /\ pending'[k] # m /\ pending'[k] \notin active'
      /\ active' \subseteq Missions /\ Capped(active') /\ active \ {m} \subseteq active'
      /\ m \notin active'
      /\ \A n \in active' : n \in active \ {m} \/ \E j \in DOMAIN pending : n = pending[j]
      /\ NoneWaits'
  BY <1>1, <1>3, RestDispatched DEF queue
<1>5. MissionTypeOK'
  BY <1>1, <1>2, <1>4, LenProperties, ElementOfSeq DEF MissionTypeOK, Distinct
<1>6. QueueInv'
  BY <1>2, <1>4 DEF MissionInv, QueueInv
<1>7. SlotsInv'
  <2>1. ~mission'[m].admitted
    BY <1>1, <1>2
  <2>2. ASSUME NEW n \in active'
        PROVE  \/ mission'[n].at = "queued"
               \/ mission'[n].at \in {"running", "final"} /\ mission'[n].admitted
               \/ mission'[n].at = "ended" /\ n \in leaked'
    <3>1. n # m /\ n \in Missions /\ mission'[n] = mission[n]
      BY <1>2, <1>4
    <3>2. n \in active \/ mission[n].at = "queued"
      BY <1>4 DEF MissionInv, QueueInv
    <3> QED BY <1>1, <3>1, <3>2 DEF MissionInv, SlotsInv
  <2>3. \A n \in Missions : mission'[n].at \in {"running", "final"} /\ mission'[n].admitted => n \in active'
    BY <1>2, <1>4, <2>1 DEF MissionInv, SlotsInv
  <2>4. /\ \A n \in Missions : mission'[n].at = "running" => mission'[n].admitted
        /\ \A n \in Missions : mission'[n].at \in {"created", "queued"} => ~mission'[n].admitted
        /\ \A n \in leaked' : mission'[n].at = "ended"
    BY <1>1, <1>2 DEF MissionInv, SlotsInv
  <2> QED BY <2>2, <2>3, <2>4 DEF SlotsInv
<1> QED BY <1>4, <1>5, <1>6, <1>7 DEF MissionInv

LEMMA SavedOK ==
  ASSUME MissionInv, NEW m \in Missions, Saved(m)
  PROVE  MissionInv'
<1> USE MissionTypes
<1>1. /\ mission[m].at = "final" /\ m \notin leaked
      /\ \A i \in DOMAIN pending : pending[i] # m
  BY DEF Saved, MissionInv, SlotsInv, QueueInv
<1>2. /\ mission' \in [Missions -> MissionRec]
      /\ mission'[m].at = "ended" /\ mission'[m].admitted = mission[m].admitted
      /\ \A n \in Missions \ {m} : mission'[n] = mission[n]
  BY GoesTo DEF Saved
<1>3. CASE mission[m].admitted /\ ~mission[m].hit
  <2>1. Dispatch(pending, active \ {m}) /\ leaked' = leaked
    BY <1>3 DEF Saved
  <2>2. \A i \in DOMAIN pending : pending[i] # m /\ \E j \in DOMAIN pending : pending[i] = pending[j]
    BY <1>1
  <2>3. /\ pending' \in Seq(Missions) /\ Distinct(pending')
        /\ \A k \in DOMAIN pending' : /\ \E j \in DOMAIN pending : pending'[k] = pending[j]
                                      /\ pending'[k] # m /\ pending'[k] \notin active'
        /\ active' \subseteq Missions /\ Capped(active') /\ active \ {m} \subseteq active'
        /\ m \notin active'
        /\ \A n \in active' : n \in active \ {m} \/ \E j \in DOMAIN pending : n = pending[j]
        /\ NoneWaits'
    BY <2>1, <2>2, RestDispatched DEF MissionInv, QueueInv
  <2>4. MissionTypeOK'
    BY <1>1, <1>2, <2>1, <2>3, LenProperties, ElementOfSeq DEF MissionTypeOK, Distinct
  <2>5. QueueInv'
    BY <1>2, <2>3 DEF MissionInv, QueueInv
  <2>6. SlotsInv'
    BY <1>1, <1>2, <2>1, <2>3 DEF MissionInv, QueueInv, SlotsInv
  <2> QED BY <2>3, <2>4, <2>5, <2>6 DEF MissionInv
<1>4. CASE ~(mission[m].admitted /\ ~mission[m].hit)
  <2>1. /\ UNCHANGED <<pending, active>>
        /\ leaked' = IF mission[m].admitted THEN leaked \union {m} ELSE leaked
    BY <1>4 DEF Saved
  <2>2. mission[m].admitted <=> m \in active
    BY <1>1 DEF MissionInv, SlotsInv
  <2>3. MissionTypeOK' /\ QueueInv' /\ Capped(active') /\ NoneWaits'
    BY <1>1, <1>2, <2>1, <2>2 DEF MissionInv, MissionTypeOK, QueueInv, NoneWaits
  <2>4. SlotsInv'
    BY <1>1, <1>2, <2>1, <2>2 DEF MissionInv, SlotsInv
  <2> QED BY <2>3, <2>4 DEF MissionInv
<1> QED BY <1>3, <1>4

(* The steps that leave the queue and the slots alone. *)
LEMMA TaskOnlyOK ==
  ASSUME MissionInv, NEW m \in Missions, UNCHANGED <<pending, active, leaked>>,
         NEW rec \in MissionRec, mission' = [mission EXCEPT ![m] = rec],
         \/ rec.at = mission[m].at /\ rec.admitted = mission[m].admitted
         \/ /\ mission[m].at \in {"queued", "running"} /\ m \in active
            /\ rec.at \in {"running", "final"} /\ rec.admitted
  PROVE  MissionInv'
<1> USE MissionTypes
<1>1. /\ mission' \in [Missions -> MissionRec] /\ mission'[m] = rec
      /\ \A n \in Missions \ {m} : mission'[n] = mission[n]
  OBVIOUS
<1>2. MissionTypeOK' /\ Capped(active') /\ NoneWaits'
  BY <1>1 DEF MissionInv, MissionTypeOK, NoneWaits
<1>3. QueueInv'
  BY <1>1 DEF MissionInv, QueueInv
<1>4. SlotsInv'
  BY <1>1 DEF MissionInv, SlotsInv
<1> QED BY <1>2, <1>3, <1>4 DEF MissionInv

LEMMA AdmittedOK ==
  ASSUME MissionInv, NEW m \in Missions, Admitted(m) \/ RunEnds(m)
  PROVE  MissionInv'
<1> USE MissionTypes
<1>1. CASE Admitted(m)
  <2> DEFINE rec == [mission[m] EXCEPT !.admitted = TRUE,
                                       !.at = IF mission[m].requested THEN "final" ELSE "running"]
  <2>1. /\ mission' = [mission EXCEPT ![m] = rec]
        /\ UNCHANGED <<pending, active, leaked>> /\ mission[m].at = "queued" /\ m \in active
    BY <1>1 DEF Admitted
  <2>2. rec \in MissionRec /\ rec.at \in {"running", "final"} /\ rec.admitted
    <3>1. mission[m] \in MissionRec
      OBVIOUS
    <3> QED BY ONLY <3>1 DEF MissionRec
  <2> HIDE DEF rec
  <2> QED BY <2>1, <2>2, TaskOnlyOK
<1>2. CASE RunEnds(m)
  <2> DEFINE rec == [mission[m] EXCEPT !.at = "final", !.hit = FALSE]
  <2>1. /\ mission' = [mission EXCEPT ![m] = rec]
        /\ UNCHANGED <<pending, active, leaked>> /\ mission[m].at = "running"
    BY <1>2 DEF RunEnds, Goes
  <2>2. mission[m].admitted /\ m \in active
    BY <2>1 DEF MissionInv, SlotsInv
  <2>3. rec \in MissionRec /\ rec.at = "final" /\ rec.admitted
    BY <2>2 DEF MissionRec
  <2> HIDE DEF rec
  <2> QED BY <2>1, <2>2, <2>3, TaskOnlyOK
<1> QED BY <1>1, <1>2

LEMMA CancelOK ==
  ASSUME MissionInv, NEW m \in Missions, CancelRequest(m) \/ TaskCancelled(m)
  PROVE  MissionInv'
<1> USE MissionTypes
<1>1. CASE CancelRequest(m)
  <2> DEFINE rec == [mission[m] EXCEPT !.requested = TRUE]
  <2>1. mission' = [mission EXCEPT ![m] = rec] /\ UNCHANGED <<pending, active, leaked>>
    BY <1>1 DEF CancelRequest
  <2>2. rec \in MissionRec /\ rec.at = mission[m].at /\ rec.admitted = mission[m].admitted
    <3>1. mission[m] \in MissionRec
      OBVIOUS
    <3> QED BY ONLY <3>1 DEF MissionRec
  <2> HIDE DEF rec
  <2> QED BY <2>1, <2>2, TaskOnlyOK
<1>2. CASE TaskCancelled(m)
  <2> DEFINE rec == [mission[m] EXCEPT !.hit = TRUE, !.cancelled = TRUE]
  <2>1. mission' = [mission EXCEPT ![m] = rec] /\ UNCHANGED <<pending, active, leaked>>
    BY <1>2 DEF TaskCancelled
  <2>2. rec \in MissionRec /\ rec.at = mission[m].at /\ rec.admitted = mission[m].admitted
    <3>1. mission[m] \in MissionRec
      OBVIOUS
    <3> QED BY ONLY <3>1 DEF MissionRec
  <2> HIDE DEF rec
  <2> QED BY <2>1, <2>2, TaskOnlyOK
<1> QED BY <1>1, <1>2
-----------------------------------------------------------------------------
(* The invariant. *)

LEMMA InitMissionInv == MissionInit => MissionInv
<1> SUFFICES ASSUME MissionInit PROVE MissionInv
  OBVIOUS
<1>1. pending = <<>> /\ active = {} /\ leaked = {} /\ DOMAIN pending = {}
  BY DEF MissionInit
<1>2. MissionTypeOK
  BY <1>1 DEF MissionInit, MissionTypeOK, MissionRec
<1>3. QueueInv /\ NoneWaits
  BY <1>1, EmptySeq DEF QueueInv, Distinct, NoneWaits
<1>4. SlotsInv
  BY <1>1 DEF MissionInit, SlotsInv
<1>5. Capped(active)
  <2>1. \A l : InLane({}, l) = {}
    BY DEF InLane
  <2>2. IsFiniteSet({}) /\ Cardinality({}) = 0
    BY FS_EmptySet
  <2>3. 0 <= MaxGlobal /\ 0 <= MaxPerLane
    BY MissionAssumption
  <2>4. Capped({})
    BY <2>1, <2>2, <2>3 DEF Capped
  <2> QED BY <1>1, <2>4
<1> QED BY <1>2, <1>3, <1>4, <1>5 DEF MissionInv

LEMMA StepMissionInv == MissionInv /\ [MissionNext]_mvars => MissionInv'
<1> SUFFICES ASSUME MissionInv, [MissionNext]_mvars PROVE MissionInv'
  OBVIOUS
<1>1. CASE MissionNext
  BY <1>1, EnqueueOK, AdmittedOK, AcquireCancelledOK, SavedOK, CancelOK DEF MissionNext
<1>2. CASE UNCHANGED mvars
  BY <1>2 DEF mvars, MissionInv, MissionTypeOK, QueueInv, SlotsInv, NoneWaits, Distinct
<1> QED BY <1>1, <1>2

(* Every state of the admission queue satisfies the invariant: in           *)
(* particular, one dispatch at a time is all that _dispatch_locked ever has *)
(* to do, since nobody who has room waits.                                  *)
THEOREM MissionInvariant == MissionSpec => []MissionInv
  BY InitMissionInv, StepMissionInv, PTL DEF MissionSpec

(* The state has its types; no mission waits twice, and a slot that was     *)
(* lost is never given back.                                                *)
THEOREM MissionTypesHold == MissionSpec => []MissionTypeOK
<1>1. MissionInv => MissionTypeOK
  BY DEF MissionInv
<1> QED BY <1>1, MissionInvariant, PTL

(* Wherever cancellations strike, the global and the per-connection caps    *)
(* hold, a slot is held only by a mission under way or lost by one that was *)
(* cancelled while it was saved, who runs holds one, and no mission waits   *)
(* while a slot and its lane are free.                                      *)
THEOREM LanesAreKept == MissionSpec => []LanesKept
<1>1. ASSUME MissionInv
      PROVE  LanesKept
  <2>1. Cardinality(active) <= MaxGlobal
    BY <1>1 DEF MissionInv, Capped
  <2>2. \A l \in {Lane[m] : m \in Missions} : Cardinality(InLane(active, l)) <= MaxPerLane
    BY <1>1 DEF MissionInv, Capped
  <2>3. /\ \A m \in active : mission[m].at \in {"queued", "running", "final"} \/ m \in leaked
        /\ \A m \in Missions : mission[m].at = "running" => m \in active
    BY <1>1 DEF MissionInv, SlotsInv
  <2>4. Eligible(pending, active) = {}
    BY <1>1 DEF MissionInv, NoneWaits, Eligible, Room
  <2> QED BY <2>1, <2>2, <2>3, <2>4 DEF LanesKept
<1>2. MissionInv => LanesKept
  BY <1>1
<1> QED BY <1>2, MissionInvariant, PTL
-----------------------------------------------------------------------------
(* Side by side, each service behaves as it does alone. *)
LEMMA EachAsAlone == ServicesSpec => AlertSpec /\ BackupSpec /\ MissionSpec
<1>1. ServicesInit => AlertInit /\ BackupInit /\ MissionInit
  BY DEF ServicesInit
<1>2. [ServicesNext]_svars => [AlertNext]_avars /\ [BackupNext]_bvars /\ [MissionNext]_mvars
  BY DEF ServicesNext, svars
<1> QED BY <1>1, <1>2, PTL DEF ServicesSpec, AlertSpec, BackupSpec, MissionSpec

(* The type invariant of the run over the three services: a resource that   *)
(* is recorded is of the plan, an applying change is in the pollers' line   *)
(* once, a mission waits once and a slot that was lost stays lost.          *)
THEOREM ServicesTypes == ServicesSpec => []ServicesTypeOK
<1>1. AlertTypeOK /\ BackupTypeOK /\ MissionTypeOK => ServicesTypeOK
  BY DEF ServicesTypeOK
<1> QED BY <1>1, EachAsAlone, AlertTypes, NothingLeftBehind, MissionTypesHold, PTL
=============================================================================
