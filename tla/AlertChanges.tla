------------------------------ MODULE AlertChanges ------------------------------
(***************************************************************************)
(* The change ledger of the Alerts Manager (api/alerts_manager.py): managed *)
(* changes that administrators approve or reject, apply to Azure one by one *)
(* or in bulk, and roll back.                                               *)
(*                                                                         *)
(* Nothing locks a row.  A request reads the rows it is about, works on     *)
(* them in its session, through one Azure call after another when it        *)
(* applies, and writes what it changed in one commit at its end: between    *)
(* the two, other requests commit.  A request that dies writes nothing.     *)
(*                                                                         *)
(* The changes are a plan of the Activity Log wizard, whose creations       *)
(* require one another, and rollbacks, which delete what a change created.  *)
(***************************************************************************)
EXTENDS Integers, FiniteSets

CONSTANTS
    Plan,               \* the changes of the plan: each creates a resource
    Undo,               \* the changes that rollbacks may add
    Original,           \* of each of Undo: rollback_of
    Kind,               \* of each of Plan: target_type
    Requires,           \* of each of Plan: its prerequisites
    Rank,               \* of each change: its place in a topological order
    Admins,             \* who send requests, one at a time each
    Selections          \* a bound: the sets of changes they select

Changes == Plan \union Undo
ASSUME AlertAssumption ==
    /\ Plan \intersect Undo = {} /\ Original \in [Undo -> Plan]
    /\ Kind \in [Plan -> {"resource_group", "action_group", "rule"}]
    /\ Requires \in [Plan -> SUBSET Plan] /\ Rank \in [Changes -> Nat]
    /\ Selections \subseteq SUBSET Changes
    /\ \A c, d \in Changes : Rank[c] = Rank[d] => c = d
    /\ \A c \in Plan : \A p \in Requires[c] : Rank[p] < Rank[c]

VARIABLES
    status,     \* of each row, "absent" before a rollback adds it
    request,    \* of each administrator: the request under way
    exists,     \* the resources of the plan that are in Azure
    made        \* history: the changes whose resource was created

avars == <<status, request, exists, made>>
-----------------------------------------------------------------------------
Status == {"absent", "pending", "approved", "rejected", "applied", "stale", "failed"}
Same == "same"          \* a column the session leaves as it was read

(* todo: rows still to apply; approved, applied: those of them that were    *)
(* read so; failed: failed_roots; again: the row was read as failed; wrote: *)
(* what the commit will write.                                              *)
Idle == [open |-> FALSE, again |-> FALSE, todo |-> {}, approved |-> {}, applied |-> {}, failed |-> {},
         wrote |-> [c \in Changes |-> Same]]
Request == [Idle EXCEPT !.open = TRUE]

RequestRec ==
    [open : BOOLEAN, again : BOOLEAN, todo : SUBSET Changes, approved : SUBSET Changes, applied : SUBSET Changes,
     failed : SUBSET Changes, wrote : [Changes -> Status \union {Same}]]

AlertTypeOK ==
    /\ status \in [Changes -> Status] /\ exists \subseteq Plan /\ made \subseteq Plan
    /\ request \in [Admins -> RequestRec]
    /\ \A a \in Admins :
          /\ request[a].approved \subseteq request[a].todo /\ request[a].applied \subseteq request[a].todo
          /\ ~request[a].open => request[a] = Idle

Needs(c) == IF c \in Plan THEN Requires[c] ELSE {}
Target(c) == IF c \in Plan THEN c ELSE Original[c]
Complete(T) == \A c \in T : Needs(c) \subseteq T
Closure ==                              \* of each selection: what visit reaches from it
    [S \in Selections |->
        {c \in Changes : \A T \in SUBSET Changes : S \subseteq T /\ Complete(T) => c \in T}]
Referenced(c) == \E d \in exists : Target(c) \in Requires[d]    \* dependency_count

AlertInit ==
    /\ status = [c \in Changes |-> IF c \in Plan THEN "pending" ELSE "absent"]
    /\ request = [a \in Admins |-> Idle] /\ exists = {} /\ made = {}
-----------------------------------------------------------------------------
(* decide_change, bulk_decide_changes.  The prerequisites of what is        *)
(* rejected are rejected with it, but for those that an active change       *)
(* outside the selection requires.                                          *)
Send(a, r) == request[a] = Idle /\ request' = [request EXCEPT ![a] = r]
CanDecide(c, d) == status[c] = "pending" \/ (d = "rejected" /\ status[c] = "approved")
Decide(a, c, d) ==
    /\ CanDecide(c, d)
    /\ Send(a, [Request EXCEPT !.wrote[c] = d])
    /\ UNCHANGED <<status, exists, made>>
Shared(S) == UNION {Needs(c) : c \in {x \in Changes \ S : status[x] \in {"pending", "approved"}}}
BulkDecide(a, S, d, whole) ==
    LET mutable == IF ~whole THEN S
                   ELSE IF d = "approved" THEN Closure[S] ELSE S \union (Closure[S] \ Shared(S))
    IN  /\ \A c \in S : status[c] # "absent"
        /\ Send(a, [Request EXCEPT
                       !.wrote = [c \in Changes |-> IF c \in mutable /\ CanDecide(c, d) THEN d ELSE Same]])
        /\ UNCHANGED <<status, exists, made>>

(* apply_change, bulk_apply_changes: what they read.  A clone that failed   *)
(* may be applied again.                                                    *)
Retryable(c) == status[c] = "failed" /\ c \in Plan /\ Kind[c] = "action_group"
Apply(a, c) ==
    /\ status[c] = "approved" \/ Retryable(c)
    /\ \A p \in Needs(c) : status[p] = "applied"
    /\ Send(a, [Request EXCEPT !.todo = {c}, !.approved = {c}, !.again = Retryable(c)])
    /\ UNCHANGED <<status, exists, made>>
BulkApply(a, S) ==
    /\ \A c \in S : status[c] # "absent"
    /\ LET rows == Closure[S]
       IN  Send(a, [Request EXCEPT !.todo = rows, !.approved = {c \in rows : status[c] = "approved"},
                                   !.applied = {c \in rows : status[c] = "applied"}])
    /\ UNCHANGED <<status, exists, made>>

(* One row after the other.  A row that is not approved fails the rows that *)
(* require it, and they those that require them.                            *)
First(todo) == CHOOSE c \in todo : \A d \in todo : Rank[c] <= Rank[d]
Blocked(r, c) == Needs(c) \intersect r.failed # {}
Executed(r, c) == ~Blocked(r, c) /\ c \in r.approved
ForgetsSkipped(r, c) == ~Blocked(r, c) /\ c \notin r.applied      \* mutant
Fails(r, c) == Blocked(r, c) \/ c \notin r.applied
Passed(r, c, failed) ==                 \* the request, on its way to the next row
    [r EXCEPT !.todo = @ \ {c}, !.approved = @ \ {c}, !.applied = @ \ {c},
              !.failed = IF r.todo = {c} THEN {} ELSE IF failed THEN @ \union {c} ELSE @]
Skip(a) ==
    LET r == request[a]  c == First(r.todo)
    IN  /\ r.todo # {} /\ ~Executed(r, c)
        /\ request' = [request EXCEPT ![a] = Passed(r, c, Fails(r, c))]
        /\ UNCHANGED <<status, exists, made>>

(* _execute_change up to its commit: the existing state is read, then       *)
(* written.  A call that failed may have taken effect; a refusal leaves the *)
(* row as it was, and a clone that fails again is not written.              *)
ResultOf(r, to) == IF r.again /\ to = "failed" THEN Same ELSE to
Create(c) ==
    IF c \in exists THEN {[to |-> "stale", left |-> exists]}
    ELSE {[to |-> "applied", left |-> exists \union {c}], [to |-> "failed", left |-> exists \union {c}],
          [to |-> "failed", left |-> exists]}
DeletionRefused(c) == Kind[Target(c)] = "action_group" /\ Referenced(c)
Remove(c) ==
    IF DeletionRefused(c) THEN {}
    ELSE IF Target(c) \notin exists THEN {[to |-> "failed", left |-> exists]}
    ELSE {[to |-> "applied", left |-> exists \ {Target(c)}], [to |-> "stale", left |-> exists],
          [to |-> "failed", left |-> exists], [to |-> "failed", left |-> exists \ {Target(c)}]}
Refused == [to |-> Same, left |-> exists]       \* no connection, or still referenced
Execute(a) ==
    LET r == request[a]  c == First(r.todo)
    IN  /\ r.todo # {} /\ Executed(r, c)
        /\ \E o \in {Refused} \union (IF c \in Plan THEN Create(c) ELSE Remove(c)) :
              /\ exists' = o.left /\ made' = made \union o.left
              /\ request' = [request EXCEPT ![a] =
                                [Passed(r, c, o.to # "applied") EXCEPT !.wrote[c] = ResultOf(r, o.to)]]
        /\ UNCHANGED status

(* The commit at the end, or none: a crash, an error that is no HTTP error. *)
Commit(a) ==
    LET r == request[a]
    IN  /\ r.open /\ r.todo = {}
        /\ status' = [c \in Changes |-> IF r.wrote[c] = Same THEN status[c] ELSE r.wrote[c]]
        /\ request' = [request EXCEPT ![a] = Idle]
        /\ UNCHANGED <<exists, made>>
Lose(a) ==
    /\ request[a].open
    /\ request' = [request EXCEPT ![a] = Idle]
    /\ UNCHANGED <<status, exists, made>>

(* rollback_change: a pending change beside the original, which stays       *)
(* applied.                                                                 *)
Rollback(u) ==
    /\ status[u] = "absent" /\ status[Original[u]] = "applied"
    /\ Kind[Original[u]] # "resource_group" /\ ~DeletionRefused(u)
    /\ status' = [status EXCEPT ![u] = "pending"]
    /\ UNCHANGED <<request, exists, made>>

AlertNext ==
    \/ \E a \in Admins :
          \/ \E c \in Changes : Apply(a, c) \/ \E d \in {"approved", "rejected"} : Decide(a, c, d)
          \/ \E S \in Selections :
                \/ BulkApply(a, S)
                \/ \E d \in {"approved", "rejected"}, whole \in BOOLEAN : BulkDecide(a, S, d, whole)
          \/ Skip(a) \/ Execute(a) \/ Commit(a) \/ Lose(a)
    \/ \E u \in Undo : Rollback(u)
AlertSpec == AlertInit /\ [][AlertNext]_avars
-----------------------------------------------------------------------------
(* A bulk apply does not check prerequisites in the ledger, it relies on    *)
(* its order and on the branches it has seen fail.  However requests        *)
(* overlap, fail and die, no resource is created before those it requires.  *)
PrerequisitesFirst == \A c \in made : Needs(c) \subseteq made

(* "An approved change should no longer be applied: before apply, use that  *)
(* row's Reject control" (user-guide/coverage/alerts-manager.md:231): what  *)
(* the ledger holds as rejected is not created.                             *)
CancelledNotApplied == [][\A c \in made' \ made : status[c] # "rejected"]_avars
=============================================================================
