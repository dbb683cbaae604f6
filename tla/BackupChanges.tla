----------------------------- MODULE BackupChanges -----------------------------
(***************************************************************************)
(* The change ledger of the Backup Manager (api/backup_manager.py,          *)
(* backup_manager/changes.py) and its poller (backup_manager/lro.py).       *)
(*                                                                         *)
(* As in AlertChanges, a request reads rows, works on them in its session   *)
(* and commits once, and nothing locks a row.  Azure accepts most           *)
(* submissions and goes on with them: the row is then "applying", and the   *)
(* poller of every replica, tick after tick, asks Azure and records what it *)
(* hears in one commit.  Some changes need two approvers.                   *)
(***************************************************************************)
EXTENDS Integers, FiniteSets, Sequences

CONSTANTS
    Requested,          \* the changes that are requested
    Inverses,               \* the changes that rollbacks may add
    RollbackOf,           \* of each of Inverses: rollback_of
    Dual,               \* those that requires_dual_approval
    Subjects,           \* who send requests, one at a time each
    Pollers,            \* a poller per replica
    BatchSize,          \* BATCH_SIZE
    RowSets          \* a bound: the sets of changes a request selects

Rows == Requested \union Inverses
ASSUME BackupAssumption ==
    /\ Requested \intersect Inverses = {} /\ RollbackOf \in [Inverses -> Requested] /\ Dual \subseteq Requested
    /\ BatchSize \in Nat \ {0}
    /\ RowSets \subseteq SUBSET Rows
    /\ IsFiniteSet(Rows)                  \* a table's rows

VARIABLES
    row,        \* backup_manager_changes
    by,         \* of each of Dual: decided_by (of the others, nothing reads it)
    line,       \* the changes that are applying, by poll_after
    session,    \* of each subject: the request under way
    tick,       \* of each poller: the tick under way
    approvers,  \* history: of each of Dual, who approved it
    submitted   \* history: those of Dual that reached Azure

bvars == <<row, by, line, session, tick, approvers, submitted>>
-----------------------------------------------------------------------------
RowStatus == {"absent", "pending", "approved", "rejected", "applying", "applied", "failed"}
AsRead == "same"          \* a column the session leaves as it was read
Nobody == "nobody"

(* overdue: while it is applying, poll_deadline is past or poll_attempts    *)
(* has come to MAX_POLL_ATTEMPTS.                                           *)
RowRec == [status : RowStatus, overdue : BOOLEAN]

(* todo: approved rows to submit; to, by: what the commit will write.       *)
NoRequest == [kind |-> "none", todo |-> {}, to |-> [c \in Rows |-> AsRead],
              by |-> [c \in Dual |-> AsRead], approves |-> {}]
NoTick == [at |-> "idle", rows |-> {}, late |-> {}]     \* late: those that timed out

SessionRec ==
    [kind : {"none", "decision", "bulk_apply"}, todo : SUBSET Rows, to : [Rows -> RowStatus \union {AsRead}],
     by : [Dual -> Subjects \union {AsRead}], approves : SUBSET Dual]
TickRec == [at : {"idle", "polling"}, rows : SUBSET Rows, late : SUBSET Rows]

LedgerTypeOK ==
    /\ row \in [Rows -> RowRec] /\ by \in [Dual -> Subjects \union {Nobody}]
    /\ session \in [Subjects -> SessionRec]
    /\ approvers \in [Dual -> SUBSET Subjects] /\ submitted \subseteq Dual
Waiting == {line[i] : i \in DOMAIN line}
LineOK ==                               \* the line holds what is applying, once
    /\ line \in Seq(Rows) /\ \A i, j \in DOMAIN line : line[i] = line[j] => i = j
    /\ {c \in Rows : row[c].status = "applying"} = Waiting
    /\ tick \in [Pollers -> TickRec] /\ \A p \in Pollers : tick[p].late \subseteq tick[p].rows
BackupTypeOK == LedgerTypeOK /\ LineOK

BackupInit ==
    /\ row = [c \in Rows |-> [status |-> IF c \in Requested THEN "pending" ELSE "absent",
                                 overdue |-> FALSE]]
    /\ by = [c \in Dual |-> Nobody]
    /\ line = <<>>
    /\ session = [s \in Subjects |-> NoRequest] /\ tick = [p \in Pollers |-> NoTick]
    /\ approvers = [c \in Dual |-> {}] /\ submitted = {}
-----------------------------------------------------------------------------
Open(s, r) ==
    /\ session[s] = NoRequest /\ session' = [session EXCEPT ![s] = r]
    /\ UNCHANGED <<row, by, line, tick, approvers, submitted>>
Written(new, old) == IF new = old THEN AsRead ELSE new    \* only a changed column is
FirstDecider(s, c) == IF by[c] = Nobody THEN s ELSE AsRead       \* decided_by or the subject

(* decide_change: the first approval of a dual change leaves it pending,    *)
(* and the second is refused to the one who gave the first.                 *)
Decidable(c) == row[c].status \in {"pending", "approved"}
Awaits(c) == c \in Dual /\ by[c] = Nobody
AnySecond(s, c) == TRUE                 \* mutant
SecondAllowed(s, c) == c \in Dual => by[c] # s
Decider(s, S) == [c \in Dual |-> IF c \in S THEN FirstDecider(s, c) ELSE AsRead]
Reject(s, c) ==
    /\ Decidable(c)
    /\ Open(s, [NoRequest EXCEPT !.kind = "decision", !.to[c] = "rejected", !.by = Decider(s, {c})])
Approve(s, c) ==
    /\ Decidable(c) /\ SecondAllowed(s, c)
    /\ Open(s, [NoRequest EXCEPT !.kind = "decision", !.by = Decider(s, {c}), !.approves = {c} \intersect Dual,
                   !.to[c] = IF Awaits(c) THEN AsRead ELSE Written("approved", row[c].status)])

(* bulk_decision: pending rows only, and no approval of a dual change.      *)
DecideMany(s, S, d) ==
    LET decided == {c \in S : row[c].status = "pending" /\ (d = "rejected" \/ c \notin Dual)}
    IN  Open(s, [NoRequest EXCEPT !.kind = "decision",
                    !.to = [c \in Rows |-> IF c \in decided THEN d ELSE AsRead],
                    !.by = [c \in Dual |-> IF c \in decided THEN Written(s, by[c]) ELSE AsRead]])

(* bulk_apply: the rows that are approved, all at once.  A failure is a     *)
(* refusal before or by Azure, or an answer that did not come.              *)
ApplyMany(s, S) ==
    LET approved == {c \in S : row[c].status = "approved"}
    IN  approved # {} /\ Open(s, [NoRequest EXCEPT !.kind = "bulk_apply", !.todo = approved])
Submit(s, c) ==
    /\ c \in session[s].todo
    /\ \E to \in {"applying", "applied", "failed"} :
          session' = [session EXCEPT ![s].todo = @ \ {c}, ![s].to[c] = to]
    /\ submitted' = submitted \union ({c} \intersect Dual)
    /\ UNCHANGED <<row, by, line, tick, approvers>>

(* The commit.  A row that is applying has a new poll_after, behind those   *)
(* that are due, and a new deadline.                                        *)
Orders(S) == {f \in [1..Cardinality(S) -> S] : {f[i] : i \in DOMAIN f} = S}
Before(q, c, d) == \E i, j \in DOMAIN q : i < j /\ q[i] = c /\ q[j] = d
AnyStatus(moved) == Waiting \ moved      \* mutant: the query without its condition on status
Stay(moved) == {c \in Waiting \ moved : row'[c].status = "applying"}
InLine(moved) ==                        \* moved, in some order, behind the rest in its own
    line' \in {q \in Orders(Stay(moved) \union moved) :
                  \A c \in Stay(moved), d \in Stay(moved) \union moved :
                      d \in moved \/ Before(line, c, d) => Before(q, c, d)}
SessionCommits(s) ==
    LET r == session[s]
        started == {c \in Rows : r.to[c] = "applying"}
    IN  /\ r.kind # "none" /\ r.todo = {}
        /\ row' = [c \in Rows |->
                     [row[c] EXCEPT !.status = IF r.to[c] = AsRead THEN @ ELSE r.to[c],
                                    !.overdue = @ /\ r.to[c] = AsRead]]
        /\ by' = [c \in Dual |-> IF r.by[c] = AsRead THEN by[c] ELSE r.by[c]]
        /\ InLine(started)
        /\ approvers' = [c \in Dual |-> approvers[c] \union (IF c \in r.approves THEN {s} ELSE {})]
        /\ session' = [session EXCEPT ![s] = NoRequest]
        /\ UNCHANGED <<tick, submitted>>
SessionDies(s) ==                              \* a crash, an unexpected exception
    /\ session[s].kind # "none"
    /\ session' = [session EXCEPT ![s] = NoRequest]
    /\ UNCHANGED <<row, by, line, tick, approvers, submitted>>

(* rollback_change: a pending change beside the original. *)
AddInverse(u) ==
    /\ row[u].status = "absent" /\ row[RollbackOf[u]].status = "applied"
    /\ row' = [row EXCEPT ![u].status = "pending"]
    /\ UNCHANGED <<by, line, session, tick, approvers, submitted>>
-----------------------------------------------------------------------------
(* OperationPoller.tick.  The batch holds the rows with the least           *)
(* poll_after; of those, the ones that are due come first in line.          *)
NeverTimesOut(c) == FALSE               \* mutant
TimedOut(c) == row[c].overdue
TickReads(p) ==
    /\ tick[p] = NoTick /\ line # <<>>
    /\ \E n \in 1..BatchSize :
          /\ n <= Len(line)
          /\ LET due == {line[i] : i \in 1..n}
             IN  tick' = [tick EXCEPT ![p] =
                            [at |-> "polling", rows |-> due, late |-> {c \in due : TimedOut(c)}]]
    /\ UNCHANGED <<row, by, line, session, approvers, submitted>>

(* _poll_one and the commit.  A poll that raises leaves its row and its     *)
(* place in line as they were.                                              *)
Heard == {"applied", "failed", "running", "raised"}
TickCommits(p) ==
    LET t == tick[p]
    IN  /\ t.at = "polling"
        /\ \E heard \in {h \in [t.rows -> Heard] : \A c \in t.late : h[c] = "failed"} :
              LET is(answer) == {c \in t.rows : heard[c] = answer}
              IN  /\ row' = [c \in Rows |->
                               IF c \in is("applied") \union is("failed")
                               THEN [status |-> heard[c], overdue |-> FALSE] ELSE row[c]]
                  /\ InLine({c \in is("running") : row[c].status = "applying"})
        /\ tick' = [tick EXCEPT ![p] = NoTick]
        /\ UNCHANGED <<by, session, approvers, submitted>>
TickDies(p) ==                          \* the replica, or the database
    /\ tick[p].at = "polling"
    /\ tick' = [tick EXCEPT ![p] = NoTick]
    /\ UNCHANGED <<row, by, line, session, approvers, submitted>>
DeadlinePasses(c) ==
    /\ row[c].status = "applying" /\ ~row[c].overdue
    /\ row' = [row EXCEPT ![c].overdue = TRUE]
    /\ UNCHANGED <<by, line, session, tick, approvers, submitted>>

BackupNext ==
    \/ \E s \in Subjects :
          \/ \E c \in Rows : Reject(s, c) \/ Approve(s, c) \/ Submit(s, c)
          \/ \E S \in RowSets :
                ApplyMany(s, S) \/ \E d \in {"approved", "rejected"} : DecideMany(s, S, d)
          \/ SessionCommits(s) \/ SessionDies(s)
    \/ \E u \in Inverses : AddInverse(u)
    \/ \E p \in Pollers : TickReads(p) \/ TickCommits(p) \/ TickDies(p)
    \/ \E c \in Rows : DeadlinePasses(c)

(* Each poller's loop goes on whatever a tick raises, the database does not *)
(* fail every commit for ever, and time passes.                             *)
BackupFairness ==
    /\ \A p \in Pollers : WF_bvars(TickReads(p)) /\ SF_bvars(TickCommits(p))
    /\ WF_bvars(\E c \in Rows : DeadlinePasses(c))
BackupSpec == BackupInit /\ [][BackupNext]_bvars
BackupFairSpec == BackupSpec /\ BackupFairness
-----------------------------------------------------------------------------
(* "changes a single identity must not push through alone" (models, :364):  *)
(* whatever decisions overlap, a dual change reaches Azure only after two   *)
(* different subjects approved it.                                          *)
TwoApprovers == \A c \in submitted : Cardinality(approvers[c]) >= 2

(* "so a change can never sit in applying forever" (models, :361): neither  *)
(* Azure that answers "running", nor polls that raise, nor rows before it   *)
(* in the batch keep a change applying.  P ~> ~P is []<>~P, which TLC       *)
(* checks faster.                                                           *)
ChangesConverge == \A c \in Rows : []<>(row[c].status # "applying")
=============================================================================
