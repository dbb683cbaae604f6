-------------------------------- MODULE TurnStream --------------------------------
(***************************************************************************)
(* agent/turn_runner.py: the turns of one chat, each a durable job that    *)
(* outlives its client's connection; the queue and the writer task between *)
(* the worker's emit and the event rows; the clients that subscribe to a   *)
(* turn at any time and poll its rows until it is over.                    *)
(*                                                                         *)
(* A turn's events are numbered as emitted.  The rows are numbered by      *)
(* append_events, which DurableJobStore shows to be fenced, gap-free and   *)
(* limited to the newest ones (FencedHistory, ReplayWindow): the i-th row  *)
(* is the i-th event, since one writer takes them in order and stops at    *)
(* the first failure.  Losing the lease is Interrupted here (the janitor   *)
(* or a reader found it expired); recovery in place is DurableJobStore's.  *)
(***************************************************************************)
EXTENDS Integers, FiniteSets

CONSTANTS
    MaxTurns, Clients, NoTurn,
    MaxEmit,        \* a bound: events of each turn
    Batch,          \* at most so many events per append_events (100)
    Limit,          \* _MAX_REPLAY_EVENTS (3000)
    Page,           \* the limit of events_after (500)
    Failures        \* may append_events fail, or its answer be lost?

ASSUME StreamAssumption ==
    /\ MaxTurns \in Nat \ {0} /\ MaxEmit \in [1..MaxTurns -> Nat] /\ Failures \in BOOLEAN
    /\ Batch \in Nat \ {0} /\ Limit \in Nat \ {0} /\ Page \in Nat \ {0}
    /\ NoTurn = 0

VARIABLES
    turn,       \* the turns of the chat, in order
    current,    \* the turn the chat's slot points to
    client      \* the subscribers

streamvars == <<turn, current, client>>
-----------------------------------------------------------------------------
Turns == 1..MaxTurns
Outcomes == {"done", "error"}         \* "error" stands for "cancelled" too

(* status: of the job row.  phase: where _runner is: in the worker, in its  *)
(* finally awaiting the cancelled watchdog, in close_durable awaiting the   *)
(* writer, or finalizing.  closed: the None in the queue.                   *)
TurnRec == [status : {"none", "running", "removed"} \union Outcomes,
            phase : {"none", "working", "unwatching", "draining", "finalizing", "over"},
            outcome : Outcomes, cancelled : BOOLEAN,
            emitted : Nat, taken : Nat, stored : Nat, closed : BOOLEAN,
            writer : {"none", "waiting", "writing", "over", "dead"}]

(* behind: how many rows were unsent when the client saw the turn over.     *)
ClientRec == [turn : Turns \union {NoTurn}, at : {"page", "state", "last", "end"},
              sent : Int, behind : Nat]

StreamTypeOK ==
    /\ turn \in [Turns -> TurnRec]
    /\ current \in Turns \union {NoTurn}
    /\ client \in [Clients -> ClientRec]
    /\ \A t \in Turns : turn[t].stored <= turn[t].taken /\ turn[t].taken <= turn[t].emitted

NoTurnYet == [status |-> "none", phase |-> "none", outcome |-> "done", cancelled |-> FALSE,
              emitted |-> 0, taken |-> 0, stored |-> 0, closed |-> FALSE, writer |-> "none"]

Is(t, phase) == turn[t].phase = phase
Alter(t, rec) == turn' = [turn EXCEPT ![t] = rec]

(* The rows a reader finds, by sequence number from 0. *)
Rows(t) == IF turn[t].status = "removed" THEN {}
           ELSE {s \in 0..(turn[t].stored - 1) : s >= turn[t].stored - Limit}
-----------------------------------------------------------------------------
StreamInit ==
    /\ turn = [t \in Turns |-> NoTurnYet]
    /\ current = NoTurn
    /\ client = [c \in Clients |-> [turn |-> NoTurn, at |-> "page", sent |-> -1, behind |-> 0]]

(* TurnRegistry.start, acquired: the chat has no running turn. *)
Start ==
    /\ \A t \in Turns : turn[t].status # "running"
    /\ \E t \in Turns :
          /\ turn[t].status = "none" /\ \A u \in 1..(t - 1) : turn[u].status # "none"
          /\ Alter(t, [NoTurnYet EXCEPT !.status = "running", !.phase = "working",
                                        !.writer = "waiting"])
          /\ current' = t
    /\ UNCHANGED client

Emit(t) ==
    /\ Is(t, "working") /\ ~turn[t].cancelled
    /\ turn[t].emitted < MaxEmit[t]
    /\ Alter(t, [turn[t] EXCEPT !.emitted = @ + 1])
    /\ UNCHANGED <<current, client>>

(* The worker returns or raises, or the cancellation reaches it: _runner's  *)
(* finally cancels the watchdog and awaits it.                              *)
WorkerEnds(t) ==
    /\ Is(t, "working")
    /\ \E outcome \in IF turn[t].cancelled THEN {"error"} ELSE Outcomes :
          Alter(t, [turn[t] EXCEPT !.phase = "unwatching", !.outcome = outcome, !.cancelled = FALSE])
    /\ UNCHANGED <<current, client>>

(* A cancellation delivered in that await leaves the finally: close_durable *)
(* never runs.  Later ones find it shielded.                                *)
LeaveFinally(t) ==
    /\ Is(t, "unwatching") /\ turn[t].cancelled
    /\ Alter(t, [turn[t] EXCEPT !.phase = "over", !.cancelled = FALSE, !.outcome = "error"])
    /\ UNCHANGED <<current, client>>

(* close_durable: the sentinel, the writer, finalize (fenced), finish. *)
CloseQueue(t) ==
    /\ Is(t, "unwatching") /\ ~turn[t].cancelled
    /\ Alter(t, [turn[t] EXCEPT !.phase = "draining", !.closed = TRUE])
    /\ UNCHANGED <<current, client>>
NotAwaited(t) ==                                \* mutant: finalize without awaiting the writer
    /\ Is(t, "draining")
    /\ Alter(t, [turn[t] EXCEPT !.phase = "finalizing"])
    /\ UNCHANGED <<current, client>>
WriterAwaited(t) ==
    /\ Is(t, "draining") /\ turn[t].writer \in {"over", "dead"}
    /\ Alter(t, [turn[t] EXCEPT !.phase = "finalizing"])
    /\ UNCHANGED <<current, client>>
FinalizeTurn(t) ==
    /\ Is(t, "finalizing")
    /\ Alter(t, [turn[t] EXCEPT !.phase = "over", !.outcome = "error",
                                !.status = IF @ = "running" THEN turn[t].outcome ELSE @])
    /\ UNCHANGED <<current, client>>

(* TurnRegistry.cancel here or elsewhere, stop, or the watchdog. *)
Cancel(t) ==
    /\ turn[t].phase \in {"working", "unwatching"}
    /\ Alter(t, [turn[t] EXCEPT !.cancelled = TRUE])
    /\ UNCHANGED <<current, client>>

(* interrupt_expired; cleanup or dismiss of a finished turn. *)
Interrupted(t) ==
    /\ turn[t].status = "running"
    /\ Alter(t, [turn[t] EXCEPT !.status = "error"])
    /\ UNCHANGED <<current, client>>
Removed(t) ==
    /\ turn[t].status \in Outcomes
    /\ Alter(t, [turn[t] EXCEPT !.status = "removed"])
    /\ current' = IF current = t THEN NoTurn ELSE current
    /\ UNCHANGED client
-----------------------------------------------------------------------------
TakeUnchecked(t) ==                             \* mutant: Batch items, there or not
    /\ turn[t].writer = "waiting" /\ turn[t].taken < turn[t].emitted
    /\ Alter(t, [turn[t] EXCEPT !.writer = "writing", !.taken = @ + Batch])
    /\ UNCHANGED <<current, client>>
TakeFull(t) ==                                  \* mutant: waits for a full batch
    /\ turn[t].writer = "waiting"
    /\ \/ /\ turn[t].taken + Batch <= turn[t].emitted
          /\ Alter(t, [turn[t] EXCEPT !.writer = "writing", !.taken = @ + Batch])
       \/ /\ turn[t].closed
          /\ Alter(t, [turn[t] EXCEPT !.writer = "over"])
    /\ UNCHANGED <<current, client>>
(* _write_events: one event, and up to Batch of those that are there. *)
Take(t) ==
    /\ turn[t].writer = "waiting"
    /\ \/ /\ turn[t].taken < turn[t].emitted
          /\ LET left == turn[t].emitted - turn[t].taken
             IN  Alter(t, [turn[t] EXCEPT !.writer = "writing",
                                          !.taken = @ + IF left < Batch THEN left ELSE Batch])
       \/ /\ turn[t].taken = turn[t].emitted /\ turn[t].closed
          /\ Alter(t, [turn[t] EXCEPT !.writer = "over"])
    /\ UNCHANGED <<current, client>>

Unfenced(t) ==                                  \* mutant: rows are added to a turn that is over
    /\ turn[t].writer = "writing"
    /\ Alter(t, [turn[t] EXCEPT !.stored = turn[t].taken, !.writer = "waiting"])
    /\ UNCHANGED <<current, client>>
(* _persist_batch: fenced out, or failed (the rows may be there all the     *)
(* same), the writer raises and is never started again.  Stored: it goes    *)
(* on, and returns if the sentinel came with the batch.                     *)
Persist(t) ==
    /\ turn[t].writer = "writing"
    /\ LET next == IF turn[t].closed /\ turn[t].taken = turn[t].emitted THEN {"waiting", "over"}
                   ELSE {"waiting"}
       IN  \/ /\ turn[t].status = "running"
              /\ \E w \in next \union (IF Failures THEN {"dead"} ELSE {}) :
                    Alter(t, [turn[t] EXCEPT !.stored = turn[t].taken, !.writer = w])
           \/ /\ turn[t].status # "running" \/ Failures
              /\ Alter(t, [turn[t] EXCEPT !.writer = "dead"])
    /\ UNCHANGED <<current, client>>
-----------------------------------------------------------------------------
(* TurnRun.subscribe on the run that start or get returned. *)
Subscribe(c, t) ==
    /\ client[c].turn = NoTurn /\ turn[t].status \notin {"none", "removed"} /\ current = t
    /\ client' = [client EXCEPT ![c].turn = t]
    /\ UNCHANGED <<turn, current>>

(* events_after(job, sent): the first Page rows past the last one sent. *)
Unsent(c) == {s \in Rows(client[c].turn) : s > client[c].sent}
Reads(c) ==
    {s \in Unsent(c) : Cardinality({r \in Unsent(c) : r < s}) < Page}
Last(S, otherwise) == IF S = {} THEN otherwise ELSE CHOOSE s \in S : \A r \in S : r <= s

Sends(c, at) ==
    client' = [client EXCEPT ![c].at = at, ![c].sent = Last(Reads(c), @)]

ReadPage(c) ==
    /\ client[c].turn # NoTurn /\ client[c].at = "page"
    /\ Sends(c, "state")
    /\ UNCHANGED <<turn, current>>

IgnoresStatus(c) ==                             \* mutant: only a missing job ends the stream
    /\ client[c].turn # NoTurn /\ client[c].at = "state"
    /\ client' = IF current # NoTurn THEN [client EXCEPT ![c].at = "page"]
                 ELSE [client EXCEPT ![c].at = "last", ![c].behind = Cardinality(Unsent(c))]
    /\ UNCHANGED <<turn, current>>
(* load_current of the chat's key: whatever turn the slot points to now. *)
ReadState(c) ==
    /\ client[c].turn # NoTurn /\ client[c].at = "state"
    /\ client' = IF current # NoTurn /\ turn[current].status = "running"
                 THEN [client EXCEPT ![c].at = "page"]
                 ELSE [client EXCEPT ![c].at = "last", ![c].behind = Cardinality(Unsent(c))]
    /\ UNCHANGED <<turn, current>>

EndsAtOnce(c) ==                                \* mutant: no read after the turn was seen over
    /\ client[c].turn # NoTurn /\ client[c].at = "last"
    /\ client' = [client EXCEPT ![c].at = "end"]
    /\ UNCHANGED <<turn, current>>
ReadLast(c) ==
    /\ client[c].turn # NoTurn /\ client[c].at = "last"
    /\ Sends(c, "end")
    /\ UNCHANGED <<turn, current>>

(* The client disconnects; it may subscribe again, from the beginning. *)
Disconnect(c) ==
    /\ client[c].turn # NoTurn
    /\ client' = [client EXCEPT ![c] = [turn |-> NoTurn, at |-> "page", sent |-> -1, behind |-> 0]]
    /\ UNCHANGED <<turn, current>>

WriterStep(t) == Take(t) \/ Persist(t)
CloseStep(t) == CloseQueue(t) \/ WriterAwaited(t) \/ FinalizeTurn(t) \/ LeaveFinally(t)
ClientStep(c) == ReadPage(c) \/ ReadState(c) \/ ReadLast(c)

StreamNext ==
    \/ Start
    \/ \E t \in Turns :
          \/ Emit(t) \/ WorkerEnds(t) \/ Cancel(t) \/ CloseStep(t) \/ WriterStep(t)
          \/ Interrupted(t) \/ Removed(t)
    \/ \E c \in Clients : ClientStep(c) \/ Disconnect(c) \/ \E t \in Turns : Subscribe(c, t)

(* Tasks run; a cancelled worker ends, and a turn whose runner is over      *)
(* without having finalized it loses its lease.  A worker need not end.     *)
StreamFairness ==
    /\ \A t \in Turns :
          /\ WF_streamvars(WriterStep(t)) /\ WF_streamvars(CloseStep(t))
          /\ WF_streamvars(turn[t].cancelled /\ WorkerEnds(t))
          /\ WF_streamvars(Is(t, "over") /\ Interrupted(t))
    /\ \A c \in Clients : WF_streamvars(ClientStep(c))
StreamSpec == StreamInit /\ [][StreamNext]_streamvars
StreamFairSpec == StreamSpec /\ StreamFairness
-----------------------------------------------------------------------------
(* close_durable drains the queue before it finalizes: a turn that ended    *)
(* "done" can be replayed to its last event, unless its writer failed (it   *)
(* is never started again, and the turn goes on).                           *)
DoneIsReplayable ==
    \A t \in Turns : turn[t].status = "done" =>
        turn[t].stored = turn[t].emitted \/ turn[t].writer = "dead"

(* A stream that ends has sent the last event of its turn, unless the turn  *)
(* was removed meanwhile or the client was more than one page behind when   *)
(* it saw the turn over; events written between its last page and that look *)
(* are not lost.                                                            *)
StreamedToTheEnd ==
    \A c \in Clients :
        LET t == client[c].turn
        IN  t # NoTurn /\ client[c].at = "end" =>
               \/ client[c].sent = turn[t].stored - 1
               \/ turn[t].status \in {"removed", "running"}
               \/ client[c].behind > Page

(* The turns of a chat are jobs of one scope, so whatever was left out of   *)
(* the store here, they keep to its contract: one turn runs at a time, its  *)
(* rows are only added to, and none after it is over, however late the      *)
(* writer, finalize and the janitor come (start, _persist_batch,            *)
(* close_durable).                                                          *)
Issued == CHOOSE n \in 0..MaxTurns : \A t \in Turns : turn[t].status # "none" <=> t <= n
Phase(status) ==
    IF status = "none" THEN "new"
    ELSE IF status = "running" THEN "open"
    ELSE IF status = "removed" THEN "gone"
    ELSE "sealed"
Contract == INSTANCE JobContract WITH
    Jobs <- Turns,
    NoJob <- NoTurn,
    current <- IF current # NoTurn /\ turn[current].status = "running" THEN current ELSE NoTurn,
    turn <- Issued,
    phase <- [t \in Turns |-> Phase(turn[t].status)],
    length <- [t \in Turns |-> IF turn[t].status \in {"none", "removed"} THEN 0 ELSE turn[t].stored],
    verdict <- [t \in Turns |-> IF turn[t].status = "done" THEN t ELSE -1]
TurnsKeepContract == Contract!Spec

(* "get a replay of everything emitted so far plus live updates"            *)
(* (turn_runner.py:6): of everything kept, for a turn that ended by itself.  *)
WholeReplay ==
    \A c \in Clients :
        LET t == client[c].turn
        IN  t # NoTurn /\ client[c].at = "end" /\ turn[t].status = "done" =>
               client[c].sent = turn[t].stored - 1

(* A subscriber that stays gets every event its turn emits while it runs,   *)
(* whatever the batches and the polls, although the worker never returns    *)
(* (unless the writer failed).  That is, subscribed and emitted ~> sent;    *)
(* what is emitted stays so, hence []<>(subscribed and emitted => sent).    *)
EventsArrive ==
    \A c \in Clients, t \in Turns : \A n \in 1..MaxEmit[t] :
        []<>(client[c].turn = t /\ turn[t].emitted >= n =>
                \/ client[c].sent >= n - 1
                \/ turn[t].status # "running" \/ turn[t].writer = "dead")

(* A stream ends after its turn, however the turn ended: returned, raised,  *)
(* cancelled in any of _runner's awaits, or interrupted.  Only a newer turn *)
(* of the chat keeps it open: the slot's current job is what is looked at.  *)
(* (A turn that is over stays so: over ~> ended is []<>(over => ended).)    *)
StreamsEnd ==
    \A c \in Clients, t \in Turns :
        []<>(client[c].turn = t /\ Is(t, "over") =>
                \/ client[c].at = "end"
                \/ current \notin {t, NoTurn} /\ turn[current].status = "running")
=============================================================================
