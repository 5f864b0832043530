------------------------------- MODULE Fanout -------------------------------
(***************************************************************************)
(* enqueueNewChanges of src/server/webhooks.ts: every change newer than    *)
(* the stored checkpoint gets one webhook_deliveries row per active,       *)
(* matching subscription; then the checkpoint moves to the newest change   *)
(* seen.  The rows are inserted one statement at a time and nothing makes  *)
(* them atomic with the checkpoint, so an invocation that dies part-way    *)
(* leaves rows behind and the next one fans the same changes out again.    *)
(***************************************************************************)
EXTENDS WebhookTables

VARIABLES
    checkpoint, \* cache_meta "webhooks:enqueue-checkpoint" (0: no row)
    fan,        \* fan[t]: the locals of tick t's enqueueNewChanges
    owed,       \* history: (change, sub) pairs active and matching at commit
    late,       \* history: changes committed behind a fan-out's back
    aborts,     \* history: enqueue calls cut off by a crash or an exception
    overlaps    \* history: enqueue calls begun while another was under way

fanVars == <<checkpoint, fan, owed, late, aborts, overlaps>>
fanoutVars == <<tables, fanVars>>

Stages == {"idle", "changes", "subs", "insert"}
FanLocals == [pc: Stages, now: 0..MaxTime, since: 0..MaxTime,
              batch: SUBSET Changes, todo: SUBSET (Changes \X Subs)]
NoFan == [pc |-> "idle", now |-> 0, since |-> 0, batch |-> {}, todo |-> {}]

FanTypeOK ==
    /\ checkpoint \in 0..MaxTime
    /\ fan \in [Ticks -> FanLocals]
    /\ owed \subseteq Changes \X Subs
    /\ late \subseteq Changes
    /\ aborts \in Nat
    /\ overlaps \in Nat

FanInit ==
    /\ checkpoint = 0
    /\ fan = [t \in Ticks |-> NoFan]
    /\ owed = {}
    /\ late = {}
    /\ aborts = 0
    /\ overlaps = 0

-----------------------------------------------------------------------------
(* The statements of enqueueNewChanges, in order.                          *)

ReadCheckpoint(t) ==
    /\ fan[t].pc = "idle"
    /\ fan' = [fan EXCEPT ![t] =
            [NoFan EXCEPT !.pc = "changes", !.now = clock, !.since = checkpoint]]
    /\ overlaps' = IF \E u \in Ticks : fan[u].pc # "idle"
                   THEN overlaps + 1 ELSE overlaps
    /\ overlaps' <= MaxOverlaps
    /\ UNCHANGED <<tables, checkpoint, owed, late, aborts>>

(* Mutant: a change stamped in the checkpoint's own second is read again.   *)
NewChangesFromCheckpoint(t) == {c \in Committed : createdAt[c] >= fan[t].since}

NewChanges(t) == {c \in Committed : createdAt[c] > fan[t].since}

ReadChanges(t) ==
    /\ fan[t].pc = "changes"
    /\ fan' = [fan EXCEPT ![t] =
            IF NewChanges(t) = {}
            THEN NoFan
            ELSE [@ EXCEPT !.pc = "subs", !.batch = NewChanges(t)]]
    /\ UNCHANGED <<tables, checkpoint, owed, late, aborts, overlaps>>

ReadSubs(t) ==
    /\ fan[t].pc = "subs"
    /\ fan' = [fan EXCEPT ![t].pc = "insert",
                          ![t].todo = {p \in fan[t].batch \X ActiveSubs :
                                            p[1] \in Wants[p[2]]}]
    /\ UNCHANGED <<tables, checkpoint, owed, late, aborts, overlaps>>

(* The pairs of the oldest change that still has some: rows go in in the    *)
(* order of the changes.                                                    *)
NextPairs(t) == {p \in fan[t].todo :
                    \A q \in fan[t].todo : createdAt[p[1]] <= createdAt[q[1]]}

InsertDelivery(t) ==
    /\ fan[t].pc = "insert"
    /\ \E p \in NextPairs(t) :
        /\ subs[p[2]] # "deleted"
        /\ InsertRow(p[2], p[1], fan[t].now)
        /\ fan' = [fan EXCEPT ![t].todo = @ \ {p}]
    /\ UNCHANGED <<clock, createdAt, runNow, subs,
                   checkpoint, owed, late, aborts, overlaps>>

(* The subscription was deleted after it was read: its foreign key fails    *)
(* and the exception takes the whole tick down.                             *)
InsertRejected(t) ==
    /\ fan[t].pc = "insert"
    /\ \E p \in NextPairs(t) : subs[p[2]] = "deleted"
    /\ fan' = [fan EXCEPT ![t] = NoFan]
    /\ aborts' = aborts + 1
    /\ UNCHANGED <<tables, checkpoint, owed, late, overlaps>>

(* Mutant: the checkpoint is written without waiting for the inserts.       *)
WriteCheckpointEarly(t) ==
    /\ fan[t].pc = "insert"
    /\ \E last \in fan[t].batch :
        /\ \A c \in fan[t].batch : createdAt[c] <= createdAt[last]
        /\ checkpoint' = createdAt[last]
    /\ fan' = [fan EXCEPT ![t] = NoFan]
    /\ UNCHANGED <<tables, owed, late, aborts, overlaps>>

(* Mutant: the checkpoint is put one second past the newest change.         *)
WriteCheckpointPast(t) ==
    /\ fan[t].pc = "insert"
    /\ fan[t].todo = {}
    /\ \E last \in fan[t].batch :
        /\ \A c \in fan[t].batch : createdAt[c] <= createdAt[last]
        /\ checkpoint' = createdAt[last] + 1
    /\ fan' = [fan EXCEPT ![t] = NoFan]
    /\ UNCHANGED <<tables, owed, late, aborts, overlaps>>

WriteCheckpoint(t) ==
    /\ fan[t].pc = "insert"
    /\ fan[t].todo = {}
    /\ \E last \in fan[t].batch :
        /\ \A c \in fan[t].batch : createdAt[c] <= createdAt[last]
        /\ checkpoint' = createdAt[last]
    /\ fan' = [fan EXCEPT ![t] = NoFan]
    /\ UNCHANGED <<tables, owed, late, aborts, overlaps>>

(* The invocation runs out of its budget, or the isolate is evicted.        *)
FanCrash(t) ==
    /\ fan[t].pc # "idle"
    /\ aborts < MaxCrashes
    /\ aborts' = aborts + 1
    /\ fan' = [fan EXCEPT ![t] = NoFan]
    /\ UNCHANGED <<tables, checkpoint, owed, late, overlaps>>

FanStep(t) ==
    \/ ReadCheckpoint(t) \/ ReadChanges(t) \/ ReadSubs(t)
    \/ InsertDelivery(t) \/ InsertRejected(t) \/ WriteCheckpoint(t)

-----------------------------------------------------------------------------
(* The actors beside it, with what the history variables record.           *)

(* Some fan-out has already looked past second n: a change stamped n that   *)
(* is committed now is not in any batch read so far.                        *)
LookedPast(n) ==
    \/ n <= checkpoint
    \/ \E t \in Ticks :
        /\ fan[t].pc # "idle"
        /\ \/ n <= fan[t].since
           \/ \E c \in fan[t].batch : n <= createdAt[c]

IngestCommit(r, c) ==
    /\ CommitChange(r, c)
    /\ owed' = owed \cup {<<c, s>> : s \in {x \in ActiveSubs : c \in Wants[x]}}
    /\ late' = IF LookedPast(runNow[r]) THEN late \cup {c} ELSE late
    /\ UNCHANGED <<checkpoint, fan, aborts, overlaps>>

FanoutOthers ==
    \/ (ClockTick /\ UNCHANGED fanVars)
    \/ \E r \in Runs :
        \/ ((BeginRun(r) \/ EndRun(r)) /\ UNCHANGED fanVars)
        \/ \E c \in Changes : IngestCommit(r, c)
    \/ \E s \in Subs :
        (CreateSubscription(s) \/ DeleteSubscription(s)) /\ UNCHANGED fanVars

(* deliverDue switches a subscription off after its last failed attempt     *)
(* (module Delivery says when).                                             *)
PauseSubscription(s) ==
    /\ subs[s] = "active"
    /\ subs' = [subs EXCEPT ![s] = "paused"]
    /\ UNCHANGED <<clock, createdAt, runNow, rows, fanVars>>

FanoutInit == TablesInit /\ FanInit

FanoutNext ==
    \/ \E t \in Ticks : FanStep(t) \/ FanCrash(t)
    \/ \E s \in Subs : PauseSubscription(s)
    \/ FanoutOthers

FanoutSpec == FanoutInit /\ [][FanoutNext]_fanoutVars

-----------------------------------------------------------------------------
(* Properties.                                                             *)

FanoutTypeOK == TablesTypeOK /\ FanTypeOK

(* A change that was committed before any fan-out looked past its second is *)
(* not skipped: once the checkpoint has passed it, every subscription that  *)
(* was active and matching at its commit, and still is active, has a row -  *)
(* whatever ticks overlapped, died part-way or moved the checkpoint back.   *)
NoTimelyChangeLost ==
    \A p \in owed :
        (p[1] \notin late /\ createdAt[p[1]] <= checkpoint /\ subs[p[2]] = "active")
            => HasRow(p[2], p[1])

(* Why NoTimelyChangeLost holds, as an inductive invariant (proved in       *)
(* Webhooks_proofs).  Due(p): pair p is still to be served if it has no row.  *)
Due(p) == p \in owed /\ p[1] \notin late /\ subs[p[2]] = "active"

Served(p) == HasRow(p[2], p[1])

OwedAreReal ==
    \A p \in owed :
        createdAt[p[1]] # 0 /\ p[1] \in Wants[p[2]] /\ subs[p[2]] # "none"

HasBatch(t) == fan[t].pc \in {"subs", "insert"}

BatchCommitted == \A t \in Ticks : HasBatch(t) => fan[t].batch \subseteq Committed

(* Nothing due is left behind the second a tick started reading from ...    *)
SinceServed ==
    \A t \in Ticks, p \in owed :
        (fan[t].pc # "idle" /\ Due(p) /\ createdAt[p[1]] <= fan[t].since)
            => Served(p)

(* ... what is due up to any change of its batch is served or in the batch  *)
BatchComplete ==
    \A t \in Ticks, p \in owed :
        (/\ HasBatch(t) /\ Due(p)
         /\ \E c \in fan[t].batch : createdAt[p[1]] <= createdAt[c])
            => Served(p) \/ p[1] \in fan[t].batch

(* ... and what is due of the batch is served or still on its list.         *)
TodoComplete ==
    \A t \in Ticks, p \in owed :
        (fan[t].pc = "insert" /\ Due(p) /\ p[1] \in fan[t].batch)
            => Served(p) \/ p \in fan[t].todo

FanoutInv ==
    /\ FanoutTypeOK
    /\ OwedAreReal
    /\ BatchCommitted
    /\ SinceServed
    /\ BatchComplete
    /\ TodoComplete
    /\ NoTimelyChangeLost

(* What the header of webhooks.ts says of every change: "New `changes` rows *)
(* are fanned out to matching subscriptions".                               *)
NoChangeLost ==
    \A p \in owed :
        (createdAt[p[1]] <= checkpoint /\ subs[p[2]] = "active")
            => HasRow(p[2], p[1])

RowsOf(s, c) == {i \in DOMAIN rows : i.sub = s /\ i.change = c}

(* enqueueNewChanges calls itself "Idempotent via the checkpoint".  It is,   *)
(* except that each call that died part-way, and each that overlapped an     *)
(* earlier one, may cost a subscription one more row for a change.           *)
DuplicatesNeedAborts ==
    \A s \in Subs, c \in Changes :
        Cardinality(RowsOf(s, c)) <= 1 + aborts + overlaps

=============================================================================
