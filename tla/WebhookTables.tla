--------------------------- MODULE WebhookTables ---------------------------
(***************************************************************************)
(* The D1 tables that webhook fan-out and webhook delivery share, and the  *)
(* actors beside them: the clock, the ingest runs that write the changes   *)
(* feed, and the subscriptions API.  Fanout and Delivery extend this       *)
(* module and add the two halves of the 15-minute webhook tick.            *)
(*                                                                         *)
(* One awaited D1 statement is one step: statements of different Worker    *)
(* invocations interleave freely, and an invocation may be cut off between *)
(* any two of them.                                                        *)
(***************************************************************************)
EXTENDS Naturals, FiniteSets

CONSTANTS
    Changes,    \* rows the ingest jobs will insert into the changes feed
    Subs,       \* subscriptions agents may create
    Wants,      \* Wants[s]: the changes s's event list and provider filter match
    Runs,       \* ingest invocations (spec sync, models poll, admin sync)
    Copies,     \* bound: distinct delivery ids one (subscription, change) may get
    MaxTime,    \* bound: the last second the clock reaches
    Ticks,      \* concurrent webhook ticks; one unless invocations overlap
    MaxCrashes, \* bound: ticks cut off part-way
    MaxOverlaps \* bound: ticks begun before an earlier one has ended

ASSUME TablesAssumption ==
    /\ Wants \in [Subs -> SUBSET Changes]
    /\ MaxTime \in Nat \ {0}
    /\ {MaxCrashes, MaxOverlaps} \subseteq Nat

VARIABLES
    clock,      \* unix seconds, as every handler reads it
    createdAt,  \* changes.created_at; 0 where the row is not inserted yet
    runNow,     \* the `now` an ingest run took when it started; 0: not running
    subs,       \* subscriptions: absent, active or paused, deleted
    rows        \* webhook_deliveries: a partial function from ids to rows

tables == <<clock, createdAt, runNow, subs, rows>>

Times == 1..MaxTime

(* A delivery's id stands for its random UUID and for the two columns that *)
(* never change; "copy" tells apart rows for the same pair.                *)
RowIds == [sub: Subs, change: Changes, copy: Copies]

Row == [status: {"pending", "ok", "failed"}, attempt: Nat, nextAttemptAt: Nat]

TablesTypeOK ==
    /\ clock \in 1..MaxTime
    /\ createdAt \in [Changes -> 0..MaxTime]
    /\ runNow \in [Runs -> 0..MaxTime]
    /\ subs \in [Subs -> {"none", "active", "paused", "deleted"}]
    /\ DOMAIN rows \subseteq RowIds
    /\ \A i \in DOMAIN rows : rows[i] \in Row

TablesInit ==
    /\ clock = 1
    /\ createdAt = [c \in Changes |-> 0]
    /\ runNow = [r \in Runs |-> 0]
    /\ subs = [s \in Subs |-> "none"]
    /\ rows = [i \in {} |-> i]

Committed == {c \in Changes : createdAt[c] # 0}
ActiveSubs == {s \in Subs : subs[s] = "active"}
HasRow(s, c) == \E i \in DOMAIN rows : i.sub = s /\ i.change = c

-----------------------------------------------------------------------------
(* Table operations.                                                       *)

NewRow(now) == [status |-> "pending", attempt |-> 0, nextAttemptAt |-> now]

(* INSERT INTO webhook_deliveries under a fresh id.                         *)
InsertRow(s, c, now) ==
    \E n \in Copies :
        LET id == [sub |-> s, change |-> c, copy |-> n] IN
        /\ id \notin DOMAIN rows
        /\ rows' = [i \in DOMAIN rows \cup {id} |->
                        IF i = id THEN NewRow(now) ELSE rows[i]]

(* The ON DELETE CASCADE of webhook_deliveries.subscription_id.             *)
CascadeRows(s) == rows' = [i \in {j \in DOMAIN rows : j.sub # s} |-> rows[i]]

-----------------------------------------------------------------------------
(* The actors beside the webhook tick.                                     *)

ClockTick ==
    /\ clock < MaxTime
    /\ clock' = clock + 1
    /\ UNCHANGED <<createdAt, runNow, subs, rows>>

(* An ingest run reads the clock once, before it fetches anything ...       *)
BeginRun(r) ==
    /\ runNow[r] = 0
    /\ runNow' = [runNow EXCEPT ![r] = clock]
    /\ UNCHANGED <<clock, createdAt, subs, rows>>

(* ... and stamps that second on each change it inserts, however much later. *)
CommitChange(r, c) ==
    /\ runNow[r] # 0
    /\ createdAt[c] = 0
    /\ createdAt' = [createdAt EXCEPT ![c] = runNow[r]]
    /\ UNCHANGED <<clock, runNow, subs, rows>>

(* The run finishes, or dies with whatever it has written.                  *)
EndRun(r) ==
    /\ runNow[r] # 0
    /\ runNow' = [runNow EXCEPT ![r] = 0]
    /\ UNCHANGED <<clock, createdAt, subs, rows>>

CreateSubscription(s) ==
    /\ subs[s] = "none"
    /\ subs' = [subs EXCEPT ![s] = "active"]
    /\ UNCHANGED <<clock, createdAt, runNow, rows>>

DeleteSubscription(s) ==
    /\ subs[s] \in {"active", "paused"}
    /\ subs' = [subs EXCEPT ![s] = "deleted"]
    /\ CascadeRows(s)
    /\ UNCHANGED <<clock, createdAt, runNow>>

=============================================================================
