------------------------------ MODULE Webhooks ------------------------------
(***************************************************************************)
(* runWebhookTick of src/server/webhooks.ts: a tick runs enqueueNewChanges *)
(* (module Fanout) and then deliverDue (module Delivery) over the same     *)
(* tables, beside ingest runs that write changes and agents that create    *)
(* and delete subscriptions.                                               *)
(***************************************************************************)
EXTENDS Fanout, Delivery

VARIABLE stage  \* stage[t]: the half of the tick t is in, or starts with

webhookVars == <<tables, fanVars, drainVars, stage>>

WebhooksInit ==
    /\ TablesInit
    /\ FanInit
    /\ DrainInit
    /\ stage = [t \in Ticks |-> "enqueue"]

-----------------------------------------------------------------------------

(* enqueueNewChanges; when it returns, and only then, deliverDue is next.   *)
TickEnqueue(t) ==
    /\ stage[t] = "enqueue"
    /\ FanStep(t)
    /\ stage' = [stage EXCEPT ![t] =
            IF fan'[t].pc = "idle" /\ aborts' = aborts THEN "deliver" ELSE @]
    /\ RecordBirth
    /\ UNCHANGED <<drain, posts, cuts, crossed>>

TickDeliver(t) ==
    /\ stage[t] = "deliver"
    /\ DrainStep(t)
    /\ stage' = [stage EXCEPT ![t] =
            IF drain'[t].pc = "idle" THEN "enqueue" ELSE @]
    /\ UNCHANGED fanVars

TickStep(t) == TickEnqueue(t) \/ TickDeliver(t)

(* The invocation dies in either half; the next firing starts afresh.       *)
TickCrash(t) ==
    /\ \/ (FanCrash(t) /\ UNCHANGED drainVars)
       \/ (DrainCrash(t) /\ UNCHANGED fanVars)
    /\ stage' = [stage EXCEPT ![t] = "enqueue"]

WebhooksNext ==
    \/ \E t \in Ticks : TickStep(t) \/ TickCrash(t)
    \/ (FanoutOthers /\ UNCHANGED <<drainVars, stage>>)

WebhooksSpec == WebhooksInit /\ [][WebhooksNext]_webhookVars

FairWebhooksSpec ==
    /\ WebhooksSpec
    /\ \A t \in Ticks : WF_webhookVars(TickStep(t))
    /\ WF_webhookVars(ClockTick /\ UNCHANGED <<fanVars, drainVars, stage>>)

-----------------------------------------------------------------------------
(* Properties.                                                             *)

(* deliverDue never disturbs fan-out: with the delivery columns of every    *)
(* row put back to what they were at the insert, a tick is enqueueNewChanges *)
(* and nothing else.                                                        *)
Undelivered == [i \in DOMAIN rows |-> NewRow(born[i])]
FanoutOnly == INSTANCE Fanout WITH rows <- Undelivered
ImplementsFanout == FanoutOnly!FanoutSpec

(* End to end: a pair that a timely change owes a delivery, and any pair    *)
(* that has one, comes to have deliveries all of which are settled: answered *)
(* 2xx, given up, or put off beyond the last second of the model; or it has *)
(* none, and the subscription is no longer active.                          *)
Settled(i) == rows[i].status # "pending" \/ rows[i].nextAttemptAt > MaxTime
EventuallyDelivered ==
    \A c \in Changes, s \in Subs :
        (RowsOf(s, c) # {} \/ (<<c, s>> \in owed /\ c \notin late)) ~>
            /\ \A i \in RowsOf(s, c) : Settled(i)
            /\ RowsOf(s, c) # {} \/ subs[s] # "active"

=============================================================================
