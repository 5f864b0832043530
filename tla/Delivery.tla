------------------------------ MODULE Delivery ------------------------------
(***************************************************************************)
(* deliverDue of src/server/webhooks.ts: read up to Limit due deliveries,  *)
(* oldest first, then for each one re-read its subscription, POST the      *)
(* change, and record the answer - ok, another attempt after an            *)
(* exponential backoff, or failed together with switching the              *)
(* subscription off.  Each read, POST and update is a step of its own.     *)
(***************************************************************************)
EXTENDS WebhookTables

CONSTANTS
    MaxAttempts,    \* MAX_ATTEMPTS
    BaseBackoff,    \* BASE_BACKOFF_SECONDS
    Limit           \* deliveries read by one deliverDue call

ASSUME DeliveryAssumption ==
    /\ MaxAttempts \in Nat \ {0}
    /\ BaseBackoff \in Nat
    /\ Limit \in Nat \ {0}

VARIABLES
    drain,  \* drain[t]: the locals of tick t's deliverDue
    posts,  \* history: POSTs sent for each delivery
    born,   \* history: when each delivery became due for its first attempt
    cuts,   \* history: deliverDue calls cut off part-way
    crossed \* history: deliverDue calls begun while another was under way

drainVars == <<drain, posts, born, cuts, crossed>>
deliveryVars == <<tables, drainVars>>

NoDrain == [pc |-> "idle", now |-> 0, due |-> [i \in {} |-> i],
            cur |-> {}, answer |-> "none"]

DrainTypeOK ==
    /\ \A t \in Ticks :
        /\ drain[t].pc \in {"idle", "pick", "inactive", "post", "record", "pause"}
        /\ drain[t].now \in 0..MaxTime
        /\ DOMAIN drain[t].due \subseteq RowIds
        /\ \A i \in DOMAIN drain[t].due : drain[t].due[i] \in Row
        /\ drain[t].cur \subseteq RowIds
        /\ drain[t].answer \in {"none", "2xx", "error"}
    /\ posts \in [RowIds -> Nat]
    /\ born \in [RowIds -> Nat]
    /\ cuts \in Nat
    /\ crossed \in Nat

DrainInit ==
    /\ drain = [t \in Ticks |-> NoDrain]
    /\ posts = [i \in RowIds |-> 0]
    /\ born = [i \in RowIds |-> 0]
    /\ cuts = 0
    /\ crossed = 0

-----------------------------------------------------------------------------
(* The statements of deliverDue, in order.                                 *)

DueRows == {i \in DOMAIN rows :
                rows[i].status = "pending" /\ rows[i].nextAttemptAt <= clock}

(* ORDER BY next_attempt_at LIMIT n: no row left out is older than one in.  *)
OldestDue(D) ==
    /\ D \subseteq DueRows
    /\ Cardinality(D) <= Limit
    /\ D = DueRows \/ Cardinality(D) = Limit
    /\ \A i \in D, j \in DueRows \ D :
            rows[i].nextAttemptAt <= rows[j].nextAttemptAt

ReadDue(t) ==
    /\ drain[t].pc = "idle"
    /\ \E D \in SUBSET DueRows :
        /\ OldestDue(D)
        /\ drain' = [drain EXCEPT ![t] =
                        [NoDrain EXCEPT !.pc = "pick", !.now = clock,
                                        !.due = [i \in D |-> rows[i]]]]
    /\ crossed' = IF \E u \in Ticks : drain[u].pc # "idle"
                  THEN crossed + 1 ELSE crossed
    /\ crossed' <= MaxOverlaps
    /\ UNCHANGED <<tables, posts, born, cuts>>

(* Mutant: the subscription's state is not looked at again.                 *)
PickDeliveryBlindly(t) ==
    /\ drain[t].pc = "pick"
    /\ \E i \in DOMAIN drain[t].due :
        /\ \A j \in DOMAIN drain[t].due :
            drain[t].due[i].nextAttemptAt <= drain[t].due[j].nextAttemptAt
        /\ drain' = [drain EXCEPT ![t].cur = {i}, ![t].pc = "post"]
    /\ UNCHANGED <<tables, posts, born, cuts, crossed>>

(* The loop's next delivery, with its subscription as it is at this moment. *)
(* "cur" holds the one delivery being worked on; "due" still has its row as *)
(* deliverDue first read it.                                                *)
PickDelivery(t) ==
    /\ drain[t].pc = "pick"
    /\ \E i \in DOMAIN drain[t].due :
        /\ \A j \in DOMAIN drain[t].due :
            drain[t].due[i].nextAttemptAt <= drain[t].due[j].nextAttemptAt
        /\ drain' = [drain EXCEPT ![t].cur = {i},
                ![t].pc = IF subs[i.sub] = "active" THEN "post" ELSE "inactive"]
    /\ UNCHANGED <<tables, posts, born, cuts, crossed>>

(* The loop's end, or the next turn of it with i done.                      *)
DrainDone(t) ==
    /\ drain[t].pc = "pick"
    /\ DOMAIN drain[t].due = {}
    /\ drain' = [drain EXCEPT ![t] = NoDrain]
    /\ UNCHANGED <<tables, posts, born, cuts, crossed>>

NextTurn(t, i) ==
    drain' = [drain EXCEPT ![t].pc = "pick", ![t].cur = {}, ![t].answer = "none",
                 ![t].due = [j \in DOMAIN drain[t].due \ {i} |-> drain[t].due[j]]]

(* UPDATE webhook_deliveries ... WHERE id = i: nothing if the row is gone.  *)
UpdateRow(i, row) ==
    rows' = [j \in DOMAIN rows |-> IF j = i THEN row ELSE rows[j]]

(* Mutant: a delivery of an inactive subscription is passed over.           *)
SkipInactive(t) ==
    /\ drain[t].pc = "inactive"
    /\ \E i \in drain[t].cur : NextTurn(t, i)
    /\ UNCHANGED <<tables, posts, born, cuts, crossed>>

FailInactive(t) ==
    /\ drain[t].pc = "inactive"
    /\ \E i \in drain[t].cur :
        /\ UpdateRow(i, [rows[i] EXCEPT !.status = "failed"])
        /\ NextTurn(t, i)
    /\ UNCHANGED <<clock, createdAt, runNow, subs, posts, born, cuts, crossed>>

(* The receiver answers 2xx, or it answers anything else or not at all.     *)
Post(t) ==
    /\ drain[t].pc = "post"
    /\ \E i \in drain[t].cur, answer \in {"2xx", "error"} :
        /\ posts' = [posts EXCEPT ![i] = @ + 1]
        /\ drain' = [drain EXCEPT ![t].pc = "record", ![t].answer = answer]
    /\ UNCHANGED <<tables, born, cuts, crossed>>

RecordOk(t) ==
    /\ drain[t].pc = "record"
    /\ drain[t].answer = "2xx"
    /\ \E i \in drain[t].cur :
        /\ UpdateRow(i, [rows[i] EXCEPT !.status = "ok"])
        /\ NextTurn(t, i)
    /\ UNCHANGED <<clock, createdAt, runNow, subs, posts, born, cuts, crossed>>

(* Mutant: a failed attempt is not counted.                                 *)
SameAttempt(t, i) == drain[t].due[i].attempt

(* The attempt count comes from the row as deliverDue first read it.        *)
NextAttempt(t, i) == drain[t].due[i].attempt + 1

(* Mutant: the exponent counts the attempts before this one.                *)
BackoffFromZero(attempt) == BaseBackoff * 2^(attempt - 1)

Backoff(attempt) == BaseBackoff * 2^attempt

(* Mutant: the row is given a status the schema does not have.              *)
RecordRetryStatus(t) ==
    /\ drain[t].pc = "record"
    /\ drain[t].answer = "error"
    /\ \E i \in drain[t].cur :
        /\ NextAttempt(t, i) < MaxAttempts
        /\ UpdateRow(i, [rows[i] EXCEPT !.status = "retrying",
                !.attempt = NextAttempt(t, i),
                !.nextAttemptAt = drain[t].now + Backoff(NextAttempt(t, i))])
        /\ NextTurn(t, i)
    /\ UNCHANGED <<clock, createdAt, runNow, subs, posts, born, cuts, crossed>>

RecordRetry(t) ==
    /\ drain[t].pc = "record"
    /\ drain[t].answer = "error"
    /\ \E i \in drain[t].cur :
        /\ NextAttempt(t, i) < MaxAttempts
        /\ UpdateRow(i, [rows[i] EXCEPT
                !.attempt = NextAttempt(t, i),
                !.nextAttemptAt = drain[t].now + Backoff(NextAttempt(t, i))])
        /\ NextTurn(t, i)
    /\ UNCHANGED <<clock, createdAt, runNow, subs, posts, born, cuts, crossed>>

RecordExhausted(t) ==
    /\ drain[t].pc = "record"
    /\ drain[t].answer = "error"
    /\ \E i \in drain[t].cur :
        /\ NextAttempt(t, i) >= MaxAttempts
        /\ UpdateRow(i, [rows[i] EXCEPT !.status = "failed",
                                        !.attempt = NextAttempt(t, i)])
    /\ drain' = [drain EXCEPT ![t].pc = "pause"]
    /\ UNCHANGED <<clock, createdAt, runNow, subs, posts, born, cuts, crossed>>

(* Mutant: the subscription is written back even if it was deleted.         *)
PauseDeleted(t) ==
    /\ drain[t].pc = "pause"
    /\ \E i \in drain[t].cur :
        /\ subs' = [subs EXCEPT ![i.sub] = "paused"]
        /\ NextTurn(t, i)
    /\ UNCHANGED <<clock, createdAt, runNow, rows, posts, born, cuts, crossed>>

(* A second statement switches the subscription off, if it is still there.  *)
PauseAfterExhausted(t) ==
    /\ drain[t].pc = "pause"
    /\ \E i \in drain[t].cur :
        /\ subs' = IF subs[i.sub] = "active"
                   THEN [subs EXCEPT ![i.sub] = "paused"] ELSE subs
        /\ NextTurn(t, i)
    /\ UNCHANGED <<clock, createdAt, runNow, rows, posts, born, cuts, crossed>>

DrainCrash(t) ==
    /\ drain[t].pc # "idle"
    /\ cuts < MaxCrashes
    /\ cuts' = cuts + 1
    /\ drain' = [drain EXCEPT ![t] = NoDrain]
    /\ UNCHANGED <<tables, posts, born, crossed>>

DrainStep(t) ==
    \/ ReadDue(t) \/ PickDelivery(t) \/ DrainDone(t) \/ FailInactive(t)
    \/ Post(t) \/ RecordOk(t) \/ RecordRetry(t) \/ RecordExhausted(t)
    \/ PauseAfterExhausted(t)

-----------------------------------------------------------------------------
(* deliverDue by itself, with fan-out reduced to rows appearing for active  *)
(* subscriptions.                                                           *)

RecordBirth ==
    born' = [i \in RowIds |-> IF i \in DOMAIN rows' \ DOMAIN rows
                              THEN rows'[i].nextAttemptAt ELSE born[i]]

Enqueue(s, c) ==
    /\ subs[s] = "active"
    /\ c \in Wants[s]
    /\ InsertRow(s, c, clock)
    /\ RecordBirth
    /\ UNCHANGED <<clock, createdAt, runNow, subs, drain, posts, cuts, crossed>>

DeliveryInit ==
    /\ clock = 1
    /\ createdAt = [c \in Changes |-> 1]
    /\ runNow = [r \in Runs |-> 0]
    /\ subs = [s \in Subs |-> "active"]
    /\ rows = [i \in {} |-> i]
    /\ DrainInit

DeliveryNext ==
    \/ \E t \in Ticks : DrainStep(t) \/ DrainCrash(t)
    \/ \E s \in Subs, c \in Changes : Enqueue(s, c)
    \/ (ClockTick /\ UNCHANGED drainVars)
    \/ \E s \in Subs : (DeleteSubscription(s) /\ UNCHANGED drainVars)

DeliverySpec == DeliveryInit /\ [][DeliveryNext]_deliveryVars

-----------------------------------------------------------------------------
(* Properties.                                                             *)

DeliveryTypeOK == TablesTypeOK /\ DrainTypeOK

InHand(t, i) == i \in drain[t].cur /\ drain[t].pc = "record"

(* Every POST is accounted for: by a recorded attempt, by the recorded      *)
(* success, by the answer in hand, by an invocation that died, or by one     *)
(* that overlapped another.  So a receiver sees a delivery at most           *)
(* MaxAttempts times, plus once per crash and once per overlap, also though  *)
(* overlapping ticks overwrite each other's attempt counts.  And as long as  *)
(* ticks do not overlap, a subscription deliverDue has switched off gets no  *)
(* further POST, also from the rest of the same batch.                       *)
PostsAccounted ==
    /\ [](\A i \in DOMAIN rows :
            posts[i] <= rows[i].attempt
                        + (IF rows[i].status = "ok" THEN 1 ELSE 0)
                        + Cardinality({t \in Ticks : InHand(t, i)})
                        + cuts + crossed)
    /\ [][crossed' = 0 => \A i \in RowIds :
            posts'[i] > posts[i] => subs[i.sub] # "paused"]_deliveryVars

(* The sum of the backoffs before attempt a + 1: 60s * (2 + 4 + ... + 2^a). *)
BackoffSum(a) == BaseBackoff * (2^(a + 1) - 2)

(* A receiver that is down has the whole sum of the backoffs to come back:  *)
(* no attempt is due, and no delivery is given up, any earlier - also when  *)
(* ticks overlap and overwrite each other's attempt count.                  *)
RetryWindow ==
    \A i \in DOMAIN rows :
        /\ rows[i].attempt < MaxAttempts =>
                rows[i].nextAttemptAt >= born[i] + BackoffSum(rows[i].attempt)
        /\ rows[i].attempt = MaxAttempts =>
                clock >= born[i] + BackoffSum(MaxAttempts - 1)

=============================================================================
